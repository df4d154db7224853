------------------------ MODULE RedirectCacheProofs ------------------------
(***************************************************************************)
(* The staleness bound of RedirectCache, for any number of replicas,        *)
(* aliases, requests and edits, and any lifetimes.                          *)
(*                                                                          *)
(* Each place a snapshot can be has a budget: what it has left to live plus *)
(* the time since it was superseded never exceeds it.  A fill starts with a *)
(* snapshot superseded no longer ago than the request is old; Redis adds    *)
(* one lifetime to that, and a memory tier filled from Redis another.       *)
(***************************************************************************)
EXTENDS RedirectCache, FiniteSetTheorems, TLAPS

Superseded(a, v) == v < db[a]

\* A version not yet superseded has no time since.
CurrentIsFresh ==
    \A a \in Alias, v \in Version : ~Superseded(a, v) => stale[a][v] = 0

RedisBudget ==
    \A a \in Alias :
        Superseded(a, redis[a].ver) /\ redis[a].left > 0 =>
            redis[a].left + stale[a][redis[a].ver] <= Lifetime + D

FillBudget ==
    \A q \in Req :
        req[q].pc \in {"fill", "redisset"} /\ Superseded(req[q].a, req[q].v) =>
            stale[req[q].a][req[q].v] <= req[q].g

PopulateBudget ==
    \A q \in Req :
        req[q].pc = "memset" /\ Superseded(req[q].a, req[q].v) =>
            stale[req[q].a][req[q].v] <= Lifetime + D + req[q].g

MemBudget ==
    \A r \in Replica, a \in Alias :
        Superseded(a, mem[<<r, a>>].ver) =>
            mem[<<r, a>>].left + stale[a][mem[<<r, a>>].ver] <= Bound

Budgets ==
    CurrentIsFresh /\ RedisBudget /\ FillBudget /\ PopulateBudget /\ MemBudget

IInv == TypeOK /\ Budgets

\* What the assumption on the constants gives.
LEMMA ConstantFacts ==
    /\ Lifetime \in Nat /\ D \in Nat /\ Bound \in Nat /\ Lifetime >= 1
    /\ Bound = 2 * Lifetime + D
    /\ 0 \in Version /\ Version \subseteq Nat
    /\ Idle \in ReqState
    /\ Blank \in Entry(-(D + 1), Lifetime)
    /\ NoKey \in Entry(0, Lifetime)
  <1>1. Lifetime \in Nat /\ D \in Nat /\ Lifetime >= 1
    BY RedirectCacheAssumption DEF Lifetime
  <1>2. Bound \in Nat /\ Bound = 2 * Lifetime + D
    BY <1>1 DEF Bound
  <1>3. 0 \in Version /\ Version \subseteq Nat
    BY RedirectCacheAssumption DEF Version
  <1>4. (CHOOSE a \in Alias : TRUE) \in Alias
    BY RedirectCacheAssumption
  <1>5. QED
    BY <1>1, <1>2, <1>3, <1>4 DEF Idle, Stage, ReqState, Blank, NoKey, Entry

\* CacheTTL is positive and at most Lifetime.
LEMMA CacheTTLBounds == \A v \in Version : CacheTTL(v) \subseteq 1 .. Lifetime
  BY RedirectCacheAssumption DEF CacheTTL, Lifetime

\* The invariant holds at first.
LEMMA InitIInv == Init => IInv
  <1> SUFFICES ASSUME Init PROVE IInv
    OBVIOUS
  <1> USE ConstantFacts
  <1>1. TypeOK
    BY DEF Init, TypeOK
  <1>2. Budgets
    BY <1>1 DEF Init, Budgets, CurrentIsFresh, RedisBudget, FillBudget,
            PopulateBudget, MemBudget, Superseded, TypeOK, NoKey, Idle, Blank, Key
  <1>3. QED
    BY <1>1, <1>2 DEF IInv

\* The fields of a request.
LEMMA ReqFields ==
    ASSUME NEW x \in ReqState
    PROVE  /\ x.pc \in Stage /\ x.a \in Alias /\ x.v \in Version
           /\ x.n \in 0 .. Lifetime /\ x.g \in 0 .. D
  BY DEF ReqState

\* The updates a request goes through keep its type and its other fields.
LEMMA AtFields ==
    ASSUME NEW x \in ReqState, NEW s \in Stage
    PROVE  /\ At(x, s) \in ReqState
           /\ At(x, s).pc = s /\ At(x, s).a = x.a /\ At(x, s).v = x.v
           /\ At(x, s).n = x.n /\ At(x, s).g = x.g
  BY DEF At, ReqState

\* A request that took a snapshot, field by field.
LEMMA GotFields ==
    ASSUME NEW x \in ReqState, NEW s \in Stage, NEW v \in Version,
           NEW n \in 0 .. Lifetime
    PROVE  /\ Got(x, s, v, n) \in ReqState
           /\ Got(x, s, v, n).pc = s /\ Got(x, s, v, n).a = x.a
           /\ Got(x, s, v, n).v = v /\ Got(x, s, v, n).n = n
           /\ Got(x, s, v, n).g = x.g
  BY DEF Got, ReqState

\* A request a tick older, field by field.
LEMMA OlderFields ==
    ASSUME NEW x \in ReqState, x.g < D
    PROVE  /\ Older(x) \in ReqState
           /\ Older(x).pc = x.pc /\ Older(x).a = x.a /\ Older(x).v = x.v
           /\ Older(x).n = x.n /\ Older(x).g = x.g + 1
  BY ConstantFacts DEF Older, ReqState

\* Storing in memory keeps the types of the tier.
LEMMA StoreInMemType ==
    ASSUME TypeOK, NEW q \in Req, StoreInMem(q)
    PROVE  mem' \in [Key -> Entry(-(D + 1), Lifetime)] /\ held' \subseteq Key
  <1>1. req[q] \in ReqState /\ q[1] \in Replica
    BY DEF TypeOK, Req
  <1>2. [ver |-> req[q].v, left |-> req[q].n - req[q].g]
          \in Entry(-(D + 1), Lifetime)
    BY <1>1, ReqFields, ConstantFacts DEF Entry
  <1>3. mem' \in [Key -> Entry(-(D + 1), Lifetime)]
    BY <1>2, ConstantFacts DEF StoreInMem, MemSet, TypeOK
  <1>4. Kept(q[1], req[q].g) \subseteq Alias
    BY DEF Kept
  <1>5. held' \subseteq Key
    BY <1>1, <1>4, ReqFields DEF StoreInMem, MemSet, TypeOK, Key
  <1>6. QED
    BY <1>3, <1>5

\* memCache.delete, deletePrefix and flush keep the type of the memory tier.
LEMMA MemDropType ==
    ASSUME TypeOK, NEW r, NEW A, MemDrop(r, A)
    PROVE  mem' \in [Key -> Entry(-(D + 1), Lifetime)] /\ held' \subseteq Key
  BY ConstantFacts DEF TypeOK, MemDrop

\* So does noting the requests a deletion crossed,
LEMMA CrossType ==
    ASSUME TypeOK, NEW R, NEW A, Cross(R, A)
    PROVE  crossed' \subseteq Req
  BY DEF TypeOK, Cross

\* ending requests,
LEMMA FinishType ==
    ASSUME TypeOK, NEW Q, Finish(Q)
    PROVE  req' \in [Req -> ReqState] /\ crossed' \subseteq Req
  BY ConstantFacts DEF TypeOK, Finish

\* noting an alias stored late,
LEMMA StoredType ==
    ASSUME TypeOK, NEW q \in Req, Stored(q)
    PROVE  late' \subseteq Alias
  <1>1. req[q].a \in Alias
    BY ReqFields DEF TypeOK
  <1>2. QED
    BY <1>1 DEF TypeOK, Stored

\* and moving a request on.
LEMMA GotoType ==
    ASSUME TypeOK, NEW q \in Req, NEW s \in Stage, Goto(q, s)
    PROVE  req' \in [Req -> ReqState]
  <1>1. req[q] \in ReqState
    BY DEF TypeOK
  <1>2. At(req[q], s) \in ReqState
    BY <1>1, AtFields
  <1>3. QED
    BY <1>2 DEF TypeOK, Goto

\* A step of a request keeps the types.
LEMMA RequestType ==
    ASSUME TypeOK, NEW q \in Req, Request(q)
    PROVE  TypeOK'
  <1>1. /\ req[q] \in ReqState /\ req[q].a \in Alias /\ req[q].v \in Version
        /\ req[q].n \in 0 .. Lifetime /\ req[q].g \in 0 .. D
    BY ReqFields DEF TypeOK
  <1>2. q[1] \in Replica
    BY DEF Req
  <1>3. Idle \in ReqState /\ NoKey \in Entry(0, Lifetime) /\ D \in Nat
    BY ConstantFacts
  <1> USE DEF tiers, edits, subs, history
  <1>4. ASSUME NEW a \in Alias, Begin(q, a) PROVE TypeOK'
    <2>1. [Idle EXCEPT !.pc = "get", !.a = a] \in ReqState
      BY <1>3 DEF ReqState, Stage
    <2>2. QED
      BY <1>4, <2>1 DEF Begin, TypeOK
  <1>5. CASE RedisHit(q)
    <2>1. redis[req[q].a].ver \in Version
      BY <1>1, ConstantFacts DEF TypeOK, Entry
    <2>2. PICK n \in CacheTTL(redis[req[q].a].ver) :
            req' = [req EXCEPT ![q] = Got(@, "memset", redis[req[q].a].ver, n)]
      BY <1>5 DEF RedisHit
    <2>0. n \in 1 .. Lifetime
      BY <2>1, CacheTTLBounds
    <2>3. n \in 0 .. Lifetime /\ "memset" \in Stage
      BY <2>0, ConstantFacts DEF Stage
    <2>4. Got(req[q], "memset", redis[req[q].a].ver, n) \in ReqState
      BY <1>1, <2>1, <2>3, GotFields
    <2>5. req' \in [Req -> ReqState]
      BY <2>2, <2>4 DEF TypeOK
    <2>6. QED
      BY <1>5, <2>5 DEF RedisHit, TypeOK
  <1>6. CASE RedisMiss(q)
    BY <1>6, GotoType DEF RedisMiss, TypeOK, Stage
  <1>7. CASE RedisDown(q)
    <2>1. req' \in [Req -> ReqState]
      BY <1>7, GotoType DEF RedisDown, Stage
    <2>2. shun' \in [Replica -> -D .. D]
      BY <1>1, <1>2, <1>3, <1>7 DEF RedisDown, TypeOK
    <2>3. QED
      BY <1>7, <2>1, <2>2 DEF RedisDown, TypeOK
  <1>8. CASE RedisCorrupt(q)
    <2>1. req' \in [Req -> ReqState]
      BY <1>8, GotoType DEF RedisCorrupt, Stage
    <2>2. QED
      BY <1>1, <1>3, <1>8, <2>1 DEF RedisCorrupt, TypeOK
  <1>9. CASE PopulateMem(q)
    <2>1. req' \in [Req -> ReqState] /\ crossed' \subseteq Req
      BY <1>9, FinishType DEF PopulateMem
    <2>2. late' \subseteq Alias
      BY <1>9, StoredType DEF PopulateMem
    <2>3. QED
      BY <1>9, <2>1, <2>2, StoreInMemType DEF PopulateMem, TypeOK
  <1>10. CASE Join(q)
    <2>1. req' \in [Req -> ReqState]
      BY <1>10, GotoType DEF Join, Stage
    <2>2. QED
      BY <1>10, <2>1 DEF Join, TypeOK
  <1>11. CASE Query(q)
    <2>1. PICK n \in CacheTTL(db[req[q].a]) :
            req' = [req EXCEPT ![q] = Got(@, "fill", db[req[q].a], n)]
      BY <1>11 DEF Query
    <2>2. db[req[q].a] \in Version
      BY <1>1 DEF TypeOK
    <2>0. n \in 1 .. Lifetime
      BY <2>2, CacheTTLBounds
    <2>3. n \in 0 .. Lifetime /\ "fill" \in Stage
      BY <2>0, ConstantFacts DEF Stage
    <2>4. Got(req[q], "fill", db[req[q].a], n) \in ReqState
      BY <1>1, <2>2, <2>3, GotFields
    <2>5. req' \in [Req -> ReqState]
      BY <2>1, <2>4 DEF TypeOK
    <2>6. QED
      BY <1>11, <2>5 DEF Query, TypeOK
  <1>12. CASE QueryError(q)
    <2>1. req' \in [Req -> ReqState] /\ crossed' \subseteq Req
      BY <1>12, FinishType DEF QueryError
    <2>2. QED
      BY <1>12, <2>1 DEF QueryError, TypeOK
  <1>13. CASE StoreMem(q)
    <2>1. req' \in [Req -> ReqState] /\ crossed' \subseteq Req
      <3>1. CASE Finish({q} \cup Waiters(q))
        BY <3>1, FinishType
      <3>2. CASE Goto(q, "redisset") /\ crossed' = crossed
        BY <3>2, GotoType DEF Stage, TypeOK
      <3>3. QED
        BY <1>13, <3>1, <3>2 DEF StoreMem
    <2>2. late' \subseteq Alias
      BY <1>13, StoredType DEF StoreMem
    <2>3. QED
      BY <1>13, <2>1, <2>2, StoreInMemType DEF StoreMem, TypeOK
  <1>14. CASE StoreRedis(q)
    <2>1. req' \in [Req -> ReqState] /\ crossed' \subseteq Req
      BY <1>14, FinishType DEF StoreRedis
    <2>2. [ver |-> req[q].v, left |-> req[q].n] \in Entry(0, Lifetime)
      BY <1>1 DEF Entry
    <2>3. late' \subseteq Alias
      BY <1>14, StoredType DEF StoreRedis, TypeOK
    <2>4. redis' \in [Alias -> Entry(0, Lifetime)]
      BY <1>1, <1>14, <2>2 DEF StoreRedis, TypeOK
    <2>5. QED
      BY <1>14, <2>1, <2>3, <2>4 DEF StoreRedis, TypeOK
  <1>15. QED
    BY <1>4, <1>5, <1>6, <1>7, <1>8, <1>9, <1>10, <1>11, <1>12, <1>13, <1>14
       DEF Request

\* Every step keeps the types.
LEMMA TypeStep == TypeOK /\ [Next]_vars => TypeOK'
  <1> SUFFICES ASSUME TypeOK, [Next]_vars PROVE TypeOK'
    OBVIOUS
  <1> USE DEF tiers, edits, subs, history
  <1>1. CASE UNCHANGED vars
    BY <1>1 DEF vars, TypeOK
  <1>2. ASSUME NEW q \in Req, Request(q) PROVE TypeOK'
    BY <1>2, RequestType
  <1>3. ASSUME NEW r \in Replica, Edit(r) PROVE TypeOK'
    <2>1. ASSUME NEW T \in SUBSET Alias, Commit(r, T) PROVE TypeOK'
      <3>1. ASSUME NEW a \in Alias PROVE (IF a \in T THEN db[a] + 1 ELSE db[a]) \in Version
        <4>1. db[a] \in Version
          BY DEF TypeOK
        <4>2. a \in T => db[a] < MaxEdits
          BY <2>1 DEF Commit
        <4>3. QED
          BY <4>1, <4>2, RedirectCacheAssumption DEF Version
      <3>2. QED
        BY <2>1, <3>1 DEF Commit, TypeOK
    <2>2. CASE DropMem(r)
      BY <2>2, MemDropType, CrossType DEF DropMem, TypeOK
    <2>3. ASSUME NEW a \in Alias, DropRedis(r, a) PROVE TypeOK'
      BY <2>3, ConstantFacts, CrossType DEF DropRedis, TypeOK
    <2>4. CASE DropRedisFails(r)
      BY <2>4 DEF DropRedisFails, TypeOK
    <2>5. CASE Publish(r)
      BY <2>5 DEF Publish, EditDone, TypeOK
    <2>6. CASE PublishLost(r)
      BY <2>6 DEF PublishLost, EditDone, TypeOK
    <2>7. QED
      BY <1>3, <2>1, <2>2, <2>3, <2>4, <2>5, <2>6 DEF Edit
  <1>4. ASSUME NEW r \in Replica, Listen(r) PROVE TypeOK'
    <2>1. CASE Apply(r)
      <3>1. Tail(inbox[r]) \in Seq(SUBSET Alias)
        BY <2>1 DEF Apply, TypeOK
      <3>2. inbox' \in [Replica -> Seq(SUBSET Alias)]
        BY <2>1, <3>1 DEF Apply, TypeOK
      <3>3. QED
        BY <2>1, <3>2, MemDropType, CrossType DEF Apply, TypeOK
    <2>2. CASE Cut(r)
      <3>1. inbox' \in [Replica -> Seq(SUBSET Alias)]
        BY <2>2 DEF Cut, TypeOK
      <3>2. link' \in [Replica -> {"open", "cut", "closed", "probing"}]
        BY <2>2 DEF Cut, TypeOK
      <3>3. QED
        BY <2>2, <3>1, <3>2 DEF Cut, TypeOK
    <2>4. CASE Subscribe(r)
      BY <2>4 DEF Subscribe, TypeOK
    <2>3. CASE Distrust(r) \/ ProbeAnswered(r)
      BY <2>3, MemDropType, CrossType DEF Distrust, ProbeAnswered, Flush, TypeOK
    <2>5. QED
      BY <1>4, <2>1, <2>2, <2>3, <2>4 DEF Listen
  <1>5. ASSUME NEW r \in Replica, Crash(r) PROVE TypeOK'
    <2>1. req' \in [Req -> ReqState] /\ crossed' \subseteq Req
      BY <1>5, FinishType DEF Crash
    <2>2. shun' \in [Replica -> -D .. D]
      BY <1>5, ConstantFacts DEF Crash, TypeOK
    <2>3. mem' \in [Key -> Entry(-(D + 1), Lifetime)] /\ held' \subseteq Key
      BY <1>5, ConstantFacts DEF Crash, TypeOK
    <2>4. QED
      BY <1>5, <2>1, <2>2, <2>3 DEF Crash, TypeOK
  <1>6. CASE Tick
    <2>1. mem' \in [Key -> Entry(-(D + 1), Lifetime)]
      <3>1. ASSUME NEW e \in Entry(-(D + 1), Lifetime)
            PROVE  [e EXCEPT !.left = Down(e.left, -(D + 1))] \in Entry(-(D + 1), Lifetime)
        BY ConstantFacts DEF Down, Entry
      <3>2. QED
        BY <1>6, <3>1 DEF Tick, TypeOK
    <2>2. redis' \in [Alias -> Entry(0, Lifetime)]
      <3>1. ASSUME NEW e \in Entry(0, Lifetime), e.left > 1
            PROVE  [e EXCEPT !.left = e.left - 1] \in Entry(0, Lifetime)
        BY <3>1, ConstantFacts DEF Entry
      <3>2. QED
        BY <1>6, <3>1, ConstantFacts DEF Tick, TypeOK
    <2>3. shun' \in [Replica -> -D .. D]
      BY <1>6, ConstantFacts DEF Tick, Down, TypeOK
    <2>4. req' \in [Req -> ReqState]
      BY <1>6, OlderFields DEF Tick, TypeOK
    <2>5. stale' \in [Alias -> [Version -> 0 .. Bound + 1]]
      BY <1>6, ConstantFacts DEF Tick, TypeOK
    <2>6. QED
      BY <1>6, <2>1, <2>2, <2>3, <2>4, <2>5 DEF Tick, TypeOK
  <1>7. QED
    BY <1>1, <1>2, <1>3, <1>4, <1>5, <1>6 DEF Next

-----------------------------------------------------------------------------
(* The budgets.  Three lemmas say when a step that leaves the database and   *)
(* the clock alone keeps the budget of a tier or of the requests.            *)

\* How long a version has been superseded is a number.
LEMMA StaleType ==
    ASSUME TypeOK, NEW a \in Alias, NEW v \in Version
    PROVE  stale[a][v] \in 0 .. Bound + 1 /\ db[a] \in Nat /\ v \in Nat
  BY ConstantFacts DEF TypeOK

\* With the database and the clock alone, current versions stay current.
LEMMA KeepCurrent ==
    ASSUME IInv, UNCHANGED <<db, stale>>
    PROVE  CurrentIsFresh'
  BY DEF IInv, Budgets, CurrentIsFresh, Superseded

\* Memory that only forgets keeps its budget.
LEMMA KeepMem ==
    ASSUME IInv, UNCHANGED <<db, stale>>,
           \A r \in Replica, a \in Alias : mem'[<<r, a>>] \in {Blank, mem[<<r, a>>]}
    PROVE  MemBudget'
  <1> SUFFICES ASSUME NEW r \in Replica, NEW a \in Alias,
                      db[a] > mem'[<<r, a>>].ver
               PROVE  mem'[<<r, a>>].left + stale[a][mem'[<<r, a>>].ver] <= Bound
    BY DEF MemBudget, Superseded
  <1>1. CASE mem'[<<r, a>>] = Blank
    <2>1. stale[a][0] \in 0 .. Bound + 1
      BY ConstantFacts, StaleType DEF IInv
    <2>2. QED
      BY <1>1, <2>1, ConstantFacts DEF Blank
  <1>2. CASE mem'[<<r, a>>] = mem[<<r, a>>]
    BY <1>2 DEF IInv, Budgets, MemBudget, Superseded
  <1>3. QED
    BY <1>1, <1>2

\* So does Redis.
LEMMA KeepRedis ==
    ASSUME IInv, UNCHANGED <<db, stale>>,
           \A a \in Alias : redis'[a] \in {NoKey, redis[a]}
    PROVE  RedisBudget'
  BY DEF IInv, Budgets, RedisBudget, Superseded, NoKey

\* So do requests that take no new snapshot.
LEMMA KeepReq ==
    ASSUME IInv, UNCHANGED <<db, stale>>,
           \A q \in Req :
              \/ req'[q] = req[q]
              \/ req'[q].pc \notin {"memset", "fill", "redisset"}
              \/ /\ req[q].pc = "fill" /\ req'[q].pc = "redisset"
                 /\ req'[q].a = req[q].a /\ req'[q].v = req[q].v
                 /\ req'[q].g = req[q].g
    PROVE  FillBudget' /\ PopulateBudget'
  <1>1. FillBudget'
    BY DEF IInv, Budgets, FillBudget, Superseded
  <1>2. PopulateBudget'
    BY DEF IInv, Budgets, PopulateBudget, Superseded
  <1>3. QED
    BY <1>1, <1>2

\* Finish leaves every request alone or idle.
LEMMA FinishReq ==
    ASSUME NEW Q, Finish(Q)
    PROVE  \A q \in Req : req'[q] = req[q] \/ req'[q].pc = "idle"
  BY DEF Finish, Idle

\* A request moved on keeps what it has.
LEMMA GotoReq ==
    ASSUME TypeOK, NEW q \in Req, NEW s \in Stage, Goto(q, s)
    PROVE  /\ \A p \in Req \ {q} : req'[p] = req[p]
           /\ req'[q].pc = s /\ req'[q].a = req[q].a
           /\ req'[q].v = req[q].v /\ req'[q].g = req[q].g
  <1>1. req[q] \in ReqState
    BY DEF TypeOK
  <1>2. req' = [req EXCEPT ![q] = At(req[q], s)]
    BY DEF Goto
  <1>3. req'[q] = At(req[q], s) /\ \A p \in Req \ {q} : req'[p] = req[p]
    BY <1>2 DEF TypeOK
  <1>4. QED
    BY <1>1, <1>3, AtFields

\* A request in hand: what its fields are worth.
LEMMA ReqFacts ==
    ASSUME IInv, NEW q \in Req
    PROVE  /\ req[q].pc \in Stage /\ req[q].a \in Alias /\ req[q].v \in Version
           /\ req[q].n \in 0 .. Lifetime /\ req[q].g \in 0 .. D
           /\ stale[req[q].a][req[q].v] \in 0 .. Bound + 1
           /\ db[req[q].a] \in Nat /\ req[q].v \in Nat
  <1>1. req[q] \in ReqState
    BY DEF IInv, TypeOK
  <1>2. QED
    BY <1>1, ReqFields, StaleType DEF IInv

\* A store in memory: the entry has n - g left, and the snapshot is within the
\* budget of its stage.
LEMMA StoreMemBudget ==
    ASSUME IInv, TypeOK', NEW q \in Req, StoreInMem(q), UNCHANGED <<db, stale>>,
           req[q].pc \in {"memset", "fill"}
    PROVE  MemBudget'
  <1>1. /\ q[1] \in Replica /\ req[q].a \in Alias /\ req[q].v \in Version
        /\ req[q].n \in 0 .. Lifetime /\ req[q].g \in 0 .. D
        /\ stale[req[q].a][req[q].v] \in 0 .. Bound + 1
    BY ReqFacts DEF Req
  <1>2. Superseded(req[q].a, req[q].v) =>
          stale[req[q].a][req[q].v] <= Lifetime + D + req[q].g
    BY <1>1, ConstantFacts DEF IInv, Budgets, FillBudget, PopulateBudget
  <1>3. Superseded(req[q].a, req[q].v) =>
          (req[q].n - req[q].g) + stale[req[q].a][req[q].v] <= Bound
    BY <1>1, <1>2, ConstantFacts
  <1>4. \A s \in Replica, b \in Alias :
           \/ /\ s = q[1] /\ b = req[q].a
              /\ mem'[<<s, b>>] = [ver |-> req[q].v, left |-> req[q].n - req[q].g]
           \/ mem'[<<s, b>>] \in {Blank, mem[<<s, b>>]}
    BY <1>1 DEF StoreInMem, MemSet, Key
  <1> SUFFICES ASSUME NEW s \in Replica, NEW b \in Alias,
                      db[b] > mem'[<<s, b>>].ver
               PROVE  mem'[<<s, b>>].left + stale[b][mem'[<<s, b>>].ver] <= Bound
    BY DEF MemBudget, Superseded
  <1>5. CASE /\ s = q[1] /\ b = req[q].a
             /\ mem'[<<s, b>>] = [ver |-> req[q].v, left |-> req[q].n - req[q].g]
    BY <1>3, <1>5 DEF Superseded
  <1>6. CASE mem'[<<s, b>>] = Blank
    <2>1. stale[b][0] \in 0 .. Bound + 1
      BY ConstantFacts, StaleType DEF IInv
    <2>2. QED
      BY <1>6, <2>1, ConstantFacts DEF Blank
  <1>7. CASE mem'[<<s, b>>] = mem[<<s, b>>]
    BY <1>7 DEF IInv, Budgets, MemBudget, Superseded
  <1>8. QED
    BY <1>4, <1>5, <1>6, <1>7

\* A step of a request keeps the budgets.
LEMMA RequestBudgets ==
    ASSUME IInv, TypeOK', NEW q \in Req, Request(q)
    PROVE  Budgets'
  <1> USE DEF tiers, edits, subs, history
  <1>0. TypeOK /\ req \in [Req -> ReqState]
    BY DEF IInv, TypeOK
  <1>1. UNCHANGED <<db, stale>>
    BY DEF Request, Begin, RedisHit, RedisMiss, RedisDown, RedisCorrupt,
           PopulateMem, Join, Query, QueryError, StoreMem, StoreRedis
  <1>2. CurrentIsFresh'
    BY <1>1, KeepCurrent
  <1>3. MemBudget'
    <2>1. CASE PopulateMem(q) \/ StoreMem(q)
      BY <1>1, <2>1, StoreMemBudget DEF PopulateMem, StoreMem
    <2>2. CASE UNCHANGED mem
      BY <1>1, <2>2, KeepMem
    <2>3. QED
      BY <2>1, <2>2 DEF Request, Begin, RedisHit, RedisMiss, RedisDown,
         RedisCorrupt, Join, Query, QueryError, StoreRedis
  <1>4. RedisBudget'
    <2>1. CASE req[q].pc = "redisset" /\
               redis' = [redis EXCEPT ![req[q].a] = [ver |-> req[q].v, left |-> req[q].n]]
      <3>1. /\ req[q].a \in Alias /\ req[q].v \in Version
            /\ req[q].n \in 0 .. Lifetime /\ req[q].g \in 0 .. D
            /\ stale[req[q].a][req[q].v] \in 0 .. Bound + 1
        BY ReqFacts
      <3>2. Superseded(req[q].a, req[q].v) => stale[req[q].a][req[q].v] <= req[q].g
        BY <2>1 DEF IInv, Budgets, FillBudget
      <3>3. Superseded(req[q].a, req[q].v) =>
              req[q].n + stale[req[q].a][req[q].v] <= Lifetime + D
        BY <3>1, <3>2, ConstantFacts
      <3>4. redis'[req[q].a] = [ver |-> req[q].v, left |-> req[q].n]
        BY <2>1, <3>1 DEF IInv, TypeOK
      <3>5. \A a \in Alias \ {req[q].a} : redis'[a] = redis[a]
        BY <2>1 DEF IInv, TypeOK
      <3>6. QED
        BY <1>1, <3>3, <3>4, <3>5 DEF RedisBudget, Superseded, IInv, Budgets
    <2>2. CASE \A a \in Alias : redis'[a] \in {NoKey, redis[a]}
      BY <1>1, <2>2, KeepRedis
    <2>3. CASE RedisCorrupt(q)
      BY <1>0, <2>2, <2>3 DEF RedisCorrupt, TypeOK
    <2>4. CASE UNCHANGED redis
      BY <2>2, <2>4
    <2>5. QED
      BY <2>1, <2>3, <2>4 DEF Request, Begin, RedisHit, RedisMiss, RedisDown,
         PopulateMem, Join, Query, QueryError, StoreMem, StoreRedis
  <1>5. FillBudget' /\ PopulateBudget'
    <2>1. ASSUME NEW a \in Alias, Begin(q, a) PROVE FillBudget' /\ PopulateBudget'
      <3>1. req'[q].pc = "get" /\ \A p \in Req \ {q} : req'[p] = req[p]
        BY <1>0, <2>1 DEF Begin, Idle
      <3>2. QED
        BY <1>1, <3>1, KeepReq
    <2>2. CASE RedisHit(q)
      <3>1. /\ req[q] \in ReqState /\ req[q].a \in Alias /\ req[q].g \in 0 .. D
        BY <1>0, ReqFields
      <3>2. /\ redis[req[q].a].ver \in Version
            /\ redis[req[q].a].left \in 0 .. Lifetime
        BY <1>0, <3>1, ConstantFacts DEF TypeOK, Entry
      <3>3. PICK n \in CacheTTL(redis[req[q].a].ver) :
              req' = [req EXCEPT ![q] = Got(@, "memset", redis[req[q].a].ver, n)]
        BY <2>2 DEF RedisHit
      <3>4. n \in 1 .. Lifetime
        BY <3>2, CacheTTLBounds
      <3>5. n \in 0 .. Lifetime /\ "memset" \in Stage
        BY <3>4, ConstantFacts DEF Stage
      <3>6. /\ req'[q] = Got(req[q], "memset", redis[req[q].a].ver, n)
            /\ \A p \in Req \ {q} : req'[p] = req[p]
        BY <1>0, <3>3
      <3>7. /\ req'[q].pc = "memset" /\ req'[q].a = req[q].a
            /\ req'[q].v = redis[req[q].a].ver /\ req'[q].g = req[q].g
        BY <3>1, <3>2, <3>5, <3>6, GotFields
      <3>8. redis[req[q].a].left > 0
        BY <2>2 DEF RedisHit
      <3>9. Superseded(req[q].a, redis[req[q].a].ver) =>
              redis[req[q].a].left + stale[req[q].a][redis[req[q].a].ver] <= Lifetime + D
        BY <3>1, <3>8 DEF IInv, Budgets, RedisBudget
      <3>10. stale[req[q].a][redis[req[q].a].ver] \in 0 .. Bound + 1
        BY <1>0, <3>1, <3>2, StaleType
      <3>11. Superseded(req[q].a, redis[req[q].a].ver) =>
               stale[req[q].a][redis[req[q].a].ver] <= Lifetime + D + req[q].g
        BY <3>1, <3>2, <3>8, <3>9, <3>10, ConstantFacts
      <3>12. FillBudget'
        BY <1>1, <3>6, <3>7 DEF FillBudget, Superseded, IInv, Budgets
      <3>13. PopulateBudget'
        BY <1>1, <3>6, <3>7, <3>11 DEF PopulateBudget, Superseded, IInv, Budgets
      <3>14. QED
        BY <3>12, <3>13
    <2>3. ASSUME NEW s \in {"flight", "wait", "query"}, Goto(q, s)
          PROVE  FillBudget' /\ PopulateBudget'
      <3>1. s \in Stage
        BY DEF Stage
      <3>2. req'[q].pc = s /\ \A p \in Req \ {q} : req'[p] = req[p]
        BY <1>0, <2>3, <3>1, GotoReq
      <3>3. QED
        BY <1>1, <3>2, KeepReq
    <2>4. CASE req[q].pc = "fill" /\ Goto(q, "redisset")
      <3>1. /\ req'[q].pc = "redisset" /\ req'[q].a = req[q].a
            /\ req'[q].v = req[q].v /\ req'[q].g = req[q].g
            /\ \A p \in Req \ {q} : req'[p] = req[p]
        BY <1>0, <2>4, GotoReq DEF Stage
      <3>2. QED
        BY <1>1, <2>4, <3>1, KeepReq
    <2>5. ASSUME NEW Q, Finish(Q) PROVE FillBudget' /\ PopulateBudget'
      <3>1. \A p \in Req : req'[p] = req[p] \/ req'[p].pc = "idle"
        BY <2>5, FinishReq
      <3>2. QED
        BY <1>1, <3>1, KeepReq
    <2>6. CASE Query(q)
      <3>1. req[q] \in ReqState /\ req[q].a \in Alias /\ req[q].g \in 0 .. D
        BY <1>0, ReqFields
      <3>2. db[req[q].a] \in Version
        BY <1>0, <3>1 DEF TypeOK
      <3>3. PICK n \in CacheTTL(db[req[q].a]) :
              req' = [req EXCEPT ![q] = Got(@, "fill", db[req[q].a], n)]
        BY <2>6 DEF Query
      <3>4. n \in 1 .. Lifetime
        BY <3>2, CacheTTLBounds
      <3>5. n \in 0 .. Lifetime /\ "fill" \in Stage
        BY <3>4, ConstantFacts DEF Stage
      <3>6. /\ req'[q] = Got(req[q], "fill", db[req[q].a], n)
            /\ \A p \in Req \ {q} : req'[p] = req[p]
        BY <1>0, <3>3
      <3>7. req'[q].pc = "fill" /\ req'[q].a = req[q].a /\ req'[q].v = db[req[q].a]
        BY <3>1, <3>2, <3>5, <3>6, GotFields
      <3>8. ~Superseded(req[q].a, db[req[q].a])
        BY <3>2, RedirectCacheAssumption DEF Superseded, Version
      <3>9. FillBudget'
        BY <1>1, <3>6, <3>7, <3>8 DEF FillBudget, Superseded, IInv, Budgets
      <3>10. PopulateBudget'
        BY <1>1, <3>6, <3>7 DEF PopulateBudget, Superseded, IInv, Budgets
      <3>11. QED
        BY <3>9, <3>10
    <2>7. QED
      BY <2>1, <2>2, <2>3, <2>4, <2>5, <2>6 DEF Request, RedisMiss, RedisDown,
         RedisCorrupt, PopulateMem, Join, QueryError, StoreMem, StoreRedis
  <1>6. QED
    BY <1>2, <1>3, <1>4, <1>5 DEF Budgets

\* A committed edit supersedes a version at this instant, when nothing that
\* holds it has more than one lifetime left.
LEMMA CommitBudgets ==
    ASSUME IInv, TypeOK', NEW r \in Replica, NEW T \in SUBSET Alias, Commit(r, T)
    PROVE  Budgets'
  <1> USE DEF tiers, edits, subs, history
  <1>1. UNCHANGED <<stale, mem, redis, req>>
    BY DEF Commit
  <1>2. \A a \in Alias : /\ db[a] \in Nat /\ db'[a] \in Nat
                         /\ db'[a] = db[a] \/ db'[a] = db[a] + 1
    BY ConstantFacts DEF Commit, IInv, TypeOK
  <1>3. ASSUME NEW a \in Alias, NEW v \in Version
        PROVE  /\ ~Superseded(a, v) => stale[a][v] = 0
               /\ Superseded(a, v)' => Superseded(a, v) \/ stale[a][v] = 0
    BY DEF IInv, Budgets, CurrentIsFresh
  <1>4. CurrentIsFresh'
    <2>1. ASSUME NEW a \in Alias, NEW v \in Version, ~(v < db'[a])
          PROVE  ~(v < db[a])
      <3>1. v \in Nat /\ db[a] \in Nat /\ (db'[a] = db[a] \/ db'[a] = db[a] + 1)
        BY <1>2, ConstantFacts
      <3>2. QED
        BY <2>1, <3>1
    <2>2. QED
      BY <1>1, <1>3, <2>1 DEF CurrentIsFresh, Superseded
  <1>5. RedisBudget'
    <2>1. \A a \in Alias : redis[a].ver \in Version /\ redis[a].left \in 0 .. Lifetime
      BY ConstantFacts DEF IInv, TypeOK, Entry
    <2>2. QED
      BY <1>1, <1>3, <2>1, ConstantFacts DEF RedisBudget, IInv, Budgets, Superseded
  <1>6. FillBudget'
    <2>1. ASSUME NEW q \in Req
          PROVE  /\ req[q].a \in Alias /\ req[q].v \in Version /\ req[q].g >= 0
      BY ReqFacts, ConstantFacts
    <2>2. QED
      BY <1>1, <1>3, <2>1, ConstantFacts DEF FillBudget, IInv, Budgets, Superseded
  <1>7. PopulateBudget'
    <2>1. ASSUME NEW q \in Req
          PROVE  /\ req[q].a \in Alias /\ req[q].v \in Version
                 /\ 0 <= Lifetime + D + req[q].g
      BY ReqFacts, ConstantFacts
    <2>2. QED
      BY <1>1, <1>3, <2>1 DEF PopulateBudget, IInv, Budgets, Superseded
  <1>8. MemBudget'
    <2>1. ASSUME NEW s \in Replica, NEW a \in Alias
          PROVE  /\ mem[<<s, a>>].ver \in Version
                 /\ mem[<<s, a>>].left \in Int /\ mem[<<s, a>>].left <= Bound
      <3>1. mem[<<s, a>>] \in Entry(-(D + 1), Lifetime)
        BY DEF IInv, TypeOK, Key
      <3>2. QED
        BY <3>1, ConstantFacts DEF Entry
    <2>2. QED
      BY <1>1, <1>3, <2>1 DEF MemBudget, IInv, Budgets, Superseded
  <1>9. QED
    BY <1>4, <1>5, <1>6, <1>7, <1>8 DEF Budgets

\* A tick: what is left shrinks by as much as the time since grows.
LEMMA TickBudgets ==
    ASSUME IInv, TypeOK', Tick
    PROVE  Budgets'
  <1>1. db' = db
    BY DEF Tick
  <1>2. ASSUME NEW a \in Alias, NEW v \in Version
        PROVE  /\ stale[a][v] \in 0 .. Bound + 1 /\ stale'[a][v] \in 0 .. Bound + 1
               /\ stale'[a][v] <= stale[a][v] + 1
               /\ ~Superseded(a, v) => stale'[a][v] = stale[a][v]
    BY ConstantFacts DEF Tick, Superseded, IInv, TypeOK
  <1>3. CurrentIsFresh'
    BY <1>1, <1>2 DEF CurrentIsFresh, Superseded, IInv, Budgets
  <1>4. RedisBudget'
    <2> SUFFICES ASSUME NEW a \in Alias, redis'[a].ver < db[a], redis'[a].left > 0
                 PROVE  redis'[a].left + stale'[a][redis'[a].ver] <= Lifetime + D
      BY <1>1 DEF RedisBudget, Superseded
    <2>1. redis[a].ver \in Version /\ redis[a].left \in 0 .. Lifetime
      BY ConstantFacts DEF IInv, TypeOK, Entry
    <2>2. redis[a].left > 1 /\ redis'[a] = [redis[a] EXCEPT !.left = @ - 1]
      BY DEF Tick, NoKey
    <2>3. redis[a] \in Entry(0, Lifetime)
      BY DEF IInv, TypeOK
    <2>4. redis'[a].ver = redis[a].ver /\ redis'[a].left = redis[a].left - 1
      BY <2>2, <2>3 DEF Entry
    <2>5. redis[a].left + stale[a][redis[a].ver] <= Lifetime + D
      BY <2>2, <2>4, <2>1, ConstantFacts DEF IInv, Budgets, RedisBudget, Superseded
    <2>6. /\ stale[a][redis[a].ver] \in 0 .. Bound + 1
          /\ stale'[a][redis[a].ver] \in 0 .. Bound + 1
          /\ stale'[a][redis[a].ver] <= stale[a][redis[a].ver] + 1
      BY <1>2, <2>1
    <2>7. QED
      BY <2>1, <2>4, <2>5, <2>6, ConstantFacts
  <1>5. ASSUME NEW q \in Req, req[q].pc # "idle"
        PROVE  /\ req'[q].pc = req[q].pc /\ req'[q].a = req[q].a
               /\ req'[q].v = req[q].v /\ req'[q].g = req[q].g + 1
    <2>1. req[q] \in ReqState /\ req[q].g < D
      BY <1>5 DEF Tick, IInv, TypeOK
    <2>2. req'[q] = Older(req[q])
      BY <1>5 DEF Tick
    <2>3. QED
      BY <2>1, <2>2, OlderFields
  <1>6. ASSUME NEW q \in Req, req[q].pc = "idle" PROVE req'[q].pc = "idle"
    BY <1>6 DEF Tick
  <1>7. FillBudget'
    <2> SUFFICES ASSUME NEW q \in Req, req'[q].pc \in {"fill", "redisset"},
                        req'[q].v < db[req'[q].a]
                 PROVE  stale'[req'[q].a][req'[q].v] <= req'[q].g
      BY <1>1 DEF FillBudget, Superseded
    <2>1. req[q].pc # "idle"
      BY <1>6
    <2>2. stale[req[q].a][req[q].v] <= req[q].g
      BY <1>5, <2>1 DEF IInv, Budgets, FillBudget, Superseded
    <2>3. QED
      BY <1>2, <1>5, <2>1, <2>2, ReqFacts, ConstantFacts
  <1>8. PopulateBudget'
    <2> SUFFICES ASSUME NEW q \in Req, req'[q].pc = "memset",
                        req'[q].v < db[req'[q].a]
                 PROVE  stale'[req'[q].a][req'[q].v] <= Lifetime + D + req'[q].g
      BY <1>1 DEF PopulateBudget, Superseded
    <2>1. req[q].pc # "idle"
      BY <1>6
    <2>2. stale[req[q].a][req[q].v] <= Lifetime + D + req[q].g
      BY <1>5, <2>1 DEF IInv, Budgets, PopulateBudget, Superseded
    <2>3. QED
      BY <1>2, <1>5, <2>1, <2>2, ReqFacts, ConstantFacts
  <1>9. MemBudget'
    <2> SUFFICES ASSUME NEW r \in Replica, NEW a \in Alias,
                        mem'[<<r, a>>].ver < db[a]
                 PROVE  mem'[<<r, a>>].left + stale'[a][mem'[<<r, a>>].ver] <= Bound
      BY <1>1 DEF MemBudget, Superseded
    <2> DEFINE e == mem[<<r, a>>]
    <2>1. e \in Entry(-(D + 1), Lifetime) /\ <<r, a>> \in Key
      BY DEF IInv, TypeOK, Key
    <2>2. e.ver \in Version /\ e.left \in -(D + 1) .. Lifetime
      BY <2>1, ConstantFacts DEF Entry
    <2>3. mem'[<<r, a>>] = [e EXCEPT !.left = Down(@, -(D + 1))]
      BY <2>1 DEF Tick
    <2>4. mem'[<<r, a>>].ver = e.ver /\ mem'[<<r, a>>].left = Down(e.left, -(D + 1))
      BY <2>1, <2>3 DEF Entry
    <2>5. e.left + stale[a][e.ver] <= Bound
      BY <2>4 DEF IInv, Budgets, MemBudget, Superseded
    <2>6. /\ stale[a][e.ver] \in 0 .. Bound + 1 /\ stale'[a][e.ver] \in 0 .. Bound + 1
          /\ stale'[a][e.ver] <= stale[a][e.ver] + 1
      BY <1>2, <2>2
    <2>7. Down(e.left, -(D + 1)) + stale'[a][e.ver] <= Bound
      BY <2>2, <2>5, <2>6, ConstantFacts DEF Down
    <2>8. QED
      BY <2>4, <2>7
  <1>10. QED
    BY <1>3, <1>4, <1>7, <1>8, <1>9 DEF Budgets

\* Every step keeps the invariant.
LEMMA IInvStep == IInv /\ [Next]_vars => IInv'
  <1> SUFFICES ASSUME IInv, [Next]_vars PROVE IInv'
    OBVIOUS
  <1>0. TypeOK /\ TypeOK'
    BY TypeStep DEF IInv
  <1> SUFFICES Budgets'
    BY <1>0 DEF IInv
  <1> USE DEF tiers, edits, subs, history
  \* Steps that only delete from the tiers and end requests.
  <1>1. ASSUME UNCHANGED <<db, stale>>,
               \A a \in Alias : redis'[a] \in {NoKey, redis[a]},
               \A s \in Replica, a \in Alias : mem'[<<s, a>>] \in {Blank, mem[<<s, a>>]},
               \A q \in Req : req'[q] = req[q] \/ req'[q].pc = "idle"
        PROVE  Budgets'
    BY <1>1, KeepCurrent, KeepMem, KeepRedis, KeepReq DEF Budgets
  <1>2. CASE UNCHANGED vars
    BY <1>1, <1>2 DEF vars
  <1>3. ASSUME NEW q \in Req, Request(q) PROVE Budgets'
    BY <1>0, <1>3, RequestBudgets
  <1>4. ASSUME NEW r \in Replica, Edit(r) PROVE Budgets'
    <2>1. ASSUME NEW T \in SUBSET Alias, Commit(r, T) PROVE Budgets'
      BY <1>0, <2>1, CommitBudgets
    <2>2. CASE DropMem(r)
      BY <1>0, <1>1, <2>2 DEF DropMem, MemDrop, Key
    <2>3. ASSUME NEW a \in Alias, DropRedis(r, a) PROVE Budgets'
      <3>1. \A b \in Alias : redis'[b] \in {NoKey, redis[b]}
        BY <1>0, <2>3 DEF DropRedis, TypeOK
      <3>2. QED
        BY <1>1, <2>3, <3>1 DEF DropRedis
    <2>4. CASE DropRedisFails(r) \/ EditDone(r)
      BY <1>1, <2>4 DEF DropRedisFails, EditDone
    <2>5. QED
      BY <1>4, <2>1, <2>2, <2>3, <2>4 DEF Edit, Publish, PublishLost
  <1>5. ASSUME NEW r \in Replica, Listen(r) PROVE Budgets'
    <2>1. CASE Apply(r)
      BY <1>1, <2>1 DEF Apply, MemDrop, Key
    <2>2. CASE Distrust(r) \/ ProbeAnswered(r)
      BY <1>1, <2>2 DEF Distrust, ProbeAnswered, Flush, MemDrop, Key
    <2>3. CASE Cut(r) \/ Subscribe(r)
      BY <1>1, <2>3 DEF Cut, Subscribe
    <2>4. QED
      BY <1>5, <2>1, <2>2, <2>3 DEF Listen
  <1>6. ASSUME NEW r \in Replica, Crash(r) PROVE Budgets'
    <2>1. \A q \in Req : req'[q] = req[q] \/ req'[q].pc = "idle"
      BY <1>6, FinishReq DEF Crash
    <2>2. \A s \in Replica, a \in Alias : mem'[<<s, a>>] \in {Blank, mem[<<s, a>>]}
      BY <1>6 DEF Crash, Key
    <2>3. QED
      BY <1>1, <1>6, <2>1, <2>2 DEF Crash
  <1>7. CASE Tick
    BY <1>0, <1>7, TickBudgets
  <1>8. QED
    BY <1>2, <1>3, <1>4, <1>5, <1>6, <1>7 DEF Next

-----------------------------------------------------------------------------
(* Invalidations are complete.  Whatever holds a superseded snapshot of an   *)
(* alias nothing was lost for is covered: a Redis key, and a request that    *)
(* holds it and has not crossed a deletion, by a sweep of Redis still to     *)
(* come; an entry in memory by a sweep, a broadcast or a flush still to come.*)

Intact == Alias \ (lost \cup late)

\* An edit has yet to delete the alias from Redis.
SweepAhead(a) ==
    \E r \in Replica : \/ ed[r] = "mem" /\ a \in targets[r]
                       \/ ed[r] = "redis" /\ a \in unswept[r]

\* An edit has yet to broadcast the alias, or replica r has yet to apply the
\* message, or to flush.
ClearAhead(r, a) ==
    \/ link[r] # "open"
    \/ \E s \in Replica : ed[s] # "idle" /\ a \in targets[s]
    \/ \E i \in DOMAIN inbox[r] : a \in inbox[r][i]

SweepsTargets ==
    \A r \in Replica : IF ed[r] = "redis" THEN unswept[r] \subseteq targets[r]
                       ELSE unswept[r] = {}

\* No tier and no request is ahead of the database.
NoFuture ==
    /\ \A a \in Alias : redis[a].left > 0 => redis[a].ver <= db[a]
    /\ \A q \in Req : Holding(q) => req[q].v <= db[req[q].a]

RedisCovered ==
    \A a \in Intact :
        redis[a].left > 0 /\ redis[a].ver < db[a] => SweepAhead(a)

HoldCovered ==
    \A q \in Req \ crossed :
        Holding(q) /\ req[q].a \in Intact /\ req[q].v < db[req[q].a] =>
            SweepAhead(req[q].a)

MemCovered ==
    \A r \in Replica, a \in Intact : ServesStale(r, a) => ClearAhead(r, a)

Covered == NoFuture /\ RedisCovered /\ HoldCovered /\ MemCovered

ClearInv == TypeOK /\ SweepsTargets /\ Covered

\* A step by which tiers and requests only lose what they hold.
Forgets ==
    /\ db' = db /\ lost \subseteq lost' /\ late \subseteq late'
    /\ \A a \in Alias :
          redis'[a].left > 0 => redis[a].left > 0 /\ redis'[a].ver = redis[a].ver
    /\ \A r \in Replica, a \in Alias :
          Hit(mem'[<<r, a>>]) =>
              Hit(mem[<<r, a>>]) /\ mem'[<<r, a>>].ver = mem[<<r, a>>].ver
    /\ \A q \in Req :
          Holding(q)' =>
              /\ Holding(q) /\ req'[q].a = req[q].a /\ req'[q].v = req[q].v
              /\ q \in crossed => q \in crossed'

\* It keeps the cover if a sweep is over only once its key and the requests that
\* hold it are dealt with, and a clear only once the entry is gone.
LEMMA ForgetsKeeps ==
    ASSUME ClearInv, Forgets,
           \A a \in Intact' : SweepAhead(a) =>
              \/ SweepAhead(a)'
              \/ /\ ~(redis'[a].left > 0)
                 /\ \A q \in Req : Holding(q)' /\ req'[q].a = a => q \in crossed',
           \A r \in Replica, a \in Intact' : ClearAhead(r, a) =>
              ClearAhead(r, a)' \/ ~Hit(mem'[<<r, a>>])
    PROVE  Covered'
  <1>1. Intact' \subseteq Intact /\ Intact \subseteq Alias
    BY DEF Forgets, Intact
  <1>2. NoFuture'
    BY DEF ClearInv, Covered, NoFuture, Forgets
  <1>3. RedisCovered'
    BY <1>1 DEF ClearInv, Covered, RedisCovered, Forgets
  <1>4. HoldCovered'
    BY <1>1 DEF ClearInv, Covered, HoldCovered, Forgets
  <1>5. MemCovered'
    BY <1>1 DEF ClearInv, Covered, MemCovered, Forgets, ServesStale
  <1>6. QED
    BY <1>2, <1>3, <1>4, <1>5 DEF Covered

\* A sweep still to come is followed by a broadcast.
LEMMA SweepClears ==
    ASSUME SweepsTargets, NEW r, NEW a, SweepAhead(a)
    PROVE  ClearAhead(r, a)
  BY DEF SweepsTargets, SweepAhead, ClearAhead

\* The cover holds at first.
LEMMA ClearInit == Init => ClearInv
  <1> SUFFICES ASSUME Init PROVE ClearInv
    OBVIOUS
  <1>1. TypeOK
    BY InitIInv DEF IInv
  <1>2. SweepsTargets
    BY DEF Init, SweepsTargets
  <1>3. NoFuture /\ HoldCovered
    BY DEF Init, NoFuture, HoldCovered, Holding, Idle, NoKey
  <1>4. RedisCovered
    BY DEF Init, RedisCovered, NoKey, Intact
  <1>5. MemCovered
    BY ConstantFacts DEF Init, MemCovered, ServesStale, Hit, Blank, Key, Intact
  <1>6. QED
    BY <1>1, <1>2, <1>3, <1>4, <1>5 DEF ClearInv, Covered

\* What a request's step leaves of the edits and of what is ahead.
LEMMA RequestLeaves ==
    ASSUME NEW q \in Req, Request(q)
    PROVE  /\ UNCHANGED <<db, edits, subs, lost>> /\ late \subseteq late'
           /\ SweepsTargets => SweepsTargets'
           /\ \A a : SweepAhead(a)' <=> SweepAhead(a)
           /\ \A r, a : ClearAhead(r, a)' <=> ClearAhead(r, a)
           /\ Intact' \subseteq Intact
  <1> USE DEF tiers, edits, subs, history
  <1>1. UNCHANGED <<db, edits, subs, lost>> /\ late \subseteq late'
    BY DEF Request, Begin, RedisHit, RedisMiss, RedisDown, RedisCorrupt,
           PopulateMem, Join, Query, QueryError, StoreMem, StoreRedis, Stored
  <1>2. QED
    BY <1>1 DEF SweepsTargets, SweepAhead, ClearAhead, Intact

\* The steps of a request that take no snapshot and store none.
LEMMA RequestForgets ==
    ASSUME ClearInv, NEW q \in Req, Request(q), UNCHANGED mem,
           \A a \in Alias : redis'[a] = redis[a] \/ redis'[a] = NoKey,
           \A p \in Req :
              Holding(p)' => req'[p] = req[p] /\ (p \in crossed => p \in crossed')
    PROVE  Covered'
  <1>1. Forgets
    BY RequestLeaves DEF Forgets, NoKey, Holding
  <1>2. QED
    BY <1>1, RequestLeaves, ForgetsKeeps

\* What the requests hold after q's step, when only q obtains a snapshot v.
LEMMA RequestObtains ==
    ASSUME ClearInv, NEW q \in Req, Request(q), UNCHANGED <<mem, redis, crossed, late>>,
           NEW v \in Version, v <= db[req[q].a],
           v < db[req[q].a] /\ req[q].a \in Intact => SweepAhead(req[q].a),
           req'[q].a = req[q].a, req'[q].v = v,
           \A p \in Req \ {q} : req'[p] = req[p]
    PROVE  Covered'
  <1>1. UNCHANGED <<db, lost>> /\ Intact' = Intact
    BY RequestLeaves DEF Intact
  <1>2. \A a : SweepAhead(a)' <=> SweepAhead(a)
    BY RequestLeaves
  <1>3. NoFuture'
    BY <1>1 DEF ClearInv, Covered, NoFuture, Holding
  <1>4. RedisCovered'
    BY <1>1, <1>2 DEF ClearInv, Covered, RedisCovered
  <1>5. HoldCovered'
    BY <1>1, <1>2 DEF ClearInv, Covered, HoldCovered, Holding
  <1>6. MemCovered'
    BY <1>1, RequestLeaves DEF ClearInv, Covered, MemCovered, ServesStale
  <1>7. QED
    BY <1>3, <1>4, <1>5, <1>6 DEF Covered

\* A stored snapshot that is superseded is covered, or its alias is late.
LEMMA StoredCovered ==
    ASSUME ClearInv, NEW q \in Req, Holding(q), Stored(q), UNCHANGED <<db, lost>>,
           req[q].a \in Intact', req[q].v < db[req[q].a]
    PROVE  SweepAhead(req[q].a)
  <1>1. q \notin crossed /\ req[q].a \in Intact
    BY DEF Stored, Intact
  <1>2. QED
    BY <1>1 DEF ClearInv, Covered, HoldCovered

\* The requests after a store: q's snapshot is the one it had, if it still holds it.
LEMMA RequestStores ==
    ASSUME ClearInv, NEW q \in Req, Request(q), Holding(q), Stored(q),
           \A p \in Req :
              Holding(p)' =>
                 /\ Holding(p) /\ req'[p].a = req[p].a /\ req'[p].v = req[p].v
                 /\ p \in crossed => p \in crossed',
           UNCHANGED redis \/
             redis' = [redis EXCEPT ![req[q].a] = [ver |-> req[q].v, left |-> req[q].n]],
           \A r \in Replica, a \in Alias :
              \/ r = q[1] /\ a = req[q].a /\ mem'[<<r, a>>].ver = req[q].v
              \/ mem'[<<r, a>>] \in {Blank, mem[<<r, a>>]}
    PROVE  Covered'
  <1>1. /\ UNCHANGED <<db, lost>> /\ Intact' \subseteq Intact /\ Intact \subseteq Alias
        /\ \A a : SweepAhead(a)' <=> SweepAhead(a)
        /\ \A r, a : ClearAhead(r, a)' <=> ClearAhead(r, a)
    BY RequestLeaves DEF Intact
  <1>2. req[q].a \in Alias /\ redis \in [Alias -> Entry(0, Lifetime)]
    BY ReqFields DEF ClearInv, TypeOK
  <1>3. \A a \in Alias : 
           redis'[a] = redis[a] \/ (a = req[q].a /\ redis'[a].ver = req[q].v)
    BY <1>2
  <1>4. req[q].a \in Intact' /\ req[q].v < db[req[q].a] => SweepAhead(req[q].a)
    BY <1>1, StoredCovered
  <1>5. NoFuture'
    BY <1>1, <1>3 DEF ClearInv, Covered, NoFuture
  <1>6. RedisCovered'
    BY <1>1, <1>3, <1>4 DEF ClearInv, Covered, RedisCovered
  <1>7. HoldCovered'
    BY <1>1 DEF ClearInv, Covered, HoldCovered
  <1>8. MemCovered'
    <2> SUFFICES ASSUME NEW r \in Replica, NEW a \in Intact', ServesStale(r, a)'
                 PROVE  ClearAhead(r, a)
      BY <1>1 DEF MemCovered
    <2>1. a \in Alias /\ a \in Intact
      BY <1>1
    <2>2. CASE a = req[q].a /\ mem'[<<r, a>>].ver = req[q].v
      BY <1>1, <1>4, <2>2, SweepClears DEF ServesStale, ClearInv
    <2>3. CASE mem'[<<r, a>>] = Blank
      BY <2>3, ConstantFacts DEF ServesStale, Hit, Blank
    <2>4. CASE mem'[<<r, a>>] = mem[<<r, a>>]
      BY <1>1, <2>1, <2>4 DEF ServesStale, ClearInv, Covered, MemCovered
    <2>5. QED
      BY <2>1, <2>2, <2>3, <2>4
  <1>9. QED
    BY <1>5, <1>6, <1>7, <1>8 DEF Covered

\* A step of a request keeps the cover.
LEMMA RequestCovered ==
    ASSUME ClearInv, NEW q \in Req, Request(q)
    PROVE  Covered'
  <1> USE DEF tiers, edits, subs, history
  <1>0. TypeOK /\ req \in [Req -> ReqState] /\ redis \in [Alias -> Entry(0, Lifetime)]
    BY DEF ClearInv, TypeOK
  <1>1. /\ req[q] \in ReqState /\ req[q].a \in Alias /\ req[q].v \in Version
    BY <1>0, ReqFields
  <1>2. ASSUME NEW a \in Alias, Begin(q, a) PROVE Covered'
    <2>1. req'[q].pc = "get" /\ \A p \in Req \ {q} : req'[p] = req[p]
      BY <1>0, <1>2 DEF Begin, Idle
    <2>2. QED
      BY <1>2, <2>1, RequestForgets DEF Begin, Holding
  <1>3. ASSUME NEW s \in {"flight", "wait", "query"}, Goto(q, s), UNCHANGED <<mem, crossed>>,
               \A a \in Alias : redis'[a] = redis[a] \/ redis'[a] = NoKey
        PROVE  Covered'
    <2>1. req'[q].pc = s /\ \A p \in Req \ {q} : req'[p] = req[p]
      BY <1>0, <1>3, GotoReq DEF Stage
    <2>2. QED
      BY <1>3, <2>1, RequestForgets DEF Holding
  <1>4. CASE RedisHit(q)
    <2>1. PICK n \in CacheTTL(redis[req[q].a].ver) :
            req' = [req EXCEPT ![q] = Got(@, "memset", redis[req[q].a].ver, n)]
      BY <1>4 DEF RedisHit
    <2>2. redis[req[q].a].ver \in Version /\ redis[req[q].a].left > 0
      BY <1>0, <1>1, <1>4, ConstantFacts DEF Entry, RedisHit
    <2>3. n \in 1 .. Lifetime
      BY <2>2, CacheTTLBounds
    <2>4. n \in 0 .. Lifetime /\ "memset" \in Stage
      BY <2>3, ConstantFacts DEF Stage
    <2>5. /\ req'[q] = Got(req[q], "memset", redis[req[q].a].ver, n)
          /\ \A p \in Req \ {q} : req'[p] = req[p]
      BY <1>0, <2>1
    <2>6. req'[q].a = req[q].a /\ req'[q].v = redis[req[q].a].ver
      BY <1>1, <2>2, <2>4, <2>5, GotFields
    <2>7. /\ redis[req[q].a].ver <= db[req[q].a]
          /\ redis[req[q].a].ver < db[req[q].a] /\ req[q].a \in Intact =>
                SweepAhead(req[q].a)
      BY <1>1, <2>2 DEF ClearInv, Covered, NoFuture, RedisCovered
    <2>8. QED
      BY <1>4, <2>2, <2>5, <2>6, <2>7, RequestObtains DEF RedisHit
  <1>5. CASE Query(q)
    <2>1. PICK n \in CacheTTL(db[req[q].a]) :
            req' = [req EXCEPT ![q] = Got(@, "fill", db[req[q].a], n)]
      BY <1>5 DEF Query
    <2>2. db[req[q].a] \in Version
      BY <1>0, <1>1 DEF TypeOK
    <2>3. n \in 1 .. Lifetime
      BY <2>2, CacheTTLBounds
    <2>4. n \in 0 .. Lifetime /\ "fill" \in Stage
      BY <2>3, ConstantFacts DEF Stage
    <2>5. /\ req'[q] = Got(req[q], "fill", db[req[q].a], n)
          /\ \A p \in Req \ {q} : req'[p] = req[p]
      BY <1>0, <2>1
    <2>6. req'[q].a = req[q].a /\ req'[q].v = db[req[q].a]
      BY <1>1, <2>2, <2>4, <2>5, GotFields
    <2>7. db[req[q].a] <= db[req[q].a] /\ ~(db[req[q].a] < db[req[q].a])
      <3>1. db[req[q].a] \in Int
        BY <2>2, RedirectCacheAssumption DEF Version
      <3>2. QED
        BY <3>1
    <2>8. QED
      BY <1>5, <2>2, <2>5, <2>6, <2>7, RequestObtains DEF Query
  <1>6. ASSUME NEW Q, Finish(Q)
        PROVE  \A p \in Req : Holding(p)' =>
                  req'[p] = req[p] /\ (p \in crossed => p \in crossed')
    BY <1>6 DEF Finish, Idle, Holding
  <1>7. CASE QueryError(q)
    <2>1. \A p \in Req : Holding(p)' =>
             req'[p] = req[p] /\ (p \in crossed => p \in crossed')
      BY <1>6, <1>7 DEF QueryError
    <2>2. QED
      BY <1>7, <2>1, RequestForgets DEF QueryError
  <1>8. ASSUME StoreInMem(q)
        PROVE  \A r \in Replica, a \in Alias :
                  \/ r = q[1] /\ a = req[q].a /\ mem'[<<r, a>>].ver = req[q].v
                  \/ mem'[<<r, a>>] \in {Blank, mem[<<r, a>>]}
    BY <1>8 DEF StoreInMem, MemSet, Key
  <1>9. CASE PopulateMem(q)
    <2>1. \A p \in Req : Holding(p)' =>
             /\ Holding(p) /\ req'[p].a = req[p].a /\ req'[p].v = req[p].v
             /\ p \in crossed => p \in crossed'
      BY <1>6, <1>9 DEF PopulateMem, Holding
    <2>2. QED
      BY <1>8, <1>9, <2>1, RequestStores DEF PopulateMem, Holding
  <1>10. CASE StoreMem(q)
    <2>1. CASE Finish({q} \cup Waiters(q))
      <3>1. \A p \in Req : Holding(p)' =>
               /\ Holding(p) /\ req'[p].a = req[p].a /\ req'[p].v = req[p].v
               /\ p \in crossed => p \in crossed'
        BY <1>6, <2>1 DEF Holding
      <3>2. QED
        BY <1>8, <1>10, <3>1, RequestStores DEF StoreMem, Holding
    <2>2. CASE Goto(q, "redisset") /\ crossed' = crossed
      <3>1. /\ req'[q].a = req[q].a /\ req'[q].v = req[q].v
            /\ \A p \in Req \ {q} : req'[p] = req[p]
        BY <1>0, <2>2, GotoReq DEF Stage
      <3>2. \A p \in Req : Holding(p)' =>
               /\ Holding(p) /\ req'[p].a = req[p].a /\ req'[p].v = req[p].v
               /\ p \in crossed => p \in crossed'
        BY <1>10, <2>2, <3>1 DEF Holding, StoreMem
      <3>3. QED
        BY <1>8, <1>10, <3>2, RequestStores DEF StoreMem, Holding
    <2>3. QED
      BY <1>10, <2>1, <2>2 DEF StoreMem
  <1>11. CASE StoreRedis(q)
    <2>1. \A p \in Req : Holding(p)' =>
             req'[p] = req[p] /\ (p \in crossed => p \in crossed')
      BY <1>6, <1>11 DEF StoreRedis
    <2>2. CASE UNCHANGED <<redis, late>>
      BY <1>11, <2>1, <2>2, RequestForgets DEF StoreRedis
    <2>3. CASE redis' = [redis EXCEPT ![req[q].a] = [ver |-> req[q].v, left |-> req[q].n]]
               /\ Stored(q)
      <3>1. \A p \in Req : Holding(p)' =>
               /\ Holding(p) /\ req'[p].a = req[p].a /\ req'[p].v = req[p].v
               /\ p \in crossed => p \in crossed'
        BY <2>1 DEF Holding
      <3>2. QED
        BY <1>11, <2>3, <3>1, RequestStores DEF StoreRedis, Holding
    <2>4. QED
      BY <1>11, <2>2, <2>3 DEF StoreRedis
  <1>12. CASE RedisMiss(q)
    BY <1>3, <1>12 DEF RedisMiss
  <1>13. CASE RedisDown(q)
    BY <1>3, <1>13 DEF RedisDown
  <1>14. CASE RedisCorrupt(q)
    <2>1. \A a \in Alias : redis'[a] = redis[a] \/ redis'[a] = NoKey
      BY <1>0, <1>14 DEF RedisCorrupt
    <2>2. QED
      BY <1>3, <1>14, <2>1 DEF RedisCorrupt
  <1>15. CASE Join(q)
    BY <1>3, <1>15 DEF Join
  <1>16. QED
    BY <1>2, <1>4, <1>5, <1>7, <1>9, <1>10, <1>11, <1>12, <1>13, <1>14, <1>15 DEF Request

\* A commit announces the sweep of everything it supersedes.
LEMMA CommitCovered ==
    ASSUME ClearInv, NEW r \in Replica, NEW T \in SUBSET Alias, Commit(r, T)
    PROVE  SweepsTargets' /\ Covered'
  <1> USE DEF tiers, edits, subs, history
  <1>1. /\ UNCHANGED <<mem, redis, req, crossed, late, lost, unswept, link, inbox>>
        /\ ed \in [Replica -> {"idle", "mem", "redis"}]
        /\ targets \in [Replica -> SUBSET Alias]
        /\ ed[r] = "idle" /\ Intact' = Intact /\ Intact \subseteq Alias
    BY DEF Commit, ClearInv, TypeOK, Intact
  <1>2. /\ ed' = [ed EXCEPT ![r] = "mem"] /\ targets' = [targets EXCEPT ![r] = T]
    BY DEF Commit
  <1>3. SweepsTargets'
    BY <1>1, <1>2 DEF ClearInv, SweepsTargets
  <1>4. \A a : SweepAhead(a) => SweepAhead(a)'
    BY <1>1, <1>2 DEF SweepAhead
  <1>5. \A a \in T : SweepAhead(a)'
    BY <1>1, <1>2 DEF SweepAhead
  <1>6. \A s \in Replica, a \in Alias : ClearAhead(s, a) => ClearAhead(s, a)'
    BY <1>1, <1>2 DEF ClearAhead
  <1>7. \A s \in Replica, a \in T : ClearAhead(s, a)'
    BY <1>1, <1>2 DEF ClearAhead
  <1>8. \A a \in Alias : /\ db[a] \in Int /\ db'[a] \in Int /\ db[a] <= db'[a]
                         /\ a \notin T => db'[a] = db[a]
    <2>1. \A a \in Alias : db[a] \in Int /\ db'[a] = IF a \in T THEN db[a] + 1 ELSE db[a]
      BY RedirectCacheAssumption DEF Commit, ClearInv, TypeOK, Version
    <2>2. QED
      BY <2>1
  <1>9. \A a \in Alias : redis[a].ver \in Int
    BY ConstantFacts, RedirectCacheAssumption DEF ClearInv, TypeOK, Entry, Version
  <1>10. \A q \in Req : req[q].a \in Alias /\ req[q].v \in Int
    <2>1. \A q \in Req : req[q].a \in Alias /\ req[q].v \in Version
      BY ReqFields DEF ClearInv, TypeOK
    <2>2. QED
      BY <2>1, RedirectCacheAssumption DEF Version
  <1>11. NoFuture'
    BY <1>1, <1>8, <1>9, <1>10 DEF ClearInv, Covered, NoFuture, Holding
  <1>12. RedisCovered'
    BY <1>1, <1>4, <1>5, <1>8 DEF ClearInv, Covered, RedisCovered
  <1>13. HoldCovered'
    BY <1>1, <1>4, <1>5, <1>8, <1>10 DEF ClearInv, Covered, HoldCovered, Holding
  <1>14. MemCovered'
    BY <1>1, <1>6, <1>7, <1>8 DEF ClearInv, Covered, MemCovered, ServesStale
  <1>15. QED
    BY <1>3, <1>11, <1>12, <1>13, <1>14 DEF Covered

\* memCache.delete, deletePrefix and flush: nothing dropped is served.
LEMMA MemDropped ==
    ASSUME NEW r \in Replica, NEW A \in SUBSET Alias, MemDrop(r, A)
    PROVE  /\ \A s \in Replica, a \in Alias :
                 Hit(mem'[<<s, a>>]) => mem'[<<s, a>>] = mem[<<s, a>>]
           /\ \A a \in A : ~Hit(mem'[<<r, a>>])
  <1>1. ~Hit(Blank)
    BY ConstantFacts DEF Hit, Blank
  <1>2. QED
    BY <1>1 DEF MemDrop, Key

\* A step that drops A from r's memory and crosses the requests that hold it.
LEMMA DropForgets ==
    ASSUME NEW r \in Replica, NEW A \in SUBSET Alias, NEW R,
           MemDrop(r, A), Cross(R, A), UNCHANGED <<db, redis, req, late, lost>>
    PROVE  Forgets
  <1>1. crossed \subseteq crossed' /\ \A q \in Req : Holding(q)' <=> Holding(q)
    BY DEF Cross, Holding
  <1>2. QED
    BY <1>1, MemDropped DEF Forgets

\* A step of an edit keeps the cover.
LEMMA EditCovered ==
    ASSUME ClearInv, NEW r \in Replica, Edit(r)
    PROVE  SweepsTargets' /\ Covered'
  <1> USE DEF tiers, edits, subs, history
  <1>0. /\ ed \in [Replica -> {"idle", "mem", "redis"}] /\ SweepsTargets
        /\ targets \in [Replica -> SUBSET Alias]
        /\ unswept \in [Replica -> SUBSET Alias]
        /\ redis \in [Alias -> Entry(0, Lifetime)]
        /\ inbox \in [Replica -> Seq(SUBSET Alias)]
    BY DEF ClearInv, TypeOK
  <1>1. ASSUME NEW T \in SUBSET Alias, Commit(r, T) PROVE SweepsTargets' /\ Covered'
    BY <1>1, CommitCovered
  <1>2. CASE DropMem(r)
    <2>1. /\ ed[r] = "mem" /\ ed' = [ed EXCEPT ![r] = "redis"]
          /\ unswept' = [unswept EXCEPT ![r] = targets[r]]
          /\ UNCHANGED <<targets, link, inbox>>
      BY <1>2 DEF DropMem
    <2>2. SweepsTargets'
      BY <1>0, <2>1 DEF SweepsTargets
    <2>3. \A a : SweepAhead(a) => SweepAhead(a)'
      BY <1>0, <2>1 DEF SweepAhead
    <2>4. \A s \in Replica, a \in Alias : ClearAhead(s, a) => ClearAhead(s, a)'
      BY <1>0, <2>1 DEF ClearAhead
    <2>5. Forgets
      BY <1>0, <1>2, DropForgets DEF DropMem
    <2>6. QED
      BY <2>2, <2>3, <2>4, <2>5, ForgetsKeeps DEF Intact
  <1>3. ASSUME NEW a \in Alias, DropRedis(r, a) PROVE SweepsTargets' /\ Covered'
    <2>1. /\ ed[r] = "redis" /\ unswept' = [unswept EXCEPT ![r] = @ \ {a}]
          /\ UNCHANGED <<ed, targets, link, inbox>>
      BY <1>3 DEF DropRedis
    <2>2. SweepsTargets'
      BY <1>0, <2>1 DEF SweepsTargets
    <2>3. /\ ~(redis'[a].left > 0)
          /\ \A b \in Alias : redis'[b].left > 0 => redis'[b] = redis[b]
      BY <1>0, <1>3 DEF DropRedis, NoKey
    <2>4. \A q \in Req : Holding(q)' /\ req'[q].a = a => q \in crossed'
      BY <1>3 DEF DropRedis, Cross, Holding, Req
    <2>5. \A b \in Alias : b # a /\ SweepAhead(b) => SweepAhead(b)'
      BY <1>0, <2>1 DEF SweepAhead
    <2>6. \A s \in Replica, b \in Alias : ClearAhead(s, b) => ClearAhead(s, b)'
      BY <2>1 DEF ClearAhead
    <2>7. Forgets
      BY <1>3, <2>3 DEF DropRedis, Cross, Holding, Forgets
    <2>8. QED
      BY <2>2, <2>3, <2>4, <2>5, <2>6, <2>7, ForgetsKeeps DEF Intact
  <1>4. CASE DropRedisFails(r)
    <2>1. /\ ed[r] = "redis" /\ unswept' = [unswept EXCEPT ![r] = {}]
          /\ lost' = lost \cup unswept[r]
          /\ UNCHANGED <<ed, targets, link, inbox>>
      BY <1>4 DEF DropRedisFails
    <2>2. SweepsTargets'
      BY <1>0, <2>1 DEF SweepsTargets
    <2>3. \A a \in Intact' : SweepAhead(a) => SweepAhead(a)'
      BY <1>0, <2>1 DEF SweepAhead, Intact
    <2>4. \A s \in Replica, a \in Alias : ClearAhead(s, a) => ClearAhead(s, a)'
      BY <2>1 DEF ClearAhead
    <2>5. Forgets
      BY <1>4 DEF DropRedisFails, Holding, Forgets
    <2>6. QED
      BY <2>2, <2>3, <2>4, <2>5, ForgetsKeeps DEF Intact
  <1>5. ASSUME EditDone(r), lost \subseteq lost'
        PROVE  SweepsTargets' /\ Forgets /\ \A a \in Alias : SweepAhead(a) => SweepAhead(a)'
    <2>1. /\ ed[r] = "redis" /\ unswept[r] = {} /\ unswept' = unswept
          /\ ed' = [ed EXCEPT ![r] = "idle"] /\ targets' = [targets EXCEPT ![r] = {}]
      BY <1>5 DEF EditDone
    <2>2. SweepsTargets'
      BY <1>0, <2>1 DEF SweepsTargets
    <2>3. \A a \in Alias : SweepAhead(a) => SweepAhead(a)'
      BY <1>0, <2>1 DEF SweepAhead
    <2>4. Forgets
      BY <1>5 DEF EditDone, Holding, Forgets
    <2>5. QED
      BY <2>2, <2>3, <2>4
  <1>6. CASE Publish(r)
    <2>1. SweepsTargets' /\ Forgets /\ \A a \in Alias : SweepAhead(a) => SweepAhead(a)'
      BY <1>5, <1>6 DEF Publish
    <2>2. ASSUME NEW s \in Replica, NEW a \in Alias, ClearAhead(s, a) PROVE ClearAhead(s, a)'
      <3>1. CASE link[s] # "open"
        BY <1>6, <3>1 DEF Publish, EditDone, ClearAhead
      <3>2. ASSUME link[s] = "open", NEW t \in Replica, ed[t] # "idle", a \in targets[t]
            PROVE  ClearAhead(s, a)'
        <4>1. CASE t # r
          BY <1>0, <1>6, <3>2, <4>1 DEF Publish, EditDone, ClearAhead
        <4>2. CASE t = r
          <5>1. inbox'[s] = Append(inbox[s], targets[r])
            BY <1>6, <3>2 DEF Publish, Listening
          <5>2. /\ Len(inbox[s]) + 1 \in DOMAIN inbox'[s]
                /\ inbox'[s][Len(inbox[s]) + 1] = targets[r]
            BY <1>0, <5>1
          <5>3. QED
            BY <3>2, <4>2, <5>2 DEF ClearAhead
        <4>3. QED
          BY <4>1, <4>2
      <3>3. ASSUME NEW i \in DOMAIN inbox[s], a \in inbox[s][i] PROVE ClearAhead(s, a)'
        <4>1. inbox'[s] = inbox[s] \/ inbox'[s] = Append(inbox[s], targets[r])
          BY <1>6 DEF Publish
        <4>2. inbox[s] \in Seq(SUBSET Alias) /\ i \in 1 .. Len(inbox[s])
          BY <1>0
        <4>3. i \in DOMAIN inbox'[s] /\ inbox'[s][i] = inbox[s][i]
          BY <4>1, <4>2
        <4>4. QED
          BY <3>3, <4>3 DEF ClearAhead
      <3>4. QED
        BY <2>2, <3>1, <3>2, <3>3 DEF ClearAhead
    <2>3. QED
      BY <2>1, <2>2, ForgetsKeeps DEF Intact
  <1>7. CASE PublishLost(r)
    <2>1. SweepsTargets' /\ Forgets /\ \A a \in Alias : SweepAhead(a) => SweepAhead(a)'
      BY <1>5, <1>7 DEF PublishLost
    <2>2. \A s \in Replica, a \in Intact' : ClearAhead(s, a) => ClearAhead(s, a)'
      BY <1>0, <1>7 DEF PublishLost, EditDone, ClearAhead, Intact
    <2>3. QED
      BY <2>1, <2>2, ForgetsKeeps DEF Intact
  <1>8. QED
    BY <1>1, <1>2, <1>3, <1>4, <1>6, <1>7 DEF Edit

\* A step of the subscriber keeps the cover.
LEMMA ListenCovered ==
    ASSUME ClearInv, NEW r \in Replica, Listen(r)
    PROVE  SweepsTargets' /\ Covered'
  <1> USE DEF tiers, edits, subs, history
  <1>0. /\ SweepsTargets /\ inbox \in [Replica -> Seq(SUBSET Alias)]
        /\ link \in [Replica -> {"open", "cut", "closed", "probing"}]
    BY DEF ClearInv, TypeOK
  <1>1. UNCHANGED <<db, redis, req, ed, targets, unswept, late, lost>>
    BY DEF Listen, Apply, Cut, Distrust, Subscribe, ProbeAnswered
  <1>2. SweepsTargets' /\ \A a : SweepAhead(a) => SweepAhead(a)'
    BY <1>0, <1>1 DEF SweepsTargets, SweepAhead
  <1> SUFFICES Covered'
    BY <1>2
  <1>3. CASE Apply(r)
    <2>1. Head(inbox[r]) \in SUBSET Alias
      BY <1>0, <1>3 DEF Apply
    <2>2. Forgets
      BY <1>1, <1>3, <2>1, DropForgets DEF Apply
    <2>3. \A a \in Head(inbox[r]) : ~Hit(mem'[<<r, a>>])
      BY <1>3, <2>1, MemDropped DEF Apply
    <2>4. ASSUME NEW s \in Replica, NEW a \in Alias, ClearAhead(s, a)
          PROVE  ClearAhead(s, a)' \/ ~Hit(mem'[<<s, a>>])
      <3>1. CASE \/ link[s] # "open" \/ s # r
                 \/ \E t \in Replica : ed[t] # "idle" /\ a \in targets[t]
        BY <1>0, <1>1, <1>3, <2>4, <3>1 DEF Apply, ClearAhead
      <3>2. ASSUME s = r, NEW i \in DOMAIN inbox[r], a \in inbox[r][i]
            PROVE  ClearAhead(r, a)' \/ ~Hit(mem'[<<r, a>>])
        <4>1. CASE i = 1
          BY <2>3, <3>2, <4>1
        <4>2. CASE i # 1
          <5>1. inbox'[r] = Tail(inbox[r]) /\ inbox[r] \in Seq(SUBSET Alias)
            BY <1>0, <1>3 DEF Apply
          <5>2. i - 1 \in DOMAIN inbox'[r] /\ inbox'[r][i - 1] = inbox[r][i]
            BY <4>2, <5>1
          <5>3. QED
            BY <3>2, <5>2 DEF ClearAhead
        <4>3. QED
          BY <4>1, <4>2
      <3>3. QED
        BY <2>4, <3>1, <3>2 DEF ClearAhead
    <2>5. QED
      BY <1>2, <2>2, <2>4, ForgetsKeeps DEF Intact
  <1>4. CASE Cut(r)
    <2>1. Forgets
      BY <1>4 DEF Cut, Holding, Forgets
    <2>2. link'[r] # "open"
      BY <1>0, <1>4 DEF Cut
    <2>3. \A s \in Replica, a \in Alias : ClearAhead(s, a) => ClearAhead(s, a)'
      BY <1>0, <1>1, <1>4, <2>2 DEF Cut, ClearAhead
    <2>4. QED
      BY <1>2, <2>1, <2>3, ForgetsKeeps DEF Intact
  <1>5. CASE Distrust(r) \/ ProbeAnswered(r)
    <2>1. MemDrop(r, Alias) /\ Cross({r}, Alias)
      BY <1>5 DEF Distrust, ProbeAnswered, Flush
    <2>2. Forgets
      BY <1>1, <2>1, DropForgets
    <2>3. \A a \in Alias : ~Hit(mem'[<<r, a>>])
      BY <2>1, MemDropped
    <2>4. \A s \in Replica, a \in Alias : s # r /\ ClearAhead(s, a) => ClearAhead(s, a)'
      BY <1>0, <1>1, <1>5 DEF Distrust, ProbeAnswered, ClearAhead
    <2>5. QED
      BY <1>2, <2>2, <2>3, <2>4, ForgetsKeeps DEF Intact
  <1>6. CASE Subscribe(r)
    <2>1. Forgets
      BY <1>6 DEF Subscribe, Holding, Forgets
    <2>2. \A s \in Replica, a \in Alias : ClearAhead(s, a) => ClearAhead(s, a)'
      BY <1>0, <1>1, <1>6 DEF Subscribe, ClearAhead
    <2>3. QED
      BY <1>2, <2>1, <2>2, ForgetsKeeps DEF Intact
  <1>7. QED
    BY <1>3, <1>4, <1>5, <1>6 DEF Listen

\* What a crash cuts short is lost.
LEMMA CrashCovered ==
    ASSUME ClearInv, NEW r \in Replica, Crash(r)
    PROVE  SweepsTargets' /\ Covered'
  <1>0. /\ SweepsTargets /\ ed \in [Replica -> {"idle", "mem", "redis"}]
        /\ targets \in [Replica -> SUBSET Alias]
        /\ unswept \in [Replica -> SUBSET Alias]
        /\ link \in [Replica -> {"open", "cut", "closed", "probing"}]
    BY DEF ClearInv, TypeOK
  <1>1. /\ ed' = [ed EXCEPT ![r] = "idle"] /\ targets' = [targets EXCEPT ![r] = {}]
        /\ unswept' = [unswept EXCEPT ![r] = {}]
        /\ link' = [link EXCEPT ![r] = "closed"] /\ inbox' = [inbox EXCEPT ![r] = <<>>]
        /\ lost' = lost \cup targets[r]
    BY DEF Crash
  <1>2. SweepsTargets'
    BY <1>0, <1>1 DEF SweepsTargets
  <1>3. \A a \in Intact' : SweepAhead(a) => SweepAhead(a)'
    BY <1>0, <1>1 DEF SweepsTargets, SweepAhead, Intact
  <1>4. \A s \in Replica, a \in Intact' : ClearAhead(s, a) => ClearAhead(s, a)'
    BY <1>0, <1>1 DEF ClearInv, TypeOK, ClearAhead, Intact
  <1>5. \A s \in Replica, a \in Alias : Hit(mem'[<<s, a>>]) => mem'[<<s, a>>] = mem[<<s, a>>]
    <2>1. ~Hit(Blank)
      BY ConstantFacts DEF Hit, Blank
    <2>2. QED
      BY <2>1 DEF Crash, Key
  <1>6. \A q \in Req : Holding(q)' => req'[q] = req[q] /\ (q \in crossed => q \in crossed')
    BY DEF Crash, Finish, Idle, Holding
  <1>7. Forgets
    BY <1>5, <1>6 DEF Crash, Forgets, Holding
  <1>8. QED
    BY <1>2, <1>3, <1>4, <1>7, ForgetsKeeps

\* Time only makes the tiers forget.
LEMMA TickForgets ==
    ASSUME TypeOK, Tick
    PROVE  Forgets
  <1>1. ASSUME NEW a \in Alias, redis'[a].left > 0
        PROVE  redis[a].left > 0 /\ redis'[a].ver = redis[a].ver
    <2>1. redis[a] \in Entry(0, Lifetime)
      BY DEF TypeOK
    <2>2. redis[a].left > 1 /\ redis'[a] = [redis[a] EXCEPT !.left = @ - 1]
      BY <1>1 DEF Tick, NoKey
    <2>3. redis[a].left \in Int
      BY <2>1, ConstantFacts DEF Entry
    <2>4. QED
      BY <2>1, <2>2, <2>3 DEF Entry
  <1>2. ASSUME NEW r \in Replica, NEW a \in Alias, Hit(mem'[<<r, a>>])
        PROVE  Hit(mem[<<r, a>>]) /\ mem'[<<r, a>>].ver = mem[<<r, a>>].ver
    <2> DEFINE e == mem[<<r, a>>]
    <2>1. e \in Entry(-(D + 1), Lifetime) /\ <<r, a>> \in Key
      BY DEF TypeOK, Key
    <2>2. mem'[<<r, a>>] = [e EXCEPT !.left = Down(@, -(D + 1))]
      BY <2>1 DEF Tick
    <2>3. mem'[<<r, a>>].ver = e.ver /\ mem'[<<r, a>>].left = Down(e.left, -(D + 1))
      BY <2>1, <2>2 DEF Entry
    <2>4. e.left \in Int
      BY <2>1, ConstantFacts DEF Entry
    <2>5. Down(e.left, -(D + 1)) >= 0 => e.left >= 0
      BY <2>4, ConstantFacts DEF Down
    <2>6. QED
      BY <1>2, <2>3, <2>5 DEF Hit
  <1>3. ASSUME NEW q \in Req, Holding(q)'
        PROVE  Holding(q) /\ req'[q].a = req[q].a /\ req'[q].v = req[q].v
    <2>1. req[q].pc # "idle"
      BY <1>3 DEF Tick, Holding
    <2>2. req[q] \in ReqState /\ req[q].g < D /\ req'[q] = Older(req[q])
      BY <2>1 DEF Tick, TypeOK
    <2>3. QED
      BY <1>3, <2>2, OlderFields DEF Holding
  <1>4. QED
    BY <1>1, <1>2, <1>3 DEF Tick, Forgets, history

\* Every step keeps the cover.
LEMMA ClearStep == ClearInv /\ [Next]_vars => ClearInv'
  <1> SUFFICES ASSUME ClearInv, [Next]_vars PROVE ClearInv'
    OBVIOUS
  <1> SUFFICES SweepsTargets' /\ Covered'
    BY TypeStep DEF ClearInv
  <1> USE DEF tiers, edits, subs, history
  <1>1. ASSUME Forgets, UNCHANGED <<edits, subs, late, lost>>
        PROVE  SweepsTargets' /\ Covered'
    <2>1. SweepsTargets'
      BY <1>1 DEF ClearInv, SweepsTargets
    <2>2. \A a : SweepAhead(a) => SweepAhead(a)'
      BY <1>1 DEF SweepAhead
    <2>3. \A r, a : ClearAhead(r, a) => ClearAhead(r, a)'
      BY <1>1 DEF ClearAhead
    <2>4. QED
      BY <1>1, <2>1, <2>2, <2>3, ForgetsKeeps
  <1>2. CASE UNCHANGED vars
    BY <1>1, <1>2 DEF vars, Forgets, Holding
  <1>3. ASSUME NEW q \in Req, Request(q) PROVE SweepsTargets' /\ Covered'
    BY <1>3, RequestLeaves, RequestCovered DEF ClearInv
  <1>4. ASSUME NEW r \in Replica, Edit(r) \/ Listen(r) \/ Crash(r)
        PROVE  SweepsTargets' /\ Covered'
    BY <1>4, EditCovered, ListenCovered, CrashCovered
  <1>5. CASE Tick
    BY <1>1, <1>5, TickForgets DEF ClearInv, Tick
  <1>6. QED
    BY <1>2, <1>3, <1>4, <1>5 DEF Next

-----------------------------------------------------------------------------
(* The in-process tier stays within its size.                                *)

\* The aliases in replica r's shard.
Shard(r) == {a \in Alias : <<r, a>> \in held}

Fits(S) == IsFiniteSet(S) /\ Cardinality(S) <= PerShard

ShardsFit == \A r \in Replica : Fits(Shard(r))

\* What is part of something that fits, fits.
LEMMA FitsSubset ==
    ASSUME NEW S, NEW T \in SUBSET S, Fits(S)
    PROVE  Fits(T) /\ Cardinality(T) \in Nat
  <1>1. /\ IsFiniteSet(T) /\ Cardinality(T) \in Nat /\ Cardinality(S) \in Nat
        /\ Cardinality(T) <= Cardinality(S)
    BY FS_Subset, FS_CardinalityType DEF Fits
  <1>2. QED
    BY <1>1, RedirectCacheAssumption DEF Fits

\* A set makes room for one entry before it adds it.
LEMMA KeptLeavesRoom ==
    ASSUME NEW r \in Replica, NEW g, Fits(Shard(r))
    PROVE  /\ Kept(r, g) \subseteq Shard(r) /\ IsFiniteSet(Kept(r, g))
           /\ Cardinality(Kept(r, g)) \in Nat /\ Cardinality(Kept(r, g)) < PerShard
  <1>1. Kept(r, g) \subseteq Shard(r)
    BY DEF Kept, Shard
  <1>2. IsFiniteSet(Kept(r, g)) /\ Cardinality(Kept(r, g)) \in Nat
    BY <1>1, FitsSubset DEF Fits
  <1>3. Cardinality({}) = 0
    BY FS_EmptySet
  <1>4. Cardinality(Kept(r, g)) < PerShard
    BY <1>3, RedirectCacheAssumption DEF Kept
  <1>5. QED
    BY <1>1, <1>2, <1>4

\* Storing in memory keeps every shard within its size.
LEMMA StoreFits ==
    ASSUME TypeOK, ShardsFit, NEW q \in Req, StoreInMem(q)
    PROVE  ShardsFit'
  <1> SUFFICES ASSUME NEW r \in Replica PROVE Fits(Shard(r))'
    BY DEF ShardsFit
  <1>1. q[1] \in Replica /\ req[q].a \in Alias
    BY ReqFields DEF TypeOK, Req
  <1> DEFINE kept == Kept(q[1], req[q].g)
  <1>2. held' = (held \ ({q[1]} \X Alias)) \cup ({q[1]} \X (kept \cup {req[q].a}))
    BY DEF StoreInMem, MemSet
  <1>3. /\ kept \subseteq Alias /\ IsFiniteSet(kept)
        /\ Cardinality(kept) \in Nat /\ Cardinality(kept) < PerShard
    BY <1>1, KeptLeavesRoom DEF ShardsFit, Shard
  <1>4. CASE r = q[1]
    <2>1. Shard(r)' = kept \cup {req[q].a}
      BY <1>1, <1>2, <1>3, <1>4 DEF Shard
    <2>2. /\ IsFiniteSet(kept \cup {req[q].a})
          /\ Cardinality(kept \cup {req[q].a}) \in {Cardinality(kept), Cardinality(kept) + 1}
      BY <1>3, FS_AddElement
    <2>3. Cardinality(kept \cup {req[q].a}) <= PerShard
      BY <1>3, <2>2, RedirectCacheAssumption
    <2>4. QED
      BY <2>1, <2>2, <2>3 DEF Fits
  <1>5. CASE r # q[1]
    <2>1. Shard(r)' = Shard(r)
      BY <1>2, <1>5 DEF Shard
    <2>2. QED
      BY <2>1 DEF ShardsFit, Fits
  <1>6. QED
    BY <1>4, <1>5

\* Every step does.
LEMMA ShardsStep == TypeOK /\ ShardsFit /\ [Next]_vars => ShardsFit'
  <1> SUFFICES ASSUME TypeOK, ShardsFit, [Next]_vars PROVE ShardsFit'
    OBVIOUS
  <1> USE DEF tiers, edits, subs, history
  <1>1. ASSUME held' \subseteq held PROVE ShardsFit'
    <2>1. \A r \in Replica : Shard(r)' \subseteq Shard(r)
      BY <1>1 DEF Shard
    <2>2. QED
      BY <2>1, FitsSubset DEF ShardsFit, Fits
  <1>2. CASE UNCHANGED vars
    BY <1>1, <1>2 DEF vars
  <1>3. ASSUME NEW q \in Req, Request(q) PROVE ShardsFit'
    <2>1. CASE StoreInMem(q)
      BY <2>1, StoreFits
    <2>2. CASE UNCHANGED held
      BY <1>1, <2>2
    <2>3. QED
      BY <1>3, <2>1, <2>2 DEF Request, Begin, RedisHit, RedisMiss, RedisDown,
         RedisCorrupt, PopulateMem, Join, Query, QueryError, StoreMem, StoreRedis
  <1>4. ASSUME NEW r \in Replica, Edit(r) PROVE ShardsFit'
    BY <1>1, <1>4 DEF Edit, Commit, DropMem, MemDrop, DropRedis, DropRedisFails,
       Publish, PublishLost, EditDone
  <1>5. ASSUME NEW r \in Replica, Listen(r) \/ Crash(r) PROVE ShardsFit'
    BY <1>1, <1>5 DEF Listen, Apply, Cut, Distrust, Subscribe, ProbeAnswered, Flush,
       MemDrop, Crash
  <1>6. CASE Tick
    BY <1>1, <1>6 DEF Tick
  <1>7. QED
    BY <1>2, <1>3, <1>4, <1>5, <1>6 DEF Next

\* The types of the redirect cache's state (resolver.go, memcache.go): no entry
\* outlives the longest lifetime, no request its timeouts.
THEOREM TypeCorrect == Spec => []TypeOK
  <1>1. Init => TypeOK
    BY InitIInv DEF IInv
  <1>2. QED
    BY <1>1, TypeStep, PTL DEF Spec

\* No replica serves a superseded snapshot from memory for longer than two
\* lifetimes and one request, whatever is lost, delayed or crashes: the bound
\* that Resolver.fromRedis's fresh lifetime really gives.
THEOREM StalenessIsBounded == Spec => []StalenessBounded
  <1>1. IInv => StalenessBounded
    <2> SUFFICES ASSUME IInv, NEW r \in Replica, NEW a \in Alias, ServesStale(r, a)
                 PROVE  stale[a][mem[<<r, a>>].ver] <= Bound
      BY DEF StalenessBounded
    <2>1. mem[<<r, a>>].left + stale[a][mem[<<r, a>>].ver] <= Bound
      BY DEF ServesStale, IInv, Budgets, MemBudget, Superseded
    <2>2. mem[<<r, a>>] \in Entry(-(D + 1), Lifetime)
      BY DEF IInv, TypeOK, Key
    <2>3. mem[<<r, a>>].ver \in Version /\ mem[<<r, a>>].left \in Int
      BY <2>2, ConstantFacts DEF Entry
    <2>4. stale[a][mem[<<r, a>>].ver] \in 0 .. Bound + 1
      BY <2>3, StaleType DEF IInv
    <2>5. mem[<<r, a>>].left >= 0
      BY DEF ServesStale, Hit
    <2>6. QED
      BY <2>1, <2>3, <2>4, <2>5, ConstantFacts
  <1>2. QED
    BY <1>1, InitIInv, IInvStep, PTL DEF Spec

\* The invalidation protocol is complete (Resolver.InvalidateAlias and
\* InvalidateDomain, invalidation.go), for any number of replicas, aliases,
\* requests and edits: once everything has settled, no tier holds a superseded
\* snapshot of an alias no deletion or message was lost for, unless a request
\* that had read it before a deletion stored it after.
THEOREM ClearsAreComplete == Spec => []ClearsComplete
  <1>1. ClearInv => ClearsComplete
    <2> SUFFICES ASSUME ClearInv, Settled, NEW a \in Alias \ (lost \cup late)
                 PROVE  /\ redis[a].left > 0 => redis[a].ver = db[a]
                        /\ \A r \in Replica : ~ServesStale(r, a)
      BY DEF ClearsComplete
    <2>1. a \in Intact /\ ~SweepAhead(a) /\ \A r \in Replica : ~ClearAhead(r, a)
      BY DEF Settled, Intact, SweepAhead, ClearAhead
    <2>2. redis[a].left > 0 => redis[a].ver = db[a]
      <3>1. redis[a].left > 0 => redis[a].ver <= db[a] /\ ~(redis[a].ver < db[a])
        BY <2>1 DEF ClearInv, Covered, NoFuture, RedisCovered
      <3>2. redis[a].ver \in Version /\ db[a] \in Version
        BY ConstantFacts DEF ClearInv, TypeOK, Entry
      <3>3. redis[a].ver \in Int /\ db[a] \in Int
        BY <3>2, RedirectCacheAssumption DEF Version
      <3>4. QED
        BY <3>1, <3>3
    <2>3. \A r \in Replica : ~ServesStale(r, a)
      BY <2>1 DEF ClearInv, Covered, MemCovered
    <2>4. QED
      BY <2>2, <2>3
  <1>2. QED
    BY <1>1, ClearInit, ClearStep, PTL DEF Spec

\* The in-process tier never outgrows its size (memCache.set): a full shard is
\* reaped, then emptied, before an entry is added.
THEOREM MemIsBounded == Spec => []MemBounded
  <1>1. Init => TypeOK /\ ShardsFit
    <2> SUFFICES ASSUME Init PROVE ShardsFit
      BY InitIInv DEF IInv
    <2>1. \A r \in Replica : Shard(r) = {}
      BY DEF Init, Shard
    <2>2. QED
      BY <2>1, FS_EmptySet, RedirectCacheAssumption DEF ShardsFit, Fits
  <1>2. ShardsFit => MemBounded
    BY DEF ShardsFit, Fits, Shard, MemBounded
  <1>3. QED
    BY <1>1, <1>2, TypeStep, ShardsStep, PTL DEF Spec
=============================================================================
