# LinkCtrl: a TLA+ model of the redirect service and its background machinery

LinkCtrl is a self-hosted link shortener: one or more Go processes ("replicas")
that share a Postgres database and a Redis server. A replica answers redirects
from caches, serves an API and web pages, and runs a scheduler whose job families
elect a leader with a Postgres advisory lock. This directory models the parts
where concurrency, failure and time make the code hard to test: TLA+ modules, the
TLC configurations that check them on small instances, and TLAPS proofs for every
instance. `PROJECT.json` lists the components, runs, hazards and theorems and maps
every definition to the lines it stands for.

## The system's parts

| Part | State it keeps | Operations | What is hard | What makes it correct | Module |
|---|---|---|---|---|---|
| Redirect cache (`internal/redirect/resolver.go`, `memcache.go`) | in-process shards, Redis keys, an unavailability window | Resolve, InvalidateAlias, InvalidateDomain | a fill crossing a deletion; Redis down; lifetimes that add up | staleness is bounded; an invalidation that reached everyone leaves nothing behind | `RedirectCache` |
| Invalidation bus (`invalidation.go`) | a subscription per replica | publish, apply, establish, probe, flush | messages lost while disconnected | a reconnected replica trusts nothing it held | in both cache modules |
| Verified-hostname cache (`hosts.go`) | the set, `ready`, `pending`, `running` | Refresh, Reload, the worker | arming against the worker's exit; two Reloads | no arming is lost; every replica converges | `HostCache` |
| Webhook queue (`internal/webhook`) | delivery rows with status, attempts, next attempt | Emit, Drain, the three marks, purge | two drains after a lost lock; a mark after the lease | no double dial within a lease; counted attempts; every row settles; an at-least-once queue | `Outbox`, which implements `DeliveryQueue` |
| Automation (`internal/automation`) | a rule and its watermark | create, patch, delete, Evaluate | five statements that interleave with everything | nothing claimed twice, nothing skipped, no backlog | `Automation`, which implements `RuleCursor` |
| Custom domains (`internal/link/verification.go`, `domains.go`) | rows with hostname, token, verified and failing times | register, rename, delete, check, pass | a rename during a lookup; the grace window; queues that starve | only proved names are served; the window is whole; a lapsed name stops | `DomainVerification` |
| Scheduler (`cmd/linkctrl/jobs.go`) | advisory locks, a goroutine per family | start, stop, withLeadership | a session that dies while its job runs | work survives two leaders | the leader steps of the three modules above |
| Mail queue (`internal/mail`) | outbox rows | Queue, Drain, purge | as webhooks, with parallel sends in a batch | as webhooks | planned |
| Click ingestion (`internal/analytics/ingest.go`) | a bounded channel, a batch, click rows and counts | Record, flush, Close | shutdown against senders; a batch that fails half way | what was accepted is flushed; counted once, with its row | `Ingest` |
| Roll-ups, salts (`internal/analytics`) | daily aggregates, a salt a day | roll up, rotate | late clicks; two replicas choose a salt | counted once; one salt | planned |
| Gates and counters (`internal/gate`) | click budget, rotation position | Consume, Rotate | a cached limit against a durable count | never over a budget | planned |
| Links (`internal/link/service.go`) | link rows | create, update, archive, delete, restore | commit, then invalidate | the cache learns of every change | order modelled in `RedirectCache`; lifecycle planned |
| Folders (`internal/link/folder.go`) | a tree | create, move, delete | two legal moves that make a cycle | stays a tree within its depth; each change as if alone; creates and moves do not deadlock | `Folders`, which implements `FolderTree` |
| Routing rules, splits (`internal/domain/routing.go`, `internal/link/split.go`) | none (pure) | evaluate | ranges, weights | agrees with a declarative reference | planned |
| Two-factor sign-in (`internal/auth/mfa.go`) | secret, last step, recovery codes, pending sign-ins | enrol, sign in, regenerate, disable, purge | simultaneous use of a single-use thing; locks taken in two orders | one session a prompt; a factor is accepted once and only in force; a sign-in is one step | `SecondFactor`, which implements `SignIn` |
| Sessions, API keys (`internal/auth`) | sessions, failures, keys | login, rotate, revoke | lockout and revocation under concurrent requests | revocation is final | planned |
| Teams, account deletion, invitations (`internal/team`, `internal/account`) | memberships, accounts and their row locks | change role, remove, delete, redeem | two owners who remove one another; a count that goes stale | an organization keeps an owner; deletions do not deadlock | `Ownership` |
| Sign-up, recovery, disputes, erasure | tokens, decisions | verify, reset, decide, erase | token races | a token is spent once | planned |
| Rate limiting (`internal/ratelimit`) | shared and local buckets, a breaker | allow, probe | fallback and recovery | one probe at a time | planned |
| Add-ons (`internal/addon`) | the loaded set, invocation counts, an instance pool, settings | install, remove, invoke, save, sweep | removal against invocations; a pool that outlives its settings | no call into a closed module; a pooled instance is current | `Addons` |
| Update check (`internal/update`) | one row | claim, ask, record | two replicas | once a day | planned |
| Campaigns, QR, aliases, instance settings, notifications, audit, feeds | rows | sequential edits | little | - | not planned |
| HTTP, UI, configuration, store, platform, CLI | none or generated | - | I/O | - | not planned |

How they interact: every write commits to Postgres first; link and domain writes
then clear the local caches, delete Redis keys and publish an invalidation, which
each replica's subscriber, the publisher's own included, applies to its memory
tier or its host set. Link events are queued for webhooks. The scheduler's
families (webhooks, mail, automation, domain verification, roll-ups) take an
advisory lock on one connection and work on others, so a lock can be lost while
the work goes on: each module lets two leaders overlap. Memberships, folders and
second factors are guarded by row locks inside READ COMMITTED transactions, so the
modules of these parts model the locking statements row by row: what the snapshot
showed, what was waited for, and what had changed by then.

## HostCache

The verified set is its version, the number of changes it includes. `Refresh` arms
`pending` and starts the worker; the worker checks and retires under the mutex
(`WorkerExit`), takes the arming (`WorkerTake`), reads Postgres (`WorkerLoad`) and
installs (`WorkerInstall`), or fails, re-arms and retires (`WorkerFail`). `Inline*`
is the boot and then the hourly Reload, which the worker's mutual exclusion does not
cover. `Change`, `RefreshLocal`, `Publish`, `PublishLost` are an operator's change;
`Cut` to `ProbeFailed` the subscriber; `Crash` a new process.

- `NoStrandedArming`: `pending` is never set with no worker to serve it, except
  after a load that failed.
- `BroadcastObserved`: a settled, connected replica has completed a load that
  includes every broadcast change. The history variable `seen` records the newest
  set ever installed: an inline Reload that read earlier may install an older set
  afterwards, so "serves" would be too strong until the next reload.
- `BackstopConverges` (liveness): once changes stop, every replica serves what
  Postgres holds, whatever broadcasts were lost.

Run `host_cache`: two replicas, one change, one fault of any kind. One change is
enough for the loads in flight to disagree, one fault for each recovery path; the
proofs cover more of both. Fairness: a runnable goroutine runs and the hourly ticker
ticks; nothing is assumed of pub/sub, publishes or operators.

## RedirectCache

A snapshot is its version; `Absent` versions are negative answers and `Expiring`
ones have their lifetime clamped. A request is a goroutine that misses memory, asks
Redis (hit, miss, error, corrupt payload), joins or leads the single-flight, queries,
stores in memory and then in Redis. An edit commits, drops memory, drops Redis key
by key (each may fail), and publishes; a subscriber applies, and flushes around every
reconnection. Time is relative, so the state space is finite without a horizon.

- `StalenessBounded`: nothing superseded is served from memory after
  `Bound = 2 * Lifetime + D`, where `D` is the age a request may reach.
- `ClearsComplete`: once everything has settled, no tier holds a superseded
  snapshot, unless a deletion or a message was lost or a request stored across a
  deletion what it had read before it.
- `MemBounded`: a shard never outgrows its size.

Runs: `redirect_cache` (one replica, two concurrent requests, a lifetime of two
ticks, requests one tick old, an edit that removes the link, an expiring version);
`redirect_clears` (module `MCRedirectShapes`, whose behaviours are of two shapes, chosen
at the start: two busy replicas of one alias, with a second alias left unused, for broadcasts
and the shared tier; and a busy replica, one that only listens and two aliases in a shard of
one entry, so that eviction happens and an invalidation names a set). Concurrent
requests, replicas and aliases are multiplied separately because together they are
out of reach; all three properties are proved for any number of each. `redirect_stale`
shows that
`docs/operations.md` ("nothing is served incorrectly for longer than `REDIRECT_TTL`")
is exceeded: `fromRedis` gives the memory copy a whole lifetime, not what the key has
left.

## Outbox

A delivery row is (event, webhook). `Emit` queues rows; `Lead` takes the lock; `Claim`
leases a batch, counting the attempt; the receiver takes or refuses it; a mark records
the outcome against whatever the row is by then; `Crash`, `LockLost`, `MarkLost` and
`ClaimFails` are the faults. `due` is relative to now; how long a row has been due is
remembered up to `MaxOverdue`, which only orders the batch.

- `LeaseExcludes`, `AttemptsAreDistinct`, `OutcomesAreEarned`,
  `FinishedIsNotSentAgain` and, as liveness, `EveryDeliverySettles`.
- `ImplementsQueue`: the abstract queue of `DeliveryQueue` (an attempt is spent only on a
  pending delivery, a delivery is recorded only when a receiver took it, abandoned only
  when its budget is spent, and never attempted once settled) is implemented under the
  mapping that forgets replicas, leases, due times and marks. It is what
  `docs/operations.md` calls "at-least-once, not exactly-once". An attempt that the
  process dies in, or whose mark fails, stutters or spends an attempt; it never loses
  the row.

Run `outbox`: two replicas, one row, two attempts, backoff 2 then 3, four faults
(enough to lose the lock, crash and fail marks around both attempts). Fairness: every
family keeps ticking on some replica, dials and statements end by their deadlines,
time passes. Attempts have no upper bound in the code: a process that dies between
claim and mark leaves the row pending, and the count is compared after the dial; the
model lets it pass `MaxAttempts` once per fault.

## Automation

One rule, as rules share nothing that one of them writes. An occurrence is (instant,
subject id) and the watermark a position in that order, `Top` standing for NULL. A pass
reads the clock (`Lead`), the rule (`ListDue`), the matches (`Match`), moves the
watermark by compare-and-set (`Claim`) and acts (`Act`). Writers and PATCHes take their
clock before they commit. The threshold is a column of the rule: a pass uses the one
it listed.

- `AtMostOnce`: no occurrence is claimed twice, unless a PATCH that read the clock
  before a firing re-arms the rule after it (`regressed`).
- `NoneSkipped`: an occurrence committed before its instant and after the arming is
  claimed before the watermark passes it.
- `BacklogIsDropped`: a claim covers only what lies after the last arming.
- `ImplementsCursor`: the abstract rule of `RuleCursor` is a cursor over the occurrences that
  fires in one step: it takes everything committed in time from where it stands to where it
  stops, and only a firing or switching the rule on moves it. `Automation` implements it with
  the same variables: the claim is the firing, a PATCH that re-arms is the switch, and
  listing, matching, losing a claim, crashes and lost locks stutter. It says more than the
  three before: a claim also has to stop at a member of its batch, and no pass, edit or
  failure may move the watermark by itself.
- `EventuallyFires` (liveness): what lies ahead of an enabled rule, if there is enough
  of it for the threshold, is claimed.

Runs: two parts of `services` (`Leaders`: two replicas that both lead, three subjects that
tie, a match cap of two, one fault; `Capped`: one replica, two subjects that may tie or
follow one another, a match cap of one, no fault; `LeadersClaimOnce` is `AtMostOnce` and
`NoneSkipped` in both); `automation_edits` (one replica and one editor, thresholds one and
two, two instants, one fault). `automation_late_commit` shows that "visible to a rule
exactly once" fails for subjects stamped before they are committed (click budgets, audit
records). Fairness: the family ticks, statements end, time passes. A firing claimed and
not acted on when the process dies is lost, as `automation.sql` says; no property
promises it.

## DomainVerification

A registration is a (hostname, token) pair and DNS the set of published pairs, which
the registrant changes at will. `Ask` is the on-demand check; a pass leads, draws
the serving and then the pending work list, reads each row, looks it up and writes
under the pair it read; a failed check anchors the window, warns, or stops; the pass
broadcasts at its end. Rows are renamed and deleted meanwhile. Errors, deadlines,
lost locks and crashes are actions.

- `ServedIsProved`: the name and token a served row carries now were found in DNS.
- `GraceIsWhole`: a pass reaches its stop with a run at least as old as the window,
  unless the row was verified or renamed since the pass saw it fail. The exception is
  real: `UnverifyDomain` checks the id and `verified_at` only, so an on-demand check that
  succeeds between the pass's failure write and its stop is overtaken by that stop, although
  `docs/deployment.md:416` says of any successful check that "the failing state is cleared
  and the clock is reset". What the property does say is that neither the clock a pass read
  before its lookups nor an anchor written by somebody else shortens a window.
- `ChangesAreAnnounced`: a change of what is served is broadcast by its author before
  it is done, through failed statements, deadlines and lost locks. A crash loses the
  broadcast; that is the case `BackstopConverges` of HostCache covers.
- `LapsedStops` (liveness): a served name whose record is gone stops being served
  whatever the churn in the pending queue.

Runs: `domain_verification`, whose behaviours are of two shapes, chosen at the start, each
with two hostnames, two tokens and one fault: one row that is registered, renamed and deleted
while a request and passes check it (two tokens are enough for a request and a pass to hold
different ones); and two rows already registered, any of them verified, any of their records
published, that passes with a batch of two walk while records come and go and rows are
deleted. Only the second has a pass that changed one row when a statement, a read or its
deadline fails at another, which is what `ChangesAreAnnounced` is for. `domain_lapsed` (two rows, a batch of one, starting with one
served row whose record is withdrawn; nothing is published any more, the other row
renames itself for ever). `domain_unwarned` shows that "the owning workspace is
notified at that first failure" fails when an on-demand check starts the window. Two
leaders are covered by the proofs, which take any set of replicas. Fairness:
the family ticks, lookups and statements end, and time passes: strong fairness of
`Tick`, because in that run a pass takes no time and the clock moves between passes.

## Ownership

A member is one organization-wide membership and the account that holds it. Changing a
role, removing a member, deleting one's own account and redeeming an invitation are open
transactions, an action for each statement that can wait or decide. The owner-set guard
of `internal/team` and `LockOrganizationsSolelyOwnedBy` of account deletion lock the
owners their snapshot shows one by one, deletions in the order of their ids, look again
at each row they waited for, count, and write; commits release the locks, and any
transaction may roll back, as a refusal or a deadlock victim does. An owner is a membership
row, as in those queries, which do not look at the account: a membership redeemed onto an
account deleted meanwhile counts, in the code and in the model.

- `OwnersRemain`: the organization keeps an owner, whatever transactions cross, except
  after a deletion that had counted its account as no owner at all (`blind`).
- `DeletionsDoNotDeadlock`: two accounts that delete themselves never wait for one another.
  Role changes lock in any order and may deadlock; the victim rolls back.

The exception is reached, and `ownership_blind` shows it: an account that owns nothing in
the deletion's snapshot has nothing locked for it; a promotion already past its guard
commits meanwhile, the other owner leaves, and the deletion removes the last owner.
`accounts.sql:38-40` describes the locks as "a rule rather than a check-then-act", so the
run records the divergence and `OwnersRemain` states what does hold.

## Folders

A create or a move locks every folder its statement's snapshot shows, reads the tree,
decides and writes; a folder created or deleted while it waited is not locked. A delete
takes no lock of its own and cascades over the branch. The walk up the tree is the least
set that holds a folder and the parent of each of its members (`Chain`, from `Closed`): it
is defined for a cycle too, as the code's visited sets make it, and it can be proved about.

- `NoCycles`: any interleaving leaves a forest.
- `DepthBounded`: the depth cap holds for the whole tree, although a create asks about the
  parent's depth and a move about the branch's height.
- `RequestsQueue`: creates and moves queue and never wait for one another in a circle. It says
  nothing of deletes: the locks a cascade takes row by row are one step of the model, so a
  delete that deadlocks with a move is not represented, only its outcome, that one of the two
  rolls back.
- `ImplementsTree`: the abstract tree of `FolderTree` knows each folder by its path, the
  folders up to its root, and changes in one step: a create adds a leaf under a place that is
  there, a move hangs a whole branch outside itself, a delete takes a whole branch, and the
  depth is judged on the tree as it is at that step. `Folders` implements it under
  `path <- Path, used <- Used` (the chain of every stored folder, the ids ever issued): the
  write is the step, and locking, reading, deciding and rolling back stutter. So what a request
  decided on a tree it read earlier is what it would decide when it writes. The cap on the
  number of folders is not promised: two creates that find nothing to lock count the same
  rows, and both may insert.

## SecondFactor

One account. Completing a sign-in locks the prompt, reads the factor, accepts a one-time
code (known by its secret and time step) or a recovery code, spends the prompt and commits,
and only then inserts the session, so a process that dies in between leaves a spent prompt and
no session. Enrolling, regenerating and disabling take the account row first. Circular waits
end in the database's deadlock victim.

- `OneSessionPerPrompt` and `FactorAndCodes`.
- `ImplementsSignIn`: in the abstract account of `SignIn` a sign-in spends its prompt and its
  factor in one step, and that factor is good then: its secret or its set is in force, it was
  never accepted, and a one-time code lies after those accepted of its secret. Disabling spends
  a factor in the same way. `SecondFactor` implements it with `earned <- Earned` (the prompts
  spent whose session is still to be minted): the commit is the step, and what is read, locked
  and accepted before it stutters. A prompt that lapses while it is being completed is
  completed all the same, because its expiry is read once; `SignIn` allows that.

`OneSessionPerPrompt` is about a prompt, not about an account: two concurrent sign-ins of one
account may both delete what was outstanding before either inserts its prompt, so two
live prompts can coexist although the comment at `mfa.go:627` says there is never more than
one. Each is still spent once.

## Addons

One add-on name in one process. `Install*` and `Remove*` are steps of the holder of
`installMu`; an invocation resolves the published set, enters (or is refused by the seal),
takes an instance from the pool or builds one, runs it and gives it back or closes it; a save
commits, reads back, replaces the view and drains the pool. An install may fail before its
state is registered or when the module starts, and its directory may stay behind, which
refuses the next install of the name. Reserving a place in the pool's budget is one step: the
code adds before it compares, and the overshoot of that instant can only have another instance
closed instead of kept, which an invocation may do at any time.

- `NoneRunsClosed`: a guest runs in a closed module only if a removal's grace ran out
  (`outlived`), on its own version or on an earlier one. The earlier one matters with three
  installs, which the proof showed and the run's two versions cannot: an invocation that outlived
  the first version takes an instance from the second's pool and gives it to the third's,
  because `releaseInstance` asks for the pool that is published then; an invocation of the third
  version can then run it although the second's removal was in time.
- `PoolIsCurrent`: an instance at rest runs the loaded version with the present settings,
  except while a save that replaced that version's view has still to drain it, when a save found the name out of the set
  while a removal was failing (`missed`), or after a grace that ran out.
- `NothingIsLost`: the budget counts every instance at rest once, and none rests in a pool
  that nobody publishes, drains or restores, apart from one given back after the grace.

A save whose read-back fails replaces the view by the defaults (`settings.go:504`), while
`docs/configuration.md:1452` says a saved value is read on the next invocation. The model
has the case; no property claims either.

## Ingest

An event is recorded in two steps (the closed flag is checked, then the channel is sent
to, or the event dropped when it is full). The goroutine selects, batches, writes rows and counts in
one transaction, marks visitors afterwards, and on stop drains and flushes. Close may race
redirects anywhere in Record.

- `AcceptedIsFlushed`: when the goroutine has returned, whatever is left in the channel was sent
  after Close began.
- `MarkedIsStored`: the channel and the batch keep their sizes, and a click is counted as
  flushed and marked only with its row committed.

## The services run

Ownership, Folders, SecondFactor, Addons, Ingest and Automation share no state.
`MCServices` extends the first five, instantiates the last twice, and works on one of them
per behaviour (`focus`) while the others stay in an initial state of theirs: the state space
is their sum (850 thousand states), and the properties it checks are the very
definitions that the theorems prove. Two of them are the refinements `ImplementsTree` and
`ImplementsSignIn`. The two rules are instances of `AutomationProofs`, so that its lemmas
apply to them. Bounds: three memberships and two
transactions (two members who act on one another, and a third who may still have to join); three folders,
a depth of two and two requests (the smallest cycle, and a branch that would exceed the depth);
two prompts, two recovery codes, two secrets, three time steps and two requests; two versions,
two invocations, one save and a pool of one; four clicks, a channel of two and batches of
two (a full channel and a batch that fills during the drain). Transactions and prompts are
symmetric: no property tells them apart. Deadlock is not checked because each of these
parts may come to rest.

## What is proved

For every value of the constants, from the assumptions the modules name
(`HostCacheAssumption`, `RedirectCacheAssumption`, `OutboxConstants`,
`PowersOfTwo`, `AutomationConstants`, `VerificationConstants`,
`OwnershipConstants`, `FoldersConstants`, `FactorConstants`, `AddonsConstants`,
`IngestConstants`), which TLC evaluates on the runs:

| Theorem | Property | Inductive strengthening |
|---|---|---|
| `ArmingNeverStranded`, `BroadcastsAreObserved`, `TypeCorrect` | `NoStrandedArming`, `BroadcastObserved`, `TypeOK` | `running` iff a worker exists; nothing is announced before it is committed; an announced change that was not installed is in the inbox, pending, about to be read or about to be installed (`Covered`) |
| `StalenessIsBounded`, `TypeCorrect` | `StalenessBounded`, `TypeOK` | a budget per place a snapshot can be: time left plus time since it was superseded is at most `Lifetime + D` in Redis and `Bound` in memory, and no more than the request's age in a fill |
| `ClearsAreComplete` | `ClearsComplete` | where a superseded snapshot may be, what is on its way to remove it: a sweep of Redis still ahead (`RedisCovered`), a broadcast, a message in the inbox or the flush of a replica that has to reconnect (`MemCovered`); a request that holds one has a sweep ahead of it, or read it before a deletion (`HoldCovered`), and then its alias is `late` when it stores |
| `MemIsBounded` | `MemBounded` | `ShardsFit` with the types; a full shard is reaped and then emptied before an entry is added |
| `LeaseIsExclusive`, `AttemptsAreCounted`, `FinishedRowsRest`, `OutcomesAreRecorded`, `TypeCorrect` | `LeaseExcludes`, `AttemptsAreDistinct`, `FinishedIsNotSentAgain`, `OutcomesAreEarned`, `TypeOK` | while a claim is within its lease its pending row is not due (`LeaseHolds`), which late marks keep because a backoff is never shorter than the lease |
| `QueueIsImplemented` | `ImplementsQueue` | each action of `Outbox` is an action of `DeliveryQueue` or a stutter under the mapping; a row that a receiver may have taken has an attempt counted |
| `NothingIsSkipped`, `ClaimedAtMostOnce`, `ArmingDropsBacklog`, `TypeCorrect` | `NoneSkipped`, `AtMostOnce`, `BacklogIsDropped`, the types | clock readings lie in the past; the watermark is at or after the arming and every claim; a matched batch has no gap (`BatchIsComplete`), for occurrences committed in time |
| `RuleIsACursor` | `ImplementsCursor` | the same invariant: an unspent claim starts at the watermark and its batch has no gap, so it is one firing; every other action is another step of `RuleCursor` or a stutter |
| `OnlyProvedIsServed`, `WindowIsKept`, `ChangesAreBroadcast`, `TypeCorrect` | `ServedIsProved`, `GraceIsWhole`, `ChangesAreAnnounced`, `TypeOK` | a passed check whose row still carries the pair it read is a proof of it (`PassIsProof`), which fresh tokens preserve |
| `OwnersAlwaysRemain`, `DeletionsNeverDeadlock`, `TypeCorrect` (Ownership) | `OwnersRemain`, `DeletionsDoNotDeadlock`, the types | what a transaction counted is an owner and locked by it (`CountedIsHeld`), so nobody else can demote, remove or delete it before the commit; a transaction about to take an owner away has counted another (`MembersGuarded`, `DeletionsGuarded`); a deletion holds only rows below the ones it has still to lock (`LocksInOrder`) |
| `TreeStaysAForest`, `DepthStaysBounded` | `NoCycles`, `DepthBounded` | of two open requests, one covers (has locked or has still to lock) every row the other is about, unless that row was created since (`SubjectsCovered`), so that what a request decided still holds when it writes (`DecisionsHold`); a move of a folder under one that is not in its branch makes no cycle and adds the depth of the parent to the branch (lemmas on `Chain`) |
| `TreeChangesAreAtomic` | `ImplementsTree` | the paths of the stored folders form a forest (`PathsFormATree`, from `NoCycles`); the path of a moved branch is what lies below the moved folder and the new parent's path (`MovedPath`); `DecisionsHold` and `SubjectsCovered` say that the place is there and the depth fits when the write happens |
| `RequestsNeverDeadlock` | `RequestsQueue` | a request holds only rows below those it has still to lock, and the rows it has still to lock were not created since (`LockPhases`) |
| `PromptsAreSpentOnce`, `CodesFollowFactor`, `SignInsAreAtomic` | `OneSessionPerPrompt`, `FactorAndCodes`, `ImplementsSignIn` | what each lock protects: a sign-in past its prompt holds it, and the secret it read is in force (`PromptHeld`), since disabling waits for prompts and enrolling is for accounts without a secret; an accepted step holds the account row and stays ahead of the replay guard (`StepHeld`), an accepted code stays unused and locked (`CodeHeld`); what was accepted lies behind the guard (`AcceptedIsPast`), so that the factor a commit records is good at that commit (`FactorIsPromised`) |
| `ClosingFlushesAccepted`, `MarksFollowRows` | `AcceptedIsFlushed`, `MarkedIsStored` | once the drain found the channel empty only late events enter it (`OnlyLateRemain`); a batch is marked after its commit; a goroutine about to receive has room (`RoomForOne`) |
| `RemovalWaits` | `NoneRunsClosed` | every admitted invocation of a version that is gone outlived its removal (`GraceKept`); an instance is away from its version's invocations and pool only since a removal outlived its grace (`HeldInPlace`, `RestInPlace`) |
| `PoolStaysCurrent` | `PoolIsCurrent` | while every removal is in time: what rests or is out with the pool's present generation was built from the present view, or a save is about to drain it (`RestFresh`, `HeldFresh`); what is being built is stamped with a generation no newer than the pool's (`MadeForIts`) |
| `BudgetIsExact` | `NothingIsLost` | the count is the places at rest and the instances on their way back (`BudgetCounted`); only the published pool, or the one a removal is still to drain, holds any (`RestPublished`) |
| `LeadersAlwaysClaimOnce` | `LeadersClaimOnce` | the invariant of `AutomationProofs` for whichever of the two rules is at work (`RulesInv`), by its lemmas on those instances |
| `ComponentsAreKept` | - | every behaviour of the services run is a behaviour of Ownership, Folders, SecondFactor, Addons and Ingest, so that what is proved of them holds of what TLC ran |

Each component's proofs are in `<Module>Proofs`, except that `WorkspaceProofs` holds those
of Ownership and Folders and `RuntimeProofs` those of Ingest, Addons and the services run. Each proof has a lemma
or a step per action, and under it one per conjunct of the inductive invariant that the action
can disturb. The invariants were checked with TLC on small instances before they were proved.

The assumptions say that sizes are numbers, that what is counted is finite and that nobody is
not the name of a request, a transaction or a replica. `PowersOfTwo` is
arithmetic the prover has no rule for: with it the lemma `BackoffCoversLease` shows that a retry
is never due before the lease of the claim it replaces ends.

Only model-checked: the liveness properties `BackstopConverges`, `EveryDeliverySettles`,
`EventuallyFires` and `LapsedStops`, because fairness and ENABLED are outside the prover. Every
invariant, action property and refinement of a passing run has a theorem. A refinement is
proved from the component's inductive invariant: the initial states map to initial states, and
there is a lemma for each action that is a step of the abstract specification; it says nothing
of liveness, which the abstract specifications leave out.

## What is not modelled, and what comes next

The parts marked planned or not planned above, with the reasons in `PROJECT.json`.
Inside the modelled parts: what a snapshot contains and how a request reads it,
MarkTLSActive, webhook signing and secrets, trigger edits and the rotation of more than
a hundred rules, domain caps and ownership, workspace-scoped memberships, the spending of
invitation tokens, folder names, the second factor's failure counter, add-on boot and
capabilities, and what a click row contains.

The mapped lines are a few percent of the repository's 108 thousand. Most of the rest
has no behaviour that a state machine adds to: generated query code, the HTTP and page handlers
around the services (decode, check a permission, call, render), templates, QR and image
rendering, configuration, the demo data and operator command line, clients of DNS, SMTP
and the WebAssembly runtime. The models concentrate on the lines where two actors, a failure
or a clock decide the outcome.

Order of the work ahead:

1. `MailQueue` (parallel sends in a batch, implementing `DeliveryQueue` too), roll-ups and
   daily salts, the rate limiter's breaker.
2. Composition of `DomainVerification` and `HostCache`: a name that stops being
   verified stops being served by every replica.
3. Link creation against the deletion of its domain; the cursor that rotates rules.
4. Single-use tokens (recovery, sign-up, invitations), API-key rotation, erasure.
5. Routing and split algorithms against a reference.
6. Proofs of what the new modules promise, in the proof module of the part they belong to.

## Running it

`tlc -config <cfg> <MC module>` for a run of `PROJECT.json`; `tlapm <Module>.tla`
for the proofs of a module whose name ends in `Proofs`. Operators introduced by a comment "Mutant:" are altered forms of
the definition that follows, kept to show that a property notices the change.
