# A TLA+ verification of the API Traffic Platform

The platform (`src/backend/app`) is a multi-tenant API gateway: organizations register
APIs and issue API keys, the gateway authenticates, limits, meters and forwards the
requests made with them, and telemetry about every request reaches consumers through a
transactional outbox.  FastAPI processes and Celery workers share one Postgres database
(READ COMMITTED, one transaction per request or task) and one Redis.  Every `await` is
a point where another request, of the same or of another process, can run; that is what
these modules are about.

## Inventory

| Component | State | Operations | What is hard | What makes it correct |
|---|---|---|---|---|
| Gateway pipeline (`services/gateway.py`, `api/gateway.py`) | none of its own; the list `consumed` of a request | `handle`: authenticate, resolve version, rate limit, consume quotas, forward, roll back, log | interleaving at each await, cancellation, upstream failure after consumption | answered requests are charged, refusals keep nothing, every request ends |
| Quotas (`services/quota.py`) | one Redis counter with TTL per key, period and calendar bucket | `consume` (INCR, EXPIRE), `rollback` (DECR) | two commands that are not atomic, TTL arithmetic, the clock read twice | the cap per calendar period |
| Rate limiting (`services/rate_limit`) | one Redis key per strategy, API and key | three Lua scripts | stamps taken before the script runs, rounding | the rate in any span, sufficient `retry_after` |
| Telemetry outbox (`services/telemetry`, `workers`) | rows with `published_at`, `attempts` | `emit`, `drain_outbox` in batches | several workers, crash between delivery and commit, failing sink | no loss, no needless redelivery, everything published in the end |
| Sessions (`services/auth.py`) | refresh tokens in families, the password hash | login, refresh with rotation and reuse detection, logout, password reset | read-decide-write without locks; exceptions roll back | one live token per family, a reset ends sessions, tokens used once |
| Organizations (`services/organization.py`) | membership rows with roles | create, add, change role, remove, delete | count-then-write, stale permission checks | always an owner, one membership per user |
| API keys (`services/api_key.py`, `services/audit.py`) | key rows: expiry, revocation, successor; audit rows | create, rotate with grace period, revoke | rotation racing revocation or another rotation, requests in flight | what a key may do only shrinks; the audit log explains every key |
| API catalogue (`services/api_catalog.py`) | APIs, versions, quotas, rate-limit rules | create with a unique slug, change, delete with everything below it, replace quotas, set the rule | read-decide-write without locks; deletion under requests in flight | nothing is orphaned; a setting is what its last request asked for |
| Usage, rollup, reports (`repositories/analytics.py`, `repositories/telemetry.py`, `workers/tasks.py`) | `request_logs`, `api_key_usage`, `daily_usage` | upsert per request, delete-and-insert of two days per rollup, reports | overlapping rollups, midnight, late commits, INTEGER columns, reports with different windows, usage that goes with its API | totals equal the logs; the reports differ only where their windows do |
| Auth throttle (`services/auth_throttle.py`) | a Redis counter with TTL | INCR, EXPIRE, TTL | three commands that are not atomic, a crash between them, a rounded TTL | the attempts per window; a refused client gets in again |
| Accounts (`services/auth.py`, `core/security.py`) | users, mailed action tokens | register, verify email | overlapping registrations, a mail sent before the commit | one account per address, verified by its own token only |
| Notifications (`services/notification.py`) | rows with `read_at` | insert with a new member, mark read | — | written with what they describe |

The components call each other directly; they interact through shared state: the gateway
reads keys, rules and quotas that the catalogue and key services write, its log write
emits to the outbox in the same transaction, the workers drain it.  `PROJECT.json` lists
every component, also those that are left out, and every hazard at its line.

## Modules

| Module | Models | State and actions |
|---|---|---|
| `Quota` | `services/quota.py` on Redis | `counter`, `expiry` per period and bucket, `clock`; the commands as operators, `Tick` expires keys.  Calendar constants are parameters; time is in ticks, `TickRate` to a second, so that the truncation of a TTL is visible |
| `Gateway` | `services/gateway.py`, `api/gateway.py` for the requests of one key, over `Quota` | `pc`, `todo`, `call`, `consumed` per request.  `Admit` (authenticate to `list_for_api`), `BeginConsume`/`Incr`/`Expire` (`consume`), `Forward`, `BeginUndo`/`Decr` (`rollback`), `Record` (log and commit), `Abort` (cancellation, death, Redis error), `Elapse` |
| `RateLimiter` | `services/rate_limit` for one API and key | the three Redis keys, each with a script as a function (`FixedWindow`, `SlidingWindow`, `TokenBucket`); `Send` reads the clock, `EvalFixed`/`EvalSliding`/`EvalBucket` run the script.  Tokens are counted in fractions of `1/Window` so that the arithmetic is exact |
| `AtLeastOnce` | what the outbox promises | an abstract queue: accepted, handed over one or more times, settled |
| `Outbox` | `services/telemetry`, `workers/tasks.py` | rows, and per worker its transaction: `Begin`/`End` (the business write), `Start`, `Select`, `Deliver`, `DeliverFails`, `Crash`, `Commit` |
| `Sessions` | `services/auth.py` for one account | `family`, `revoked`, `rotatedTo`, `hash`, `mailed`, and per client its transaction: reads and commits are separate actions |
| `Membership` | `services/organization.py` with `require_permission`, `services/notification.py` | `roleOf`, `userOf`, `org`, `notices`, `read`, and per client its transaction: `Authorize`, `ReadAdd`/`ReadMember`, `Count`, `WriteAdd` (with `Notify`), `WriteMember`, `WriteDelete`; `MarkRead`, `MarkAllRead` |
| `Catalogue` | `services/api_catalog.py`, `services/api_key.py`, `services/audit.py`, the gateway's authentication and log | `api`, `version`, `quotas`, `rule`, `key`, `audit`, and per request its transaction: a `Read...` and a `Write...` action for each operation (`TrySlug` for each slug tried), `Authenticate`/`ReadVersion`/`Log` for the gateway, `Abort` for any of them.  `Rotated` is the row a rotation leaves |
| `Usage` | `services/request_log.py`, `repositories/telemetry.py`, `repositories/analytics.py`, the rollup task | request logs, `usage` per key and day, `daily`; a request's transaction (`Open`, `Answer`, `Record`, `Fail`), a rollup's statements (`Start`, `Rebuild`, `Insert`, `Commit`, `Crash`) with the rows it holds, `DeleteApi` with its cascade to keys and usage, and `Midnight`; the reports as operators up to `Dashboard`, each with its own window: a time of day for those of the logs (`Scope`), whole days for `KeyUsage` and `TopKeys`, which knows no organization and has a limit.  Rollup and reports are those of one API; the usage is that of all |
| `Accounts` | `services/auth_throttle.py`, registration and email verification in `services/auth.py` | `count`, `ttl` with `Incr`/`Expire`/`ReadTtl` and `Tick`; `users`, `mailed` with `CheckEmail`/`InsertUser`/`SendMail`/`CommitUser`, `Verify`, `RequestReset`.  Time is relative, so the clock needs no bound |
| `GatewayProofs`, `RateLimiterProofs`, `OutboxProofs`, `SessionsProofs`, `MembershipProofs`, `CatalogueProofs`, `UsageProofs`, `AccountsProofs` | — | theorems about the module of the name |
| `MC*` | — | instances for TLC |

Postgres transactions are modelled by what READ COMMITTED gives: a query sees what has
been committed when it runs, a write becomes visible with its commit, an exception or a
crash leaves nothing.  A refused request is therefore not a step unless something is
recorded of it for a property.  Row locks only delay an `UPDATE` of the same row, which
then goes ahead; a deadlock that Postgres breaks is an abort.  The ORM's identity map is
modelled where it matters: `SeenRole` in `Membership`, and in `Catalogue` the UPDATE that
sets only the columns that differ from what was read.  A unique constraint or a foreign
key that fails rolls the request back; in `Usage` it also makes a statement wait while
another transaction holds the row or the value.  The permission check of the operations
in `Catalogue` is the one `Membership` models.

Variables under "what only the properties read" are history variables: no guard reads
them.  Operators introduced as "faulty variant" are never used by a specification; each
is a plausible mistake in the operator that follows it, and shows that a property notices
it (`mutants` in `PROJECT.json`).

## Runs

| Run | Instance and bounds | What it shows |
|---|---|---|
| `gateway` | two requests; quotas of 1 a day and 2 a month; days of 2 s, 2 ticks a second, months of 2 days; from tick 5 to tick 8, the midnight that ends day and month | the counters account for every request; the cap holds for each counter key up to stray rollbacks; refused requests keep nothing; what the upstream answered was charged, logged or not; counters live to the last two seconds of their period; a counter stays without TTL only by an abort between its INCR and EXPIRE or a stray rollback; every request ends |
| `gateway_calendar_cap` | same | the quota of a calendar day can be exceeded: the counter expires before midnight |
| `rate_limiter` | two processes, 2 requests in 4 ticks, burst 3, delays of up to 2 ticks, 5 checks in 8 ticks, each algorithm | two windows' worth at most in any window (fixed); the limit in any window shortened by the delay (sliding); capacity plus refill in any span while scripts run in the order of their stamps (bucket); `retry_after` is enough |
| `outbox` | three events, two workers, one row a batch, two batches a task, one fault | no row in two hands; redelivery only after a rollback; `AtLeastOnce` implemented; everything published |
| `outbox_attempts` | two faults | the bump of `attempts` is rolled back |
| `sessions` | two clients, two passwords, three tokens, two further hashes | see below |
| `sessions_reuse` | same | the revocation of a family is rolled back |
| `membership` | two users, two requests at a time, three rows | one row per user; nothing left of a deleted organization; only those who were added are notified; the last owner goes only by an overlap |
| `membership_owner` | same | an organization without an owner |
| `catalogue` | three requests of any kind, hours 0 and 1, grace periods of 0, 1 and 2 hours, lifetimes of 1 hour or none | slugs unique and nothing orphaned; settings, revocation and audit rows as below |
| `usage` | two requests of two keys of one API (one 600, one 404) at two times of day, the API may be deleted; two rollup workers, three days, byte sums up to 2, any crashes; windows of one and two days, lists of one key | past days complete, every log reaches the daily series; no two rollups hold one row; the reports of a dashboard agree, up to the requests between the starts of their windows |
| `accounts` | two clients, limit 2, a window of 2 s at 3 ticks a second, counter up to 4, two registrations of one address; clients symmetric | the attempts per window, the end of a lockout, one account that only its own token verifies |

`sessions` states, for four promises that overlapping transactions break, exactly how far
they hold: `OneActivePerFamily` and `AuditTrail` fail by at most one for each rotation
that commits on a token revoked since it was read; `ResetEndsSessions` covers every token
in the table when the reset looked; `LastResetRules` fails only by a login that upgrades
an outdated hash over a reset; `ResetTokenOnce` only for confirmations that had passed the
check before the first one committed.  In the same way `OwnerlessOnlyByOverlap` and
`BucketRateInOrder` name the one condition under which the documented promise fails: two
requests about owners that overlap, and scripts that Redis runs in another order than
their stamps (the bucket's time then moves back and a span refills twice).

The exceptions in the other modules are as exact:

* `LastSetRules` (`catalogue`): a setting of an API is what the last committed request
  for it asked for, unless another one for the same setting committed between its read
  and its write.  Then quota rows of both remain, columns of both are mixed in one rule,
  or a change is dropped because it equals what was read.
* `ValidityOnlyShrinks`: a revocation is final even under a rotation that read the key
  before it.  The end of a key's life moves later only by rotations that overlap: the
  second sets its own grace over a shorter one.  A rotation that overlaps a revocation
  issues a successor all the same; `AuditExplains` shows that the audit log tells.
* `UntimedOnlyAfterFault` (`gateway`): a counter stays in Redis without a TTL only if a
  request was aborted between the INCR and the EXPIRE of this counter (`abandoned`, kept
  for each period and bucket until the key expires), or a stray rollback was made to it.
  Aborts anywhere else, of any number of requests, leave none.
* `UnloggedOnlyByDeleteOrAbort` (`catalogue`): an answered request loses its log, and its
  client the answer, if it is aborted itself before its commit, or if its key goes while
  it is in flight; of all management requests only the deletion of the API does that.
* `PastDaysComplete` (`usage`): two days later the rollup of a day is final and has every
  request that began on it.  The exception is a day whose byte sum exceeds an INTEGER
  column; as the rollup rebuilds two days in one transaction, the day before it fails too.
* `ReportsAgree` (`usage`): summary, breakdown and search read `request_logs` from the
  present time of day on, some days ago, by when a request's transaction began; top keys
  read `api_key_usage` from the beginning of that day, by when the upstream answered.
  The usage of a key exceeds its part of the summary exactly by the requests that ended
  on the days of the window and began before it: on its first day before the time of
  day, or on the day before (`Early`).  The logs of a deleted API stay and its usage goes,
  for good.  A key that is active is missing from the list only if the list is full of
  keys, of whatever organization, with no fewer requests.  Status codes are any numbers.
  The run has the keys of one API; those of others, bodies of no bytes and longer lists
  are in the theorem.
  The statements of one dashboard are taken with nothing committed between them: at READ
  COMMITTED they may be further apart by what commits meanwhile.
* `AttemptsPerWindow` (`accounts`): twice the limit in any span as long as the window, as
  for any fixed window, also when `EXPIRE` is late.  `LockoutEnds`: a refused client that
  waits `retry_after` and the half second that Redis may have rounded away finds the
  counter gone.  The exception is a counter without expiry: until its first client sends
  `EXPIRE`, and for ever if that client ends before it.

Why the bounds are enough: every hazard listed needs two actors, one boundary of time or
one fault, and the instances have each of them at least once, with room for the effect to
show afterwards (a second request after the counter is forgotten, a third token after an
overlap, a check after a late script).  The actions and every disjunct of them happen in
these runs.

Fairness.  `Gateway!FairSpec`: weak fairness of each request's steps.  The code justifies it for the
upstream call, which has a timeout of 15 s; the Redis and Postgres clients have none
(`core/redis.py`, `db/session.py`), so for them it is an assumption on the deployment:
they answer, or the connection breaks and the request aborts.  Nothing is assumed of
`Abort` or the clock.  `Outbox!FairSpec`:
weak fairness of each worker's steps, as the beat schedule starts the task every ten
seconds, `task_acks_late` runs it again after a crash, the sink has a timeout of 10 s and
`SKIP LOCKED` never waits; failures and crashes are
bounded by `MaxFaults`, so the property reads: once the sink works, everything is
published.  `Usage!Spec`: weak fairness of the rollups, one of which goes on as beat starts
one every 15 minutes; overlapping rollups wait only for one that can go on.  `Midnight` states what
the sizes justify instead of fairness of the clock: a request, with 15 s for its upstream,
and a rollup span at most one midnight, and of the 96 rollups of a day one that begins
after the requests of earlier days have ended runs to its end.  Nothing is assumed of
requests.  Workers may die any number of times, but not for ever: a rollup that dies
every time shows nothing to the reports.  Rollups that raise for ever are not excluded.
Where deadlock checking is off, the system
really stops: all requests have ended, or the bounded clock has.

### Findings

Four statements of the documentation are contradicted by the code; the quotations are in
`PROJECT.json`.

1. Quotas "cap total requests per API key over a calendar period": a daily counter
   expires up to two seconds before its day ends (`services/quota.py:33`).
2. "bump attempts for observability": rolled back with the transaction
   (`services/telemetry/publisher.py:45`).
3. "the whole family is revoked" on reuse: rolled back with the transaction
   (`services/auth.py:135`).
4. "never leaving an organization without an owner": the count is not protected against
   a concurrent demotion (`services/organization.py:141`).

Seen while modelling, and not findings, as no document says otherwise: `top_keys` does
not look at the organization it is given (`repositories/analytics.py`), which
`ReportsAgree` takes as it is; the audit
service speaks of membership changes, and only operations on keys record anything; a
rotated key's successor never expires, whatever the old key's end was.

## Proofs

Every invariant, the action property and the refinement that the runs check are also
proved with TLAPS, for every value of the constants that the named assumption of the
module admits: the sizes of the instances above do not matter.  The bounds on time,
counters and faults remain in the specifications, but as arbitrary numbers.  A module
`XProofs` extends `X` and has the same layout: the inductive invariant `Inv` as a
conjunction of named parts, lemmas about the operators, `InitInv`, one lemma for each
action, `NextInv`, `Invariance`, and the theorems.  TLC has checked each `Inv` on the
instance of its run (that of `CatalogueProofs` without the two conjuncts that type
`job` and `last`, whose values are of kinds TLC does not compare).

| Theorem | States | Theorem | States |
|---|---|---|---|
| `TypeCorrect` | `Gateway!TypeOK` | `CatalogueTypes` | `Catalogue!TypeOK` |
| `CountersAccount` | `CounterAccounts` | `SettingsLast` | `LastSetRules` |
| `QuotaCap` | `CapPerCounter` | `KeysAudited` | `AuditExplains` |
| `AnsweredCharged` | `AnsweredIsCharged` | `LogsKept` | `UnloggedOnlyByDeleteOrAbort` |
| `CounterLifetime` | `ForgetWindow` | `KeysOnlyShrink` | `ValidityOnlyShrinks` |
| `RefusedUncharged` | `RefusedHoldsNothing` | `LimiterTypes` | `RateLimiter!TypeOK` |
| `CountersTimed` | `UntimedOnlyAfterFault` | `FixedBurstBounded` | `FixedWindowBurst` |
| `OutboxTypes` | `Outbox!TypeOK` | `SlidingLimitKept` | `SlidingWindowLimit` |
| `DrainsDisjoint` | `NoSharedRow` | `RetryHonoured` | `RetryAfterSuffices` |
| `RedeliveryBounded` | `RedeliveryOnlyAfterRollback` | `BucketRateKept` | `BucketRateInOrder` |
| `OutboxImplementsContract` | `ImplementsContract` | `UsageTypes` | `Usage!TypeOK` |
| `SessionsTypes` | `Sessions!TypeOK` | `PastDaysFinal` | `PastDaysComplete` |
| `FamiliesBounded` | `OneActivePerFamily` | `ReportsConsistent` | `ReportsAgree` |
| `RotationsTraceable` | `AuditTrail` | `AccountsTypes` | `Accounts!TypeOK` |
| `ResetsEndSessions` | `ResetEndsSessions` | `ThrottleBounded` | `AttemptsPerWindow` |
| `LastResetWins` | `LastResetRules` | `LockoutsEnd` | `LockoutEnds` |
| `ResetTokensWorkOnce` | `ResetTokenOnce` | `AddressesProved` | `OneProvedAccount` |
| `MembershipTypes` | `Membership!TypeOK` | `MembersUnique` | `OneRowPerUser` |
| `LastOwnerStays` | `OwnerlessOnlyByOverlap` | | |

What the invariants add, and why the properties alone are not inductive:

* `GatewayProofs` (`QuotaAssumption`, `ReqsAssumption`).  `WithinCap`: the requests whose
  INCR was answered within the limit are at most the limit plus the strays, which is what
  the cap is about before it is known who passes.  `EpochOrder`: no unit is of a later
  life of a key than the current one, so a key that starts again counts nobody.
  `CallOK`: the bucket named by a call in progress was read from a clock that has only
  advanced.  `Uncharged`, `Cleared`, `CallNotTodo`: a period not yet consumed, or already
  passed, says which units a request holds; without them `Incr` could charge a request
  twice and the counting argument fails.  `HoldInv`: a unit
  that is not, or no longer, in a request's `consumed` is of a bucket or a key of the past.
* `OutboxProofs` (`OutboxAssumption`).  `HeldPending`: rows in a worker's hands are
  pending, so no commit of another concerns them.  `CopiesUndone`: an event that is
  neither published nor stamped has reached the sink only from transactions that were
  rolled back.  In the refinement the commit of a business write is the abstract
  acceptance, a delivery (also one that fails after the sink has the rows) the hand-over
  of its batch and the commit of a drain the settling of all it has stamped; every other
  step stutters.
* `SessionsProofs` (`SessionsAssumption`).  The token table is gapless, a family is named
  after its first token, and `rotated_to` stays in the family; a hash in the table is
  spent only by resets that met it; a reset's list of active tokens and what has been
  revoked since cover all it saw.
* `MembershipProofs` (`MembershipAssumption`).  `StillOwned`: a request that no departure
  of an owner has overtaken may rely on another owner than the member it is about to
  demote or remove, which is what the count showed when it was made.
* `CatalogueProofs` (`CatalogueAssumption`: the clock stays below the value that stands
  for "never").  `JobOK`: what a request has read still stands unless it is marked stale,
  its key belongs to its API and goes only with it, and every slug it passed over has been
  given to another API, so the slugs never run out and the one it takes is free.
* `RateLimiterProofs` (`RateLimiterAssumption`).  For each strategy, what its key still
  knows of the requests admitted: the fixed window those of the window and, as far as a
  span can reach back, those before it; the sliding window every one not yet a window
  old; the bucket, that its tokens and all it has admitted since any moment are within
  its capacity and its refill since then.  `BucketRateKept` has the hypothesis
  `FullWhenExpired`: the second by which the key outlives the refill of an empty bucket
  covers the largest delay of a script.  `ShortDelays` shows that any delay below a
  second does; the instance of the run has it too.  Without it the bound is false: a
  script stamped before the key expired and run after it finds a full bucket too early.
* `UsageProofs` (`UsageAssumption`: bodies of any size an INTEGER holds, empty ones too,
  any status codes, finitely many keys).  `UsageOK`: a usage row is the number of its
  logs, and none is left of a key that has gone.
  `LocksOK`, `Apart`: a rollup inserts where there is no row or where it holds the one it
  deleted, and two rollups share neither; `Complete`: one that began today after the
  requests of earlier days had ended has all of yesterday.  `Harmless`: from the moment
  such a rollup has covered a day, whatever another one still does to its row makes it the
  same total.  Sums are sizes of unions of disjoint sets (`SumOfSizes`, proved from the
  definition of the community fold by the absence of a least counterexample), so the
  totals and the reports compare as sets of requests.
* `AccountsProofs` (`AccountsAssumption`).  `OneExpirer`, `AdviceCovers`, `ExpiryDue` for
  the lockout; `RowsOK`, `OwnRow`, `OneRow`, `Proved` for the accounts.  `Budget` for the
  attempts: before the EXPIRE all of the last window's may be recent; after it, what is
  younger than the EXPIRE has been counted by this key, and when the key goes everything
  older has left the window.

Only model-checked: `EveryRequestEnds`, `EventuallyPublished` and `EventuallyRolledUp`,
as the prover does neither liveness nor ENABLED.  The four properties of the violation
runs are false.

## Plan

1. Done: `Quota`, `Gateway`, `RateLimiter`, `AtLeastOnce`, `Outbox`, `Sessions`,
   `Membership` with notifications, `Catalogue` (catalogue and keys in one module, as
   deletion, rotation and the gateway meet in the same rows), `Usage`, `Accounts`; the
   proofs of all their safety properties.
2. Next: action properties beside `ValidityOnlyShrinks` (what no step of a rollup or of a
   rotation may undo) and the safety argument under each liveness property, such as that
   a worker with a batch always has a step.

## Not modelled

* Cryptography: hashes, random tokens and signatures are unique values.  Access tokens,
  which no table holds and no operation revokes, are left out.
* The contents of email, requests, responses and events; schemas, validation, error
  bodies, logging and request context: formatting without state of their own.
* Queries that only read and that no property is about: health checks, the admin
  overview, top endpoints and latencies, the paging and sorting of lists.
* The rename and the slugs of organizations, which no other operation depends on.
* Migrations and seeding, which run before the platform serves requests; two processes
  that seed an empty database at the same time are outside the models.  The foreign keys
  and unique constraints the migrations create are in the models.
* The frontend, a client of the HTTP API.
* A Redis that loses writes in a failover, and an upstream's own effects.

`PROJECT.json` gives the reason for each component.
