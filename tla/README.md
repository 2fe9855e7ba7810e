# CouponManager in TLA+

Specifications, model-checking configurations and machine-checked proofs for
the coupon service of this repository, a NestJS application over PostgreSQL
(through TypeORM) and Redis (through ioredis).  Paths below are relative to the
repository's root; `coupons.service.ts` and `coupon-books.service.ts` stand for
`src/modules/coupons/coupons/coupons.service.ts` and
`src/modules/coupons/books/coupon-books.service.ts`, `cache.service.ts` for
`src/services/cache/cache.service.ts`.

What the project says, in short.

* **Coupons.** The row locks of the database alone keep the redemption limit,
  lose no redemption and never re-offer an assigned coupon, with any number of
  requests and whatever Redis does (proved).  As long as no assignment by code
  overlaps another assignment of its coupon, no coupon gets two holders, its
  status agrees with its assignment, and a redeemed one stays redeemed;
  assignments at random need no such care (proved).  While Redis works,
  every Redis lock has one owner (proved).  Overlapping assignments by code can
  hand one coupon to two users, and overlapping calls of one user pass the
  assignment limit and the deduplication (counterexamples); calls that do not
  overlap in these windows keep both (proved).
* **Books.** The service implements a registry that takes each code once, with
  its whole upload and their number; every code in the table was reported by
  exactly one call, the total of an active book is exact, and no answer promises
  more codes than there are, locked ones that it does not list included (proved).  A deactivation can overwrite the
  total of its book (counterexample), but only when it overlaps an upload into
  it (proved).  A client that reads page after page misses no row whose
  `created_at` is its own (proved); all codes of one upload share theirs.
* **Cache.** A caller that was granted a lock owns the key until its TTL or the
  late `DEL` of somebody else takes it, and a flag that was acknowledged is
  never reported absent, whatever is slow, lost or sent twice (proved).
* **Requests.** A revoked token gets nobody in, the ids and the ally of a request
  never mix with those of another, an answer lacks ids only if it refuses a
  request that the middleware never met, and the log tells the answer (proved).
* **Codes.** A generation fits its pattern and its limit, every code is stored
  in the spelling it is looked up by, and the estimate of a pattern is exact
  (proved); the loop ends (checked).

## 1. Inventory

### 1.1 Components

| Component | State | Operations | Interacts with |
|---|---|---|---|
| **CouponsService** (`coupons.service.ts`) | rows of `coupons` (status, version), `coupon_assignments` (pair, redemption count, lock columns) | assign random, assign by code, lock, unlock, redeem; two queries | PostgreSQL transactions with row locks (`FOR UPDATE`, `NOWAIT`, `SKIP LOCKED`), CacheService for flags and locks, rows of `coupon_books` |
| **CouponBooksService** (`coupon-books.service.ts`) | rows of `coupon_books` (isActive, total_codes), new rows of `coupons` | create, upload codes, generate codes, deactivate; get with statistics; list books, list the codes of a book | unique index on `coupons.code`, CodeGenerator; its `isActive` is read by CouponsService |
| **CacheService** (`src/services/cache`) | five Redis buckets: deduplication flags, locks, cursors, JWT blacklist, active JWT; a connection per bucket | get, set, del, exists with retry and timeout; `acquireLock`, `releaseLock`, `setDedup`, `hasDedup`, `rotateActiveJwt` | Redis; callers are CouponsService and JwtAuthGuard |
| **CodeGenerator**, code normalisation | none | pattern to codes, validation, estimate of unique codes | CouponBooksService, DTOs |
| **Controllers, DTOs** | none | the HTTP endpoints and the rules of class-validator | the services above |
| **Authentication and guards** | `request.user`; blacklist in Redis | verify JWT, API key, monitoring credentials | CacheService, EnvironmentService, the CLS store |
| **Correlation and logging** | the CLS store of each request | middleware that makes ids, structured log lines | every request |
| **Errors, interceptors, envelope** | none | log the start and the end of a request, wrap an answer, map an exception | every request |
| **Health** | none | ask the external service, report | HTTP |
| **EnvironmentService, SecretsService** | `secretsCache`, a Map | get with caching, clear | guards, configuration |
| **Configuration, Swagger, environment schema** | none | built or evaluated once at startup | |

### 1.2 What is hard here

Every handler is an `async` method: between two awaits it runs alone, at an
await any other request of this process, or of another instance of it, may run.
So the hard parts are

* **reads that are used after an await**: the coupon entity tested by an
  assignment, the number of coupons a user holds, the deduplication flag, the
  book entity that `save()` writes, the number of codes `generateCodes` counts,
  the token that is verified first and looked up in the blacklist later;
* **two kinds of lock**: rows locked by a transaction, which vanish with it, and
  Redis keys with a TTL and no owner, which outlive a dead process or expire
  under a living one;
* **failures between steps**: a statement or the connection fails, COMMIT is
  applied and its reply lost, the process dies, a Redis command is applied and
  times out, so that its retry meets its own key;
* **commands nobody waits for**: a command that timed out stays on its
  connection and is executed later, after its retry and perhaps after its
  caller has been answered; a reconnect sends it a second time;
* **waiting**: the SELECT of an unlock waits without `NOWAIT`, and concurrent
  INSERTs of the same codes wait for each other on the unique index, possibly
  in a cycle.

`PROJECT.json` lists each such place with its line under "hazards", and the
properties that would catch it going wrong.

### 1.3 What makes each component correct

* CouponsService: a user never redeems beyond `max_redemptions_per_user`; every
  committed redemption is counted once; an available coupon belongs to nobody;
  a redeemed coupon stays redeemed; the status of a coupon agrees with the
  assignment's count and lock columns; rows and keys are always freed; every
  request ends.
* CouponBooksService: every code in the table was reported as uploaded by
  exactly one call; `total_codes` is the number of codes; what a response says
  of a book is consistent; who reads all pages is given all rows; uploads end.
* CacheService: who was told to have a lock has it; what was acknowledged is
  seen; every call settles whatever Redis does; a lock held by no one goes away.
* CodeGenerator: as many distinct codes as asked for, all of the pattern, or an
  error; the estimate counts what the pattern can give; one spelling of a code.
* Authentication and guards: a revoked or expired token is refused even while
  Redis goes away; a method acts for nobody but who proved to be it.
* Correlation, logging, errors: ids, log lines and answers are those of the
  request they belong to, and say the same; every request is answered.

## 2. Modules

| Module | Role |
|---|---|
| `CouponStore` | the columns of the three tables, the pure rules of the services (status transitions, limits), initial tables, the clock |
| `CouponsService` | the handlers of the five operations, Redis as they use it, failures and environment; `Spec` and `FairSpec` |
| `CouponsServiceProperties` | type invariant, safety, action and liveness properties, `CoreInv`, the claims of the documentation |
| `RedemptionLedger` | abstract specification: grants and uses, nothing else |
| `CouponsServiceProofs`, `CouponsInvariantProofs` | type correctness; `CoreInv`, what follows from it, and the refinement |
| `CouponsApartProofs` | what holds while calls keep apart in the windows the handlers leave open, and what holds while Redis works |
| `CouponBooksService`, `...Properties`, `...Proofs` | the handlers of create, upload, generate, deactivate and get, with the waits of the unique index; properties; `BooksInv`, the refinement |
| `CodeRegistry` | abstract specification: books, the codes registered in them, and their totals |
| `BookPages`, `...Properties`, `...Proofs` | the two paging queries, and a client that reads page after page; properties; `PagesInv` |
| `CacheService`, `...Properties`, `...Proofs` | callers, connections and Redis; properties; the wire, the grant and the flag invariants |
| `RequestPipeline`, `...Properties`, `...Proofs` | middleware, guards, interceptors, pipes and filter around a controller method; properties; `PipelineInv` |
| `CodeGenerator`, `...Properties`, `...Proofs` | patterns, the estimate and the loop; properties; `CodesInv` |
| `MC...` | values of the constants for TLC |

Operators whose comment begins with "Slip:" are not part of any specification.
Each is what one definition would be if the code had a plausible bug (a missing
`FOR UPDATE`, no `finally`, an off-by-one); putting it in place of the
definition must break the property it is listed with in `PROJECT.json`, which
shows that the property depends on that piece of code.

### 2.1 Coupons: state and actions against the code

One request serves one call and has a program counter `pc`; the labels are the
awaits of the handler.  `target` and `seen` are what it has read (the local
variables `coupon`, `data`), as they were when it read them.  `couponLock` and
`bookLock` are the rows locked `FOR UPDATE`, `dedup` and `redisLocks` the Redis
keys that exist, `committed` is a history variable.  Assignment rows need no
lock of their own: every locking SELECT that joins them locks the coupon first.

| Code | Actions, in order |
|---|---|
| `assignRandomCoupon` | `FindBook`, `CheckUserAssignmentLimit`, `SelectAvailable` (SKIP LOCKED), `WriteAssignment` |
| `assignSpecificCoupon` | `FindCoupon`, `CheckUserAssignmentLimit`, `SelectForAssignment` (NOWAIT), `WriteAssignment` |
| `lockCoupon` | `AcquireLock`, `SelectForLock` (NOWAIT), `WriteLock`, `ReleaseLock` |
| `unlockCoupon` | `SelectForUnlock` (waits), `WriteUnlock` |
| `redeemCoupon` | `HasDedup`, `SetDedup`, `AcquireLock`, `SelectForRedemption` (NOWAIT, also the book), `WriteRedemption`, `ReleaseLock` |
| the join finds no row | `SelectNothing` |
| `getCouponStatus`, `getUserCoupons` | `CouponStatusResponse`, `UserCouponsResponse`: operators, since they change nothing |

A transaction is two steps, its locking SELECT and then its checks, writes and
COMMIT: under READ COMMITTED nobody sees a write before the COMMIT, and the
statements between the two touch only rows the transaction has locked.  Each
write step takes every early return of the code as a disjunct of its own and
ends in `Commit` or `Rollback`; both free the rows and send lock and redeem to
the `finally` block.  `UpdateCouponVersion` is the optimistic lock as it works:
`manager.query` answers an UPDATE with a pair that is never empty, so a
conflict would go unnoticed.  That it never occurs is `SnapshotStillFresh`.

`Events` switches what may happen around the handlers, so that a run names what
it is about: `abort` (a statement fails, or COMMIT succeeds and its reply is
lost), `crash` (the process dies: PostgreSQL frees the rows, Redis keeps the
keys), `redis` (a command fails, or is applied and its reply lost), `ttl` (a
lock key expires while its request still runs), `dedupTtl`, `clock` (the dates
of a book and of a lock go by) and `deactivate`.

Abstracted: a coupon and its code are one value; time is the phase of a book
and of a lock; bodies of responses and error texts are left out, an answer is
one of six classes; retries inside one Redis command are folded into the
outcomes the caller can see; a batch of several servers is the same as one,
since requests share nothing but the two stores.

### 2.2 Books: state and actions against the code

| Code | Actions, in order |
|---|---|
| `createCouponBook` | `FindTitle`, `InsertBook`, `BuildBookResponse` |
| `uploadCodes` | `FindBook`, `InsertCode` for each row, `CommitCodes` (with `AddToTotal`) |
| `generateCodes` | `FindBook`, `CountCodes`, `InsertCode` for each row, `CommitCodes` |
| `deactivateCouponBook` | `FindBook`, `Reload`, `Save`, `BuildBookResponse` |
| `getCouponBook` | `FindBook`, `BuildBookResponse` |

Here the rows of an INSERT are steps of their own, because each may have to
wait: with `ON CONFLICT DO NOTHING` a row whose code somebody else has inserted
and not committed waits for the end of that transaction (`WaitsFor`).
`DeadlockVictim` is PostgreSQL's answer to a cycle of such waits.
`totalCodes: () => total_codes + n` is evaluated by the UPDATE under its row
lock, hence one step with COMMIT.  `save()` of an existing entity is two
statements in TypeORM: it reads the row again (`Reload`) and writes the columns
in which the entity differs from that row (`Save`).  `CommitAndCount` commits
and goes on to `BuildBookResponse`, which counts the codes of the table in a
statement of its own, while the total of the answer is that of the entity read
before (`entity`).  The one event, `abort`, also stands for a dying process:
nothing but the transaction is lost.  The id of a new book is chosen by the
database (`FreshIds`); generated codes are any distinct ones, and giving up
after ten attempts per code is a possible outcome of generating more than one.

The paging queries have a module of their own, `BookPages`, since what matters
about them is not one call but a client that follows `hasNextPage`: `Begin` and
`AskNext` are the client, `FindBook` (which the listing of books does without),
`CountRows`, `FindRows` and `Respond` the handler, whose `Promise.all` runs the
count and the find in either order.  `Skip`, `Take`, `FirstOf`, `TotalPages` and
`HasNextPage` are the arithmetic of a page.  Rows come in by uploads that take
their `created_at` when they begin (`BeginUpload`) and become visible when they
commit (`CommitUpload`), in any order; how rows of one time are ordered is chosen
anew by each query.

### 2.3 Cache: state and actions against the code

A caller makes the calls of its `script` one by one; `step`, `attempt` and `pc`
say where it is.  `sent` is, for each connection, what was sent and not
answered yet, in order; `store` and `volatile` are Redis.

| Code | Actions |
|---|---|
| a method writes its command | `Send` |
| no connection and no offline queue (outside the development scope) | `NotConnected` |
| `withReadTimeout`, and the client's `commandTimeout` | `Timeout` |
| the reply settles the promise, or nobody waits for it any more | `Receive` |
| `withRetry` | `FailAttempt`, with `Attempts` and `AnswerOnFailure` |
| Redis executes a command, a TTL is over | `Execute`, `Expire` |
| ioredis reconnects and sends the unfulfilled commands again, or drops them | `Reconnect` |

`set` stands for `setDedup`, `setCursor` and `blacklistJwt`, `exists` for `get`,
`ttl`, `hasDedup` and `isJwtBlacklisted`: they fail in the same way.  In the
development scope commands without a connection wait in the offline queue and
time out there: `Send` and `Timeout`.  The history variables are `taken` (the
callers whose key was removed by a TTL or by the `DEL` of another), `acked`
(keys whose SET was answered OK) and `known` (callers that began an `exists`
after such an answer).  A lock's TTL is over only when nobody uses the key any
more, unless the event `lockTtl` is on.

### 2.4 Requests: state and actions against the code

`stage` is how far a request is, `context` its CLS store, `user` what the guard
has put on the request, `header`, `log` and `answer` what comes out of it.

| Code | Action |
|---|---|
| what never meets the middleware: a path outside the prefix, a body that body-parser refuses | `PassBy` |
| `CorrelationIdMiddleware`, and 404 for a path under the prefix without a method | `Enter` |
| `JwtAuthGuard` up to `verifyAsync` | `VerifyJwt` |
| `checkBlacklist` and what the guard does after it | `CheckBlacklist`, `Admit` |
| `ApiKeyGuard`, `MonitoringAuthGuard` | `GuardController` |
| `ObservabilityInterceptor` before the method | `Intercept` |
| `ValidationPipe` and the parameter pipes | `TransformInput` |
| the method, `ResponseTransformInterceptor`, `tap` and `catchError` | `Handle`, `Succeed`, `Fail` |
| `HttpExceptionFilter`, `mapStatusToErrorCode` | `Refuse`, `ErrorCode` |

`Routing` is the decorators of the routes, one route for each combination.
`MeetsMiddleware` says which requests get ids: Nest mounts `forRoutes('*')`
under the global prefix, and parses bodies before.
Around the requests, a token is blacklisted (`BlacklistJwt`), expires
(`ExpireToken`), its entry expires (`ExpireEntry`), and Redis goes and comes
(`RedisChanges`).  `called` and `before` are history.

### 2.5 Codes: state and actions against the code

A pattern is cut into pieces: text, one of the three kinds of placeholder, or a
piece in braces that mixes kinds.  `Language` is every code a pattern can give,
`Estimate` is `estimateMaxUniqueCodes`, `ValidateCodePattern` the rule of 80 per
cent.  The code writes its three regular expressions twice, to replace and to
count, and so does the model: `Replacements` says what takes the place of a match,
`Matches` what a match counts, and `EstimateIsExact` holds only while they agree.  `GenerateCodes` is `generateCodes` up to the loop, `Draw` once around
the loop, `EndLoop` its end, `InsertCodes` the transaction, which fails for codes
that the column does not hold; `CreateCouponBook`
and `UploadCode` are the other ways in which patterns and codes come in.  Calls
do not overlap here: overlapping ones are the subject of `CouponBooksService`.

### 2.6 How the parts meet

* **Coupons and books** share the tables.  What CouponsService sees of the other
  is a new row (part of its initial states, which contain any assigned and
  unassigned coupons) and `isActive` (its action `DeactivateBook`, which waits
  for the row of the book as the UPDATE does).  What CouponBooksService sees is
  nothing it acts on: it reads neither statuses nor assignments, except for the
  statistics of a response.  Their transactions meet on the row of a book as
  well: an INSERT of codes holds it `FOR KEY SHARE` (the foreign key), so a
  redemption of that book fails on `NOWAIT` meanwhile; to CouponsService this is
  one more failing statement, the event `abort`.
* **Coupons and cache.** `CacheFailure` of CouponsService is what a call of
  CacheService can come to: an error that left nothing behind, or one that left
  a key.  `acquireLock` makes both a refusal.  One case is in `CacheService`
  only: a SET NX executed after its caller had given up, and a `DEL` executed
  after the key had gone to somebody else.  `CoreInv` is proved for any content
  of Redis, so it does not depend on the difference; `RedisLockHasOneOwner`
  assumes that Redis answers in time.
* **Books and codes.** `GeneratedCodes` of CouponBooksService is any set of
  distinct codes; `CodeGenerator` is where they come from.
* **Guard and cache.** `redisUp` of the pipeline is whether `isJwtBlacklisted`
  is answered before its last attempt fails.  `FlagSeen` is what the guard
  relies on: the blacklist is never taken for empty because Redis is slow.
* **Services and pipeline.** The classes of answers of the services are the
  exceptions `FailureStatuses` lists and `ErrorCode` translates.

## 3. Runs

Passing runs:

| Run | Instance | Properties and why this instance |
|---|---|---|
| `core_two_coupons` | 2 users, 2 coupons, 2 requests, every operation, known and unknown codes and books; all seven events; two redemptions, one assignment per user | `TypeOK`, `CoreInv`, `RowsLockedByOpenTransactions`, `NoLostRedemption`, `ImplementsLedger`. The inductive invariant and the refinement that are proved; two coupons of one book make the lock of the book's row matter, and the assignment limit is reachable. |
| `apart_lifecycle` | 2 users, 2 coupons, 3 requests, every operation; clock, dedupTtl; two redemptions, one assignment per user; `ApartSpec` | `SoleAssignee`, `RedisLockHasOneOwner`, `SnapshotStillFresh`, `RedeemedMeansUsedUp`, `LockColumnsAgree`, `AvailableMeansUnassigned`, `RedemptionLimit`, `AssignmentLimit`, `RedeemedIsFinal`. The life of a coupon: one request that holds a row, one that is refused by it, and one that comes after. `ApartSpec` leaves out the two overlaps of assignments that no code prevents (`CodesApart`, `CountsApart`); the `doc_` runs below show what they do. Nothing kills a process or a key early, which is when a key has an owner. |
| `liveness` | 1 user, 1 coupon, 3 calls of its holder; crash, redis; `FairSpec` | `EveryRequestEnds`, `RedisLocksEndUpFree`. Three calls let an unlock wait behind one transaction while a third call competes for the row. |
| `books` | 3 books (one with a pattern and a limit, two of one title), 2 codes, 3 requests out of seven calls; abort; `FairSpec` | `CodesReportedOnce`, `TotalCodesTrusted`, `ReportedTotalsHold`, `ImplementsRegistry`, `EveryBookCallEnds`. Uploads in opposite orders deadlock; one holds a code twice; a deactivation saves and a get counts between them; a generation competes for the same codes. |
| `pages` | 3 uploads, of one, one and two rows; limits 1 and 2; three points of time | `PagesTypeOK`, `NextPageIsThere`, `NothingIsSkipped`. Four rows on up to four pages, with two rows of one time, uploads that commit in another order than they began, and two that begin at once. |
| `cache` | 2 callers in 2 processes; a lock, a flag and an active token in buckets of their own; 4 scripts; 2 attempts; all five events; `FairCacheSpec` | `CacheTypeOK`, `GrantIsOwned`, `FlagSeen`, `EveryCacheCallSettles`, `LocksEndUpFree`. Two attempts are one that is given up and one that meets what it did; two connections to one key let commands overtake each other. |
| `pipeline` | 2 requests out of fifteen, one token, two allies, one correlation id that two clients send; all events; `FairPipelineSpec` | `PipelineTypeOK`, `RevokedTokenIsRefused`, `AllyIsAuthentic`, `IdsAreOwn`, `LogTellsTheAnswer`, `EveryRequestIsAnswered`. The inputs reach every route and every refusal, those before the middleware included. |
| `codes` | 2 letters, 2 digits, codes of up to 6 characters, 7 patterns (three are refused, one gives codes of 7 characters), 5 uploads, limits 1, 3, 4 or none, counts 1 to 3, 3 calls, 2 attempts per code; `FairGeneratorSpec` | `CodesTypeOK`, `EstimateIsExact`, `GeneratedCodesFit`, `FoundInAnyCase`, `GenerationEnds`. Patterns of 4 and 8 codes, so that 80 per cent of them is reached and the loop can run out of attempts. |

Runs that show a disagreement between code and documentation; each ends in the
named property violated:

| Run | Property | What the code does |
|---|---|---|
| `doc_double_assignment` | `SoleAssignee` | both of two assignments by code read "available" before either locks the row; the second locks it after the first commits and tests what it read (`coupons.service.ts:402`). The controller says "Code must not be already assigned." |
| `doc_assignment_limit` | `AssignmentLimit` | two assignments of one user are counted before either inserts |
| `doc_double_submit` | `NoDoubleSubmit` | two submits find no deduplication flag, set it both, and redeem one after the other where the book allows two redemptions |
| `doc_total_codes` | `TotalCodesIsExact` | an upload that commits between the two reads of a deactivation has its total overwritten |

Each of the four properties is also the subject of a theorem (section 4), which
says which overlap it takes to break it.

Deadlock checking is off everywhere because requests, callers and calls are
finite in number: a state in which all have ended has no successor.  That nobody
is stuck before is what the liveness properties check.

**Bounds.** They are the constants of each `.cfg`.  Versions, counts and
connections need no cap: every request serves one call, every call makes at most
`MaxRetries` attempts.  `CallBound` caps the calls of `generateCodes`, `LastTime`
the clock of `BookPages`.  Numbers
smaller than in the code: `MaxRetries` 2 for 3 and `AttemptsPerCode` 2 for 10,
because one retry shows all that a second could; `CodeLengths` 2 to 4 for 6 to
32, `ColumnLength` 6 for 32, and two letters and digits, because only whether codes collide and whether
the pattern runs out matters.  The proofs hold for all values.  Symmetry is used
where users, coupons and requests are interchangeable and no liveness property
is checked.  `MCBookOf` puts all coupons in one book: coupons of different books
share nothing.

**Fairness.** Weak fairness of each request's handler: the event loop resumes a
handler whose await has ended, and PostgreSQL grants a row to a waiting
statement when it is free; strong fairness is not needed because the number of
requests that may take the row before it is finite.  For books the handler
includes the deadlock detector, which PostgreSQL runs after `deadlock_timeout`.
Weak fairness of the expiry of each Redis lock key: every `SET NX` has an `EX`.
In `CacheService` the callers send and their timers go off, but Redis need not
answer anything.  In the pipeline every await ends, as `EveryCacheCallSettles`
and `EveryRequestEnds` say of what is awaited there.  In `CodeGenerator` the
loop runs on, since it is synchronous.  No fairness is assumed of failures, the
clock, other clients or the administrator.

## 4. Proofs

All for any finite set of coupons or codes, any users, books, requests (an
infinite set too), calls, scripts, inputs and events.  The assumptions are those
of the specifications: `StoreAssumption`, `FiniteCoupons`, `RequestAssumption`,
`BooksAssumption`, `PagesAssumption`, `CacheAssumption`, `PipelineAssumption`,
`GeneratorAssumption` (types of the constants; a limit is at least 1, as the
DTOs demand, or absent; the values that stand for NULL are no others) and
`ScriptAssumption` (a lock is released right after what it guards, and by who
asked for it, which is how the two `finally` blocks use it).

**Coupons.**  `TypeCorrect` goes action by action.  None of the safety
properties is inductive alone.  `RedemptionLimit` needs that the count a
redemption writes is one more than the current one, which is
`SnapshotStillFresh`; that needs that nobody else writes the row between SELECT
and COMMIT, which is `RowsLockedByOpenTransactions`; `NoLostRedemption` needs in
addition that a request commits once (`CommitIsLast`); and all need what a
handler knows at each label (`OnItsWay`).  `CoreInv` is their conjunction.  The
proof first shows that every action has one of five shapes as seen from the
rows (a handler moves outside a transaction, takes its rows, ends without
writing, or writes and commits; or the environment acts; `StepShape`), and then
that each part of `CoreInv` is preserved by each shape.  From `CoreInvariant`
follow `RedemptionLimitHolds`, `RedemptionsAreCounted`, `SnapshotsStayFresh`,
`AvailableIsUnassigned`, `NoRowLockLeaks` and the refinement
`LedgerImplemented`: under the map `holders <- assignees`,
`used <- redemptionCount` every step of the service is a grant, a use within the
allowance, or a stutter.  None of this mentions Redis: the distributed lock and
the deduplication flag contribute nothing to these properties.

**Calls kept apart.**  What the `doc_` runs refute holds when the overlaps they
show do not happen, and `CouponsApartProofs` proves it.  The overlaps are state
predicates in `CouponsServiceProperties`, each the window between what a handler
checks and what it writes; they are hypotheses about the behaviour, of the form
`Spec /\ []CodesApart => ...`, since no constant could exclude them.

* `CodesApart`: an assignment by code, from its reading of the coupon to its
  commit, meets no other assignment of that coupon that could commit meanwhile.
  Then a coupon that was read as available still is (`CodeFresh`), and on top
  of `CoreInv` the invariant `SoleInv` holds: a coupon has one holder
  (`OneHolder`), a pair without an assignment has no history (`CleanPairs`), and
  the status of a coupon tells the lock columns and the count of its assignment
  (`LockColumnsAgree`, `StatusTellsCount`).  `SoleAssignees`,
  `LockColumnsAlwaysAgree`, `QueriesAgree` and `RedeemedStaysRedeemed` follow.
  `RandomKeepsPromises` states them without the hypothesis where no call assigns
  by code: there `CoreInv` alone gives `CodesApart`.
* `CountsApart`: no two assignments of one user for one book with a limit are
  between their count and their commit.  `LimitInv` says that whoever has been
  let through still has room (`BelowLimit`), of the book its coupon belongs to
  (`KnownBook`, `OwnBook`); `AssignmentsWithinLimit` follows.
* `DedupsApart`: no two redemptions of one pair are between `hasDedup` and
  `setDedup`.  If no flag expires, `SubmitInv` holds (a request past `setDedup`
  has its flag set and has it to itself) and `OneSubmitGoesThrough` follows.

`ApartKeepsPromises` puts the first two together for `ApartSpec`, the
specification of the run `apart_lifecycle`, whose run shows that
the hypotheses are those of many behaviours, with assignments, locks and
redemptions of one coupon that interleave in every other way.  `RedisLocksHaveOneOwner` needs `RedisWorks` (none of the events
redis, ttl and crash) instead, and `RedisInv`, which relates each key to the
label of the request that set it.

**Books.**  `BooksInv` joins the properties of interest with `InsertsDisjoint`
(two open transactions never hold one code, none holds a code of the table: the
unique index) and `BooksOnTheirWay` (only `insertCodes` inserts, a request
commits once, and a save that has read its book as inactive finds it inactive).
Its step shapes: quiet steps, an insert, a commit of codes, a save.
`TotalCodesTrusted` is as strong as the code allows: exact while the book is
active, never too high afterwards, because `save()` can only bring back a
smaller total than the number of codes, and only for a book it deactivates.
`TotalsAreTrusted`, `CodesAreReportedOnce` and `ReportedTotalsAreThere`
follow; the last because codes are never removed.  `RegistryImplemented` is the
refinement of `CodeRegistry` under `books <- exists`, `open <- isActive`,
`bookOf <- bookOfCode`, `total <- totalCodes`: an `InsertBook` is a `Create`, a
`CommitCodes` registers what the transaction has inserted, which `InsertsDisjoint`
says is new, a `Save` closes a book with a total that `TotalCodesTrusted` bounds,
and everything else is a stutter; `BooksFound` adds that a call works on a book
that exists.  `TotalsExactWhenSavesApart` says when the total is exact of every
book: while no `reload` or `save` of a deactivation meets an upload into its book
(`SavesApart`); then what `save()` reads, twice, is what the column has
(`SaveLeavesTotal`), so that it writes nothing there.
`MaxCodesKeptWhenGenerationsApart` does the same for `max_codes`, which two
generations that count before either inserts exceed: while no two of them for
one book stand between count and commit (`GenerationsApart`), each still has the
room it counted (`RoomIsLeft`), and a book with a pattern keeps its limit.

**Pages.**  A row that the client has not been given has at least as many newer
rows as the pages read so far have places (`StillAhead`), because rows only come
in and push older ones down.  `NotGiven` is the step: if a row that is alone at
its time is not on a page, that page is full and all of it is newer.
`PagesTypeCorrect`, `NextPagesAreThere` and `PagesSkipNothing` follow.  The last
has two exceptions, and TLC finds each of them when it is dropped: rows that
share a `created_at`, and a last page whose total was counted before its rows
were read.

**Cache.**  `WireInv` and `OrderInv`: what is on a connection was sent by its
caller, in a step and an attempt it has been in, in the order of the script, and
is answered in that order.  On top of them stand two invariants.  `GrantInv`:
a SET NX on the wire that found no key, of a caller that is still at that call,
has left the key of that caller (`GrantOnWire`), and no `DEL` of an earlier call
of a caller is still on its connection when it is told it has the lock
(`NoStaleDel`): the `DEL` was sent first, so it was executed first.  The `DEL`
of another caller is on another connection, or in another order, which is why
`GrantIsOwned` excepts `taken`.  `FlagInv`: what was acknowledged is in the
store, and no reply to an `exists` that began afterwards is that of an empty
key.  `CacheTypeCorrect`, `GrantsAreOwned`, its corollary `MutualExclusion` and
`FlagsAreSeen` follow.

**Requests.**  `PipelineInv` says of each stage which ids, which lines and which
facts about the token a request has collected (`IdsOnTheWay`, `LogOnTheWay`,
`GuardsOnTheWay`), and that one without ids can only be refused.  The essential
part is that whatever was revoked when a
request arrived stays on the blacklist or has expired since.

**Codes.**  `CodesInv` bounds the loop and says where its codes come from;
`CodesTypeCorrect` and `GenerationFits` follow.  The proof that a transaction
reports every code it was given is a cardinality argument.
`CodesAreFoundInAnyCase` holds for every pattern, not only those of the run:
the characters of a code of the language are those the pieces can stand for
(`WordsSpelled`, `LanguageSpelled`), which `ValidatePattern` restricts to upper
case, digits and marks; normalising them changes nothing (`NormalizeKeeps`), and
what was normalised once stays as it is (`NormalizeTwice`).  A code is a
concatenation of as many words as the pattern has pieces, so that
`LanguageSpelled` needs an induction over that number.  It is done by the least
counterexample (`Least`, `NatSetInduction`), for sets of numbers, where no
operator has to be instantiated.

`EstimatesAreExact` counts the language: choosing from one piece more
multiplies the number of choices by the number of its words (`OneChoiceMore`,
`SelectionsCounted`, the same for the characters of a placeholder, `WordsCounted`),
and different choices give different codes because the words of a piece all have
one length (`FlattenSplits`).  `Estimate` multiplies with a recursive function
(`Product`), also where the code calls `Math.pow`: the provers know no law of
`^`, not even the one that takes `a ^ n` to `a ^ (n + 1)`.  Numbers are exact
here; a JavaScript number is so up to 2^53, which patterns with eleven and more
placeholder characters can exceed (36^11 > 2^53), far beyond what the integer
column `max_codes` holds.

**Only model-checked.**  Liveness (`EveryRequestEnds`, `RedisLocksEndUpFree`,
`EveryBookCallEnds`, `EveryCacheCallSettles`, `LocksEndUpFree`,
`EveryRequestIsAnswered`, `GenerationEnds`): fairness and ENABLED are beyond the
prover.

## 5. Disagreements met without a run

The models contain the behaviours of the first three groups; no run is spent on
them.

Coupons and books:

* A coupon of a deactivated book can be redeemed: the transaction reads neither
  `isActive` nor the dates of the book (`coupons.service.ts:539`), and
  `coupon-books.controller.ts:174` says of such a book "Coupons can no longer be
  assigned or redeemed."
* A lock is never undone when it expires: `lock_expires_at` is compared by
  readers only, the status stays `locked` until an unlock or a redemption.
  `src/modules/coupons/shared/enums/coupon-status.enum.ts:19` says "Lock expires
  automatically after configured duration".  (`LapseLock` is the only thing that
  happens.)  So an answer may say status `locked` and `isLocked` false.
* A redemption that fails keeps its deduplication flag for its TTL, so a retry
  is refused; `docs/TECHNICAL_DESIGN_PROPOSAL.md:1517-1519` deletes it in the
  `finally` block and `:1725` lets the user retry after a rollback.
* Contention on a row is answered with 500: `lock_not_available` is a
  `QueryFailedError`, and nothing maps the codes of `PostgresErrorCode` to a
  status.  `docs/TECHNICAL_DESIGN_PROPOSAL.md:1709` wants 409.  Redemptions of
  different coupons of one book collide too, because `NOWAIT` covers the joined
  row of `coupon_books`.
* Without Redis nothing can be redeemed or locked (`CacheFailure`);
  `docs/TECHNICAL_DESIGN_PROPOSAL.md:1724` promises a degraded mode.
* `max_codes` ("Maximum number of codes allowed in this book") can be exceeded:
  `generateCodes` counts before the transaction that inserts, so that two of
  them overlap (only so: `MaxCodesKeptWhenGenerationsApart`), and `uploadCodes`
  does not look at it.
* Two books of one title can be created at once: no unique constraint backs
  `validateUniqueNameAndDescription`.
* An upload that validated its book before a deactivation adds codes after it.
* The statistics of a book list available, assigned and redeemed codes only
  (`coupon-books.service.ts:315-317`), so that with a locked coupon the total
  exceeds what is listed: `omitted` in `BuildBookResponse`.
* The `totalCodes` of an upload is documented as "Total codes in the book after
  upload" (`upload-codes-response.dto.ts:32`).  It is the total read before the
  transaction and the codes of this call, so two uploads that overlap both tell
  too little (`AnsweredTotal`; `ReportedTotalsHold` is the bound that remains).
* The paging queries order by `createdAt` alone, which all codes of one upload
  share, so that a client may be given a code twice and another never; and they
  count in a statement of their own (the two exceptions of `NothingIsSkipped`).

Cache:

* `acquireLock` is documented to answer false "if already held"; it also does so
  when its own earlier SET NX was applied and the reply came too late, and then
  the lock belongs to nobody until its TTL.
* A `DEL` is not conditional on a value: one that is tried again, or executed
  late, can remove the key of the next holder.
* A TTL of 0 stores a key without TTL: `blacklistJwt(jti, 0)` is for ever.
* `rotateActiveJwt` that is sent again after a reconnect returns the value it
  has itself just stored.
* `acquireLock` answers false whatever fails, except for what `CacheKeyBuilder`
  refuses before its `try` (`cache.service.ts:329`): a path with a code of almost
  500 characters is answered with 500 where another unknown code gives 404.
* `blacklistJwt`, `rotateActiveJwt`, the cursors, `getJson`, `setJson`,
  `getTtlSeconds` and `clearSecretsCache` have no callers in the application.

Requests:

* Not every request has ids: `app.module.ts:59` says that the middleware "ensures
  correlation ID is always available" and `correlation-id.middleware.ts:11` that
  it "Ensures every request has both".  A path outside the global prefix
  (`app.config.ts:8`) and a body that body-parser refuses are answered by the
  filter without a `correlationId` and without the headers (`PassBy`).
* A body beyond body-parser's default of 100 kB is answered with 500, because
  the error is no HttpException.  The "Max 10,000 codes per request" of
  `coupon-books.controller.ts:126` is out of reach with codes of eight
  characters and more.
* The health endpoint is documented to answer 503 when the service is down and
  always answers 200 (`health.controller.ts:18`, `:47`, `:52`).
* `observability.interceptor.ts:16` says it logs every HTTP request; one that a
  guard refuses, or that no route matches, never reaches an interceptor.
* The `errorCode` of a log line is `error.code` or `INTERNAL_ERROR`
  (`request-logger.utils.ts:63`), while the answer carries the code of the body.
* `http-exception.filter.ts:91` relies on StructuredLoggerService for the ids,
  but the filter and the guards use Nest's `Logger`, and nothing calls
  `app.useLogger`.
* `ApiKeyGuard` takes `body.clientId` as the ally before it checks the key, and
  every route with a DTO then refuses a body that has one.
* `POST coupons/assign/random` and `assign/:code`, `:code/lock` and
  `assign/:code` overlap: a coupon with the code `RANDOM` cannot be assigned,
  nor one with the code `ASSIGN` locked.
* `coupons.controller.ts:30` says all endpoints require a JWT; `assign/random`
  takes an API key.
* A revoked token that expires between its verification and the look at the
  blacklist is accepted once more (the exception in `RevokedTokenIsRefused`).
* Outside the development scope the application does not start: SecretsService
  is a stub that returns undefined.  Secrets would be cached for ever, where
  `secrets.service.ts:11` speaks of the latest values.
* StructuredLoggerService is one instance for all classes; its context is that
  of whoever called `setContext` last.

Codes:

* `{*}` is advertised, and refused by both the DTO and `validatePattern`.
* `{X9}` is accepted as a placeholder and never replaced, so that codes contain
  braces; generated codes may also be shorter than the six characters an upload
  needs.
* A pattern may have 100 characters (`create-coupon-book.dto.ts:69`), a code has
  at most 32 (`coupon.entity.ts:39`): a book whose pattern gives longer codes is
  created, and every generation for it ends in 500 with nothing inserted
  (`ServerError` in `InsertCodes`).

## 6. Not modelled

* The bodies of responses other than the fields a property is about.
* `healthCheck`, `ping`, `getJson`, `setJson` and `onModuleDestroy` of
  CacheService: one command without consequences, or the end of the process.
* The error that `CacheKeyBuilder.validate` throws for an empty key and for one of
  more than 512 characters.  It comes before the first command of an operation,
  so it changes nothing.  No key of a coupon or of a token is like that: codes
  have at most 32 characters in the table, and the subject and the id of a token
  that AuthService signs are short; only the code in a path, whose length nothing
  limits, can be too long.
* Signing and verification of tokens (a library), the mock that checks
  credentials, comparison of keys in constant time.
* The rules of class-validator beyond codes, patterns and `clientId`: whether a
  pipe refuses an input is a field of the input.
* CORS preflights and the pages of Swagger, which no part of the pipeline sees.
* Log levels, masking, the format of a line.
* EnvironmentService and SecretsService: the secrets come from a stub that
  returns nothing, so the cache is never filled; a model would be of code that
  does not run.
* Database and cache options, Swagger decorators, the environment schema: built
  or evaluated once at startup.
* PostgreSQL and Redis themselves are modelled as far as the code uses them
  (row locks at READ COMMITTED, the unique index, SET NX EX, DEL, the order of a
  connection), marked external in `PROJECT.json`.

## 7. Plan

Done: coupons, books, pages, cache, requests, codes, and the invariants above.  Left,
in the order of importance:

1. A specification of CouponsService over CacheService's commands, so that the
   outcomes of `CacheFailure` become a refinement that is checked, and the late
   `DEL` of one request meets the critical section of another.
2. Runs of their own for the two theorems about books that have a hypothesis
   (`SavesApart`, `GenerationsApart`) and for `DedupsApart`.
