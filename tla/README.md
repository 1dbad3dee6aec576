# MLedger backend: a TLA+ verification development

MLedger keeps the share ledgers of companies: a NestJS service over TypeORM and
PostgreSQL. This directory holds TLA+ modules of the parts of it where requests
interleave, TLC configurations that check them on small instances, and proofs,
checked by TLAPS, that hold for every instance.

Paths below are relative to the service's own `src/` (for example
`modules/shares/shares.service.ts`); `docs/` is the repository's.

## 1. Inventory

Every HTTP request is an asynchronous handler of one Node process. Between two
`await`s nothing else runs; at every `await` any other request may. There may be
several processes. PostgreSQL runs at its default level, READ COMMITTED: each
statement sees what was committed when it started, and a transaction's own
writes are invisible until its commit. So the state that matters is the committed
rows, and for each request the statement it is waiting for and what it remembers
from the earlier ones.

| Component | State | Operations | Hard behaviour |
|---|---|---|---|
| Share ledger writes (`modules/shares`) | `share_transactions` (insert only), `share_certificates`, audit rows | `issueShares`, `transferShares` | check and insert are several statements; row locks, cycles of lock waits; a clash of certificate numbers; rollback of a half-done transaction |
| Company-active guard (`companies/guards`) | reads `companies.status` | before each ledger write | the status read is not protected until the handler commits |
| Company status (`platform/companies`) | `status`, three suspension columns, audit rows | `updateStatus` | two administrators at once; `repo.save` writes only the columns that differ from a second read |
| Cap table (`modules/cap-table`) | an in-memory response cache with a 30 s lifetime | `GET cap-table`, `invalidateCapTable` | three queries see three ledgers; a read overtaken by a movement stores its result after the invalidation; a crash before the invalidation |
| Shareholder balance (`modules/share-transactions`) | none | `GET balance` | two queries with movements between them |
| Connection pool (`app.module.ts`, node-pg) | free connections, a queue | every query and transaction | a query outside the transaction that is made inside it: hold and wait |
| Sessions (`modules/auth`) | `user_sessions` | `register`, `login`, `refresh`, `logout`, `revokeAllSessionsForUser`, cleanup | double refresh, revocation racing creation, `save` of a deleted row |
| Onboarding (`companies.service`, `platform-companies.service`, `users.service`) | `companies`, `users`, memberships | `createCompanyWithAdmin`, `onboardCompany`, `register` | check-then-insert on e-mail, name and registration number; inserts that wait for another transaction's key; two spellings of an e-mail |
| Memberships and guards (`modules/company-users`, `common/guards`) | `company_users` | `createMembership`, the tenant guards | check-then-insert; audit row in a second transaction; the membership a guard found is used to the end |
| Shareholders (`modules/shareholders`) | `shareholders` | `create`, `update`, `list` | `repo.save` of an entity read earlier; audit row in a second transaction |
| Audit log (`modules/audit-logs`) | `audit_logs` (immutable) | `log`, paged listings | written inside some transactions and after others; pages cut from an order with ties, by two queries, while rows are added |
| Seed (`database/seeds`) | all tables | `run` | repeated over any earlier state, by several operators, beside the application |
| Migrations (`migrations`) | the schema | run, revert | any number forth and back, with the application's data in the tables; what a revert loses |
| Listings, dashboard, health, bootstrap, exception filter | none | read-only or formatting | paging as in the audit log |
| `share-classes`, `certificates`, `subscriptions`, `telegram-bot` | none | none: empty modules | none |

How they interact:

- **Status → ledger.** `CompanyActiveGuard` reads the status once; a suspension
  afterwards does not stop an admitted request.
- **Ledger → cache.** A movement deletes the cap table's cache key *after* its
  commit, as a separate step of the request.
- **Ledger → pool.** `issueShares` holds the connection of its transaction and
  asks the pool for a second one to sum the issued shares.
- **Everything → audit log.** Ledger writes and status changes write the audit row
  in their transaction; memberships and shareholders write it later.
- **Onboarding → sessions, memberships.** A user is created with a company; the
  guards read the membership, login the user.
- **Memberships → everything of a tenant.** The guards of a tenant's routes find the
  caller's membership once; the handler checks with it which rows are its company's
  and names it in the audit rows it writes at the end.
- **Operators → database.** The seed and the migrations run from the command line, in
  processes of their own: they meet the application only in the database, in its
  unique keys and table locks.

What makes each component correct:

- *ledger*: nobody sends more than it has; a company issues at most its authorized
  capital over its par value; a movement, its certificate and its audit row exist
  together or not at all; every call ends although transfers wait for locks;
- *status*: only allowed transitions; the suspension columns agree with the status;
  the audit rows are a history of the status; archived is final;
- *cap table*: what is cached is the ledger of some moment, becomes right when
  the ledger rests, and a balance is not overstated;
- *pool*: connections are conserved and somebody can always go on;
- *sessions*: one refresh token gives at most one new session, a revoked session
  stays revoked, revoke-all leaves none that existed before it;
- *onboarding*: no company without its owner, no person with two accounts, and
  requests that wait for each other's keys do not wait in a circle;
- *members*: at most one membership per user and company, one audit row each, and
  nobody acts for a company without being in it;
- *shareholders*: the audit rows tell how a row got its values;
- *audit listings*: who reads all the pages has read every row;
- *seed*: a second run changes nothing, and the rows it makes are those the
  application would have left;
- *migrations*: the next run and the next revert succeed, and end in one schema.

## 2. Plan

Done, in this order (the ledger first, being what the program is for):

1. `CompanyLifecycle`: the lifecycle as functions.
2. `ShareLedger` (abstract) and `SharesService` (detailed), `MCSharesService`,
   `SharesServiceProofs`.
3. `StatusRegister` (abstract) and `CompanyStatus` (detailed),
   `CompanyStatusProofs`.
4. `CapTable` and `MCCapTable`, over the movements of `ShareLedger`;
   `CapTableProofs`.
5. `ConnectionPool` and `ConnectionPoolProofs`.
6. `SessionRegister` (abstract) and `Sessions` (detailed), `MCSessions`,
   `SessionsProofs`.

7. `TenantRequests` with `Onboarding`, `Members`, `Shareholders` and `AuditListing`
   over it, composed by `Tenancy` and compared with `TenantDirectory` (abstract);
   `MCTenancy`, `TenancyProofs`.
8. `Migrations`, `Seed` over it, and `Deployment`, which runs both beside the
   application; `MCDeployment`, `DeploymentProofs`.

9. `Sums` with `SumsProofs`: sums over finite sets, for `SharesService` and
   `CapTable`; proofs of every invariant the runs check.

Every invariant, action property and refinement that a passing run checks is a
theorem now. What is left to model checking is named at the end of section 6.

## 3. Modules and the code

```
CompanyLifecycle ──────┬──────────────────────────┐
                       │                          │
ShareLedger ◄─refines─ SharesService      CompanyStatus ─refines─► StatusRegister
    ▲                  │        ▲                 ▲
    │ INSTANCE         MCShares │                 │
CapTable               Service  SharesService-    CompanyStatus-
    ▲                           Proofs            Proofs
MCCapTable, CapTableProofs              ConnectionPool ◄── ConnectionPoolProofs

SessionRegister ◄─refines─ Sessions ◄── MCSessions, SessionsProofs

                ┌─ Onboarding ───┐
                ├─ Members ──────┤
TenantRequests ◄┼─ Shareholders ─┼─◄ Tenancy ─refines─► TenantDirectory
                └─ AuditListing ─┘     ▲
                                       MCTenancy, TenancyProofs

Migrations ◄── Seed ◄── Deployment ◄── MCDeployment, DeploymentProofs
                ▼
         CompanyLifecycle

Sums ◄── SharesService, CapTable
Sums ◄── SumsProofs ◄── SharesServiceProofs, CapTableProofs
```
An arrow without a word points to the module that is extended.

### CompanyLifecycle
`ALLOWED_TRANSITIONS`, `ValidTransition` (where
`assertValidCompanyStatusTransition` does not throw) and `AuditActionFor`,
from `platform/companies/company-status-lifecycle.ts`.

### SharesService and ShareLedger
One action per awaited statement of a handler:

| Action | Code (`shares.service.ts`) |
|---|---|
| `Call` | `CompanyActiveGuard.canActivate`, then the handler starts |
| `FindShareholder` | the company and shareholder lookups, 29-43 |
| `SumIssued` | `getTotalIssuedShares` (99-110) and the comparison (45-57) |
| `CommitIssue`, `CertificateClash` | the three inserts and the commit; the unique `certificateNumber` |
| `ScanSenderRows`, `LockRow`, `LocksGranted` | the `FOR UPDATE` query, 120-130: its snapshot, each lock, its answer |
| `DeadlockVictim` | PostgreSQL aborting one transaction of a cycle of waits |
| `SumReceived`, `SumSent` | 132-158, with the balance check |
| `CommitTransfer` | 160-187 up to the commit |
| `Abort` | any statement failing: the rollback |
| `ChangeStatus` | another request's committed `updateStatus` |

A row of `share_transactions` is named by the request that inserted it. The
totals `received`, `sent`, `issued` are what the `SUM` queries return;
`LedgerMatchesTotals` ties them to the rows, with `Total` of `Sums`: the sum of
`f` over a finite set is the number of its units, `f[x]` of them for each `x`. Uncommitted inserts are invisible to
everybody, so the inserts of a transaction are one action with its commit. A
`FOR UPDATE` query returns rows of its own snapshot and locks them one at a time
in no particular order; ledger rows are never updated, so no row of it has to be
checked again when its lock is granted. The two handlers lock nothing else that
conflicts (foreign keys take `KEY SHARE` locks). `ExceedsAuthorized` compares
`total * parValue > authorizedCapital` instead of dividing: every path that
creates a company sets `parValue` to 1, for which the two agree.

The deletion of the cache key after the commit belongs to `CapTable`, connections
to `ConnectionPool`.

`ShareLedger` is the promise: an issue or a transfer is one step, checked against
the ledger as it stands at that step.

### CompanyStatus and StatusRegister
`Load` is `findOne`, the validation and the assignments (`updateStatus`,
193-232); `Diff` the second read `repo.save` makes; `Commit` the `UPDATE` of the
columns found to differ, the audit row (`AuditEntry`, 236-252) and the commit.
`UPDATE` and commit are one action because the row lock is held from one to the
other and what was written is invisible between them. The request stands for the
time in `suspendedAt`. `StatusRegister` is the promise: one step changes the
status, as the lifecycle allows from the status it replaces, together with the
suspension columns, and leaves one audit row.

### CapTable
`Lookup` is the cache interceptor; `SumIssued`, `SumReceived`, `SumSent` the three
queries of `getCapTable` answering in any order; `Fill` the computation and the
storing of the response; `Commit` any step of `ShareLedger` (so what holds of `CapTable`
holds until one of the ledger's two races has happened, `Lapsed`); `Invalidate` the
`invalidateCapTable` after it; `Expire` the time to live; `FirstSum`,
`SecondSum` the two queries of `getShareholderBalance`; `Fail` and `Restart` the
loss of a request and of the process with its cache. `Hundredths` is
`Math.round(x * 100) / 100` of the percentage, counted in hundredths of a percent.

### ConnectionPool
The pool of node-pg as `app.module.ts` leaves it: a fixed size, a first-come
first-served queue, no time limit. A request asks for a connection for the
guard's query, for its transaction, and, if it issues shares, for the sum inside
it. The pool itself is outside the repository, and `Serve` models it from how it
is used and documented.

### Sessions and SessionRegister
One action per awaited statement of `auth.service.ts`:

| Action | Code |
|---|---|
| `Register`, `InsertUser` | `register`, 32-38, and `UsersService.createUser` with the unique e-mail |
| `Login` | the lookup and the password, 64-77 |
| `Create` | `generateTokensAndSession`: one transaction, so one action |
| `Refresh`, `Logout` | the verification of the token, 94-120 and 163-189 |
| `Find` | `findOne` and what is checked of its answer: 122-145 and 191-212 |
| `RevokeAll`, `FindAll` | the call of `revokeAllSessionsForUser`, and its `find`, 234-245 |
| `Load`, `Write` | the two halves of `repo.save` (146, 213, 247) |
| `Expire`, `Cleanup` | the time in `expiresAt`; `cleanupExpiredAndRevokedSessions` |
| `Fail` | a statement failing, or the end of the process |

Nothing calls `revokeAllSessionsForUser` and `cleanupExpiredAndRevokedSessions` at
this commit; the model lets both be called at any time.

A session has the name of the request that created it. `repo.save` first selects
the rows of its entities, then updates those it found and inserts those it did
not: a session the cleanup deleted in between comes back, revoked. The entities of
`revokeAllSessionsForUser` were read without their user, so their insert fails and
nothing is revoked. A token that verifies and names a row matches its hash, both
being from the transaction that created the row, so the comparison of hashes is
left out, and so are tokens that do not verify.

`SessionRegister` is the promise: `Take` and `Give` are the two halves of a
rotation, and `EndAll` also ends what a refresh in between would still give.

### Tenancy and TenantDirectory
`TenantRequests` holds what the handlers share: the tables, the guards
(`PassGuards` is `CompanyMembershipGuard` followed by `CompanyRolesGuard`), the
audit rows, and `Abort`, which is any statement failing. Four modules extend it with
one action per awaited statement, and `Tenancy` is their disjunction over any number
of requests:

| Module | Action | Code |
|---|---|---|
| `Onboarding` | `Register`, `InsertUser` | `register` of `auth.service.ts`, `createUser` of `users.service.ts` |
| | `StartFounding` | the start of `createCompanyWithAdmin` and of `onboardCompany`: the look-up of the owner's e-mail |
| | `InsertCompany`, `InsertOwner` | the two inserts that wait for keys |
| | `CommitFounding`, `RollbackFounding` | the membership, the audit rows, and the commit; or the refusal of an initiator who is no user |
| `Members` | `Invite` | the guards and the call of `createMembership` |
| | `CheckMember`, `InsertMember`, `LogMember` | its look-ups; the insert; `log` in a second transaction |
| `Shareholders` | `AddHolder`, `InsertHolder`, `LogCreate` | `create` |
| | `EditHolder`, `FindHolder` | `update`: the guards; `findOne` and `Object.assign` |
| | `ReloadHolder`, `WriteHolder`, `LogUpdate` | the two halves of `repo.save`; `log` with the changes |
| `AuditListing` | `Walk`, `WalkAll` | a client that starts to read a company's, or all, audit rows |
| | `ReadPage`, `CountRows` | the two queries of `getManyAndCount` for a page |

A user is its e-mail: a person's address in the spelling `trim().toLowerCase()`
gives or in another one. A membership is its company, user, role and status, and
no code changes one. A company's name stands for its registration number too, both
being unique and of the same request. A shareholder is named by the request that
created it; of its columns the model keeps one that is unique (`email`) and one that
is not (`address`). `began` numbers the transactions that write audit rows in the
order in which they start, which is what `createdAt` (`now()`) sorts by: of two
rows the one committed later can sort first, and the two rows of one onboarding
tie. `CompanyActiveGuard` may find the company active or not at any time
(`CompanyNotActive`), `CompanyStatus` being the module about that.

`AwaitsCompany` and `AwaitsUser` are PostgreSQL's wait of an insert for another
open transaction with a row of its key. `Die` ends a request at any statement: a
transaction leaves nothing, and a request between its two transactions leaves the
row without its audit row (`"unlogged"`).

`TenantDirectory` is the promise: a person enrols once, a company is founded together
with its owner, and an active owner admits others, each once.

### Migrations, Seed and Deployment
`Migrations` has the ten migrations as functions on a set of schema objects: `Up` and
`Down` what they make of it, `UpSucceeds` and `DownSucceeds` where none of their
statements fails, `Run` and `Revert` the two commands of `package.json`, of which
`Run` applies what a release ships in one transaction.

`Seed` is one run of `npm run seed`, a statement at a time, all in one transaction:

| Action | Code (`seed.service.ts`) |
|---|---|
| `Begin` | `run`: the transaction |
| `FindSuperAdmin`, `InsertSuperAdmin` | `ensureSuperAdmin` |
| `FindCompany` | `ensureSeededCompany`: the look-up of the registration number and of the owner |
| `InsertCompany`, `InsertOwner`, `InsertOwnership` | its inserts; the membership with the audit rows, `seedStatusAuditIfNeeded` included |
| `FindActive` | the look-up of the active company after the loop |
| `FindMember`, `InsertMember`, `FindPlace`, `InsertPlace` | the loop over the extra members |
| `Commit`, `Die` | the end of the transaction |

The definitions (`SEED_COMPANIES`, `SEED_EXTRA_MEMBERS`) are those of
`seed-definitions.ts`, which matter to what can clash. A run sees the committed rows
and its own (`own`).

`Deployment` lets any number of runs, the migrations, and the commits of the
application happen in any order: `Register`, `Found`, `Invite` and `ChangeStatus`
are each one step here, because what is inside them is in `Tenancy` and
`CompanyStatus`. Such a step waits for a run of the seed that has inserted a row of
the same key and not committed it: the e-mail of a user (`Held`), the registration
number or the name of a company (`SameCompanyHeld`), the two ends of a membership. A migration waits for the runs of the seed that have used the
tables it locks (`NotLocked`), and a revert takes the rows of a dropped table and
the values of dropped columns with it (`Kept`, `SuspendedAfterRevert`). Four
variables are history that the properties need: `settled` and `expected` (a run has
committed, and a run that started since may be expected to find its rows),
`disturbed` (a run that will commit without the extra members although their company
has been founded in the meantime) and `lost` (companies whose audit rows or
suspension columns a revert dropped).

## 4. Runs

| Run | Configuration | Expect | Shows |
|---|---|---|---|
| `shares` | `Shares.cfg` | pass | what locks and checks do give; refinement; every call ends |
| `shares_double_spend` | `SharesDoubleSpend.cfg` | `NoDoubleSpend` violated | two transfers of a sender without rows |
| `shares_over_issue` | `SharesOverIssue.cfg` | `WithinAuthorized` violated | two issues on one total |
| `company_status` | `CompanyStatus.cfg` | pass | refinement, audit trail, settling of archived companies |
| `company_status_archived` | `CompanyStatusArchived.cfg` | `ArchivedIsFinal` violated | an archived company becomes active again |
| `cap_table` | `CapTable.cfg` | pass | when a cached cap table may be stale or torn; convergence |
| `cap_table_fresh` | `CapTableFresh.cfg` | `NextGetIsFresh` violated | a stale store after the invalidation |
| `pool` | `Pool.cfg` | pass | connections conserved, every request answered |
| `pool_exhausted` | `PoolExhausted.cfg` | `EveryRequestAnswered` violated | hold and wait of all connections |
| `sessions` | `Sessions.cfg` | pass | what is revoked stays revoked, also through a `save` that inserts; refinement |
| `tenancy` | `Tenancy.cfg` | pass | memberships and audit rows agree, tenants are apart, no circle of waits, what a walk through pages misses; refinement |
| `deployment` | `Deployment.cfg` | pass | migrations forth and back, seeds at once and repeated, what a status leaves behind; every seed ends |

Each property has a counterpart in the modules: a definition whose comment begins
with "Variant:" is a plausible mistake in the action below it, and putting it in
that action's place makes TLC report the property. They are never used by a
specification.

### Properties

*SharesService.* `SendersExclude`: two transfers of one sender are not both past
their locks if each had a row to lock. `GuardedNoDoubleSpend`: a balance is only
negative after a transfer that locked nothing. `SerialWithinAuthorized`: the
capital is only exceeded after an issue that committed on a changed total.
`Documented`: movement, certificate and audit row go together.
`LedgerMatchesTotals`: the totals are those of the committed rows, and shares are
neither made nor lost. `FrozenWhenDrained`: an
inactive company without admitted requests has a frozen ledger. `EveryCallEnds`:
no lock wait lasts. `ImplementsShareLedger`: until one of the two races happens
(`Lapsed`), every movement is one checked step of `ShareLedger`.

*CompanyStatus.* `ImplementsStatusRegister` and `AuditTrailReplays` until two
requests overlap (`raced`); `AuditsAllowed` and `ArchivedSettles` however they
overlap.

*CapTable.* `StaleOnlyByOverlap`, `CapTableAddsUp`, `BalanceNotOverstated`,
`CacheConverges`.

*ConnectionPool.* `ConnectionsAccounted`, `SomebodyRuns`, `EveryRequestAnswered`.

*Sessions.* `RevokedForGood`: a revoked or deleted session is never valid again.
`LateRefreshRefused`: a token that was dead when it came gives no session.
`RevokeAllSticks`: a revocation of all sessions that returned has ended all those
the user had when it was called. `ImplementsSessionRegister`: until two requests
overlap on a session (`raced`), a token is good for one new session and ending all
sessions leaves none. After that neither is promised: two refreshes that both read
the session before either saved it give two, and a refresh that saved before a
`revokeAll` gives its session after it.

*Tenancy.* `WaitsEnd`: no circle of requests each waiting for a key of the next.
`MembersAccounted`: a membership is the only one of its user and company and has
exactly one `MEMBER_ADDED` row, except where the code can leave it without (a
request between its two transactions or dead there, a founding without initiator).
`ActorsBelong`: an audit row that names a membership was caused by that active
member, in a role that the route allows, about something of that company; a row of
`createCompanyWithAdmin`, whose actor cannot be a member yet, names the new owner's
membership, and the owner is never the actor.
`ShareholderTrailReplays`: the newest audit row that names a column of a
shareholder gives its value, and without one it is as it was created, until an update
reads the row while `create` or another update has not logged yet (`Busy`), or an
update is not logged at all.
`PagesMissOnlyTies`: a walk through all pages misses no row there was when it
began, except rows of one transaction, which tie.
`ImplementsTenantDirectory`: every committed change is a step of
`TenantDirectory`, until an e-mail is stored as it was typed
(`createCompanyWithAdmin` does not normalise it): then a person can have two accounts.

*Deployment.* `MigrationsRepeatable`: the next run and the next revert always find
what they need, and all ten migrations give one schema whatever was reverted before.
`RerunIdle`: a run that starts after another has committed inserts nothing
(`seed-definitions.ts:4`, "idempotent re-runs"), under three provisos the code
needs: no table was dropped since, no two users share an address in two spellings
(the look-up of an extra member takes either of them, and adds a second membership
when it takes the other one), and the application did not found the active company
after the earlier run looked for it. It does not say that a run completes what is
missing: a company whose registration number or owner is there is skipped with
everything that belongs to it. `StatusExplained`: a company that is not active has
the audit row that says so, and the suspension columns are those of the suspended
companies, the seed's rows and the application's alike, unless a revert dropped
them. `EverySeedEnds`: two runs that wait for each other's rows do not wait for
ever.

### Bounds, and why they are enough

- `shares`: two companies, three shareholders (two of one company, one of the
  other), six different calls. acme's limit of two and a half shares makes two pairs
  of issues that only fit one at a time. TLC starts from two states the
  specification reaches: an empty ledger with three requests to come, which is what
  the double-spend takes (a receipt and two transfers of the same sender), and a
  ledger of two issues with two requests to come, which is what a cycle of lock
  waits takes (two rows, two transfers). One start with four open requests would
  contain both but is too large. `CertNumbers` has three values, so that numbers
  clash.
- `company_status`: three requests, two administrators, one reason: three changes
  reach `SUSPENDED` and leave it again while a third overlaps, so that the columns
  of two requests mix. `audits` grows by one a request and so needs no bound. The
  violation needs only two requests.
- `cap_table`: one holder in the company and one of another, who can receive by
  transfer; two movements of 1 or 3 shares and two reads, so that percentages
  are rounded (1 of 3) and a read can be overtaken by both. `Expire` and `Restart`
  may happen at any time and any number of times.
- `pool`: two issues and two transfers on three connections: more requests than
  connections, fewer issues than connections. `pool_exhausted` has as many issues
  as connections; the size 3 stands for 10.
- `sessions`: four requests of two users: a login, and three more of which two
  can race while the third has created a second session. Requests and users are
  symmetric: nothing tells one from another, every variable and every set the
  properties speak of is built from them, and no liveness is checked.
- `tenancy`: six requests, three of them over from the start and three free to make
  any of eighteen calls. As in `shares`, TLC starts from states the
  specification reaches: a new installation, in which foundings clash on a person or
  on a name in both spellings; and two companies, each with its owner, one with a
  shareholder, in which invitations, updates and walks overlap. Three free requests
  are what the hazards take: two updates of a row and a walk, or two foundings and a
  registration of the same person. The second state has five audit rows, so that
  with pages of two a walk takes three or four, and a pair of rows that tie can lie
  across a cut. A third state is the second before the shareholder is logged, with two
  free requests, in which updates overtake the log of `create`. The free requests are
  symmetric; nothing else is, and no liveness is checked. 502,080 distinct states.
- `deployment`: two runs of the seed at once, each repeated without a bound; releases
  that end at the ninth and at the tenth migration, so that a database without the
  suspension columns is deployed, used and extended, and every migration
  is reverted; the owner of the active company who may register first, so that the
  seed skips the company; two foundings, one under the registration number of the
  seed's active company, one under a name of the seed and by a person of it in another
  spelling; one status change, of the suspended company. Each of them makes one
  of the properties' provisos or cases happen. The model has no counter, so nothing
  else is bounded. 329,129 distinct states.

Deadlock checking is off in every configuration: each request is handled once, and
a behaviour in which all have been answered ends. That nobody is stuck before is
what the liveness properties `EveryCallEnds` and `EveryRequestAnswered` and the
invariant `SomebodyRuns` say.

### Fairness

Weak fairness, and only of steps the environment owes: that Node goes on with a
handler whose statement has answered, that PostgreSQL answers a statement that is
not blocked, grants a freed lock and breaks a cycle of waits
(`SharesService!Fairness`), that the pool hands out a free connection, that a cache
entry's lifetime passes. Nothing obliges a client to call, a statement to fail, the
process to restart or an administrator to act. In `SharesService` the fairness is of
a request's `Step` as a whole: it lets the deadlock detector choose the victim. In
`Deployment` it is of each run's `SeedStep`, which an insert that waits disables;
`EverySeedEnds` speaks of behaviours in which operators start no more runs from some
moment on (`NoMoreRuns`), since one run could otherwise be overtaken by others for
ever. In `ConnectionPool` it does not oblige the request's transaction to fail.
`CapTable` has no fairness of `Commit`: `CacheConverges` speaks of behaviours in
which, after finitely many movements, none follow.

## 5. What the runs found

Five places where the code does other than it, or its documentation, says; each
is a run above and a finding in `PROJECT.json`:

1. The `FOR UPDATE` of `transferShares` locks the rows that exist. A sender with
   none locks nothing, and a receipt that commits meanwhile can be spent twice
   (`docs/architecture.md:28` promises otherwise).
2. `issueShares` compares a total nothing protects: two issues together exceed
   the authorized capital (`docs/architecture.md:30`).
3. `updateStatus` validates a row read without a lock: a company that was archived
   meanwhile becomes active again (`company-status-lifecycle.ts:38-42`).
4. A cap-table read that began before a movement stores its result after the
   movement's invalidation (`cap-table-cache.service.ts:6-9`).
5. `getTotalIssuedShares` takes a second connection inside the transaction: as
   many issues at once as the pool has connections wait for ever.

## 6. Proofs

All proofs are for any sets of companies, shareholders, requests and calls; they
assume the ASSUMEs of the modules: every shareholder has a company, par values are
positive, a call of `issue` has no sender, a movement has no negative number of
shares, there are finitely many shareholders (a table has finitely many rows), `Nil`
is none of the values it stands beside. The theorems of the pool and of the tenancy
assume finitely many requests.

**SumsProofs.** A `SUM` is modelled as a number of units (`Total`), not by a
recursive definition, so what one more row adds to it (`TotalOne`), what raising one
value does (`TotalRaised`) and that renaming the rows does nothing (`TotalRenamed`)
are facts about cardinalities. Where induction over a finite set is needed after all,
for sums of values that are each nearly proportional (`TotalNear`), it is
`SubsetInduction`: induction stated for a *set* of subsets instead of an operator,
proved from the well-foundedness of strict inclusion.

**SharesServiceProofs.** `AllInv` has four parts, each inductive given the ones
before:

- `LocalInv` (types, and what a request remembers at each stage) gives
  `TypeCorrect`.
- `LockInv`: no row is locked twice, a transfer past `LocksGranted` holds every
  row it matched, and what two transfers of one sender matched are two states of
  one growing set. So if both matched something they matched a common row, which
  only one of them can hold: `LocksExclude`.
- `BalanceInv`: the received total a transfer read is a lower bound, since it only
  grows, and its sent total is exact while it holds its locks, since only a
  transfer of the same sender could change it; so the balance it checked is still
  there when it commits. The absence of double spends is not inductive by itself:
  it says nothing about a transfer that has passed its check and not committed.
  That gives `GuardedTransfersSafe`.
- `IssueInv`: an issue about to commit fits on the total it read; if that is still the
  current total, it fits. That
  gives `SerialIssuesCapped`.

`LedgerRefinement` follows: a commit is `Issue` or `Transfer` of `ShareLedger`, or
makes `Lapsed` true, and no other action changes the totals. Two more theorems need
`LocalInv` only: `MovementsDocumented`, by an invariant that names the documents by
the rows (`Documents`), and `InactiveLedgerFrozen`, since a step of a request concerns
the company of that request (`StepOfOneCompany`) and only an active company
admits one. `LedgerAddsUp` (`LedgerMatchesTotals`) comes from `SumInv`: the rows are
finitely many, each total is that of its rows, and in a company what was issued and
sent makes what was received. A committed row keeps its columns (`RowsStable`), so only
a commit changes such a sum, by the row it adds; it holds whatever the two races let
through, which is why it needs no proviso.

**CapTableProofs.** `Local` says what the requests know; in particular, what a
balance read was told was received is a lower bound of the received total as it is,
which a movement never lowers (`Moves`). With the sent total read last this gives
`BalancesNotOverstated`. `Fresh` adds `PartsCurrent`: while no movement has
overlapped a cap-table read, the answers it has are the ledger as it is. That is why
what such a read stores is the current cap table, which no property about the cache
alone would say, and why only an overlap, or an invalidation still to come, makes a
stored one stale (`StalenessExplained`). `CapTablesAddUp` (`CapTableAddsUp`) adds
`Books`: no balance is negative and the balances of a company are what it issued,
a transfer being one holder's loss and another's gain. An entry stands for a positive
balance, balances of zero add nothing, so the entries add up to what was issued; and
since twice the total times a rounded percentage is within one total of the exact one
(`Rounded`), so is the sum, once for each entry.

**CompanyStatusProofs.** `IInv` says of a pending request what it has loaded and
checked, and that it still agrees with the row while `read[r] = version`. With it
`Overlay` writes the whole entity, and a commit is `Suspend` or `Leave`
(`StatusRefinement`). `TrailReplays` and `TrailAllowed` follow by an invariant on
the audit rows, `ArchiveSettles` as an action property.

**ConnectionPoolProofs.** `PoolInv` adds to the account of connections where a
request in the queue can be. Each action moves a request from `a` connections to
`b`; `CountStep` shows the sum of the two cardinalities changes by as much. If
nobody with a connection could go on, all would be issues waiting for their sum
with one each, so `Max` would be at most the number of issues: `PoolNeverStuck`
assumes it is larger.

**SessionsProofs.** `LocalInv` says what a request knows of its arguments and of
the sessions it has read; `CreatedStable` that a session never changes its user.
From them `Sticks`: no step makes valid an existing session that was not,
because `Write` only inserts rows that it also marks revoked
(`RevocationsStick`). It makes two invariants inductive: `LateOK`, a late token
names a dead session until it is refused (`LateRefreshGetsNothing`), and `KnownOK`,
every known session is dead or among those a revocation of all is about to save
(`RevokeAllEnds`). `OwedOK` adds that until a race no two refreshes owe a session
for the same token, without which `Give` could take one debt for two;
`SessionRefinement` follows, one lemma for each action that changes the register.

**TenancyProofs.** For finitely many requests, and any calls of the types the
handlers take. `Local` is the types and, for each stage of a handler, what its
request knows: the tenant it was given, the row it has read, the key its insert
holds. It gives `TenancyTypes`, and `TenancyWaitsEnd`: who waits for a company waits
for a founding that may wait for an e-mail, but who waits for an e-mail waits for a
founding about to commit, which waits for nothing: every chain of waits has at most
two links. `Keys` adds that every membership has its company and its user, and that
the keys an open founding has inserted are neither committed nor another's;
`Accounted` adds what each request owes to or has left in the trail
(`MembershipsAccounted`). `Causes` ties each audit row to the request that wrote it
and to the tenant of that request; that the initiator of a founding is not its owner
is `Keys`: the initiator is a user, and the owner is not one yet (`TenantsKeptApart`). `TenancyRefinement` shows
that a step of the four tables is `Enrol`, `Found` or `Admit`, or stores an e-mail
as typed; that a person has one account as long as every e-mail is normal is what
makes the promise's guard true.

`InOrder` says that `began` numbers the audit transactions one after the other, so
the next one sorts last. On it stands `Stories`, one for each shareholder no update of
which has overlapped another or the log of `create`: until `create` has logged, nothing
has touched the row; at most one update is under way, what it read is still what is
stored, and the columns it is about to name in the trail are exactly those in which
the stored row will differ from what it read; while none is under way, the trail tells
every column. This gives `ShareholderTrailsReplay`. The property alone is not
inductive: it says nothing of an update between its save and its log. The
attempt to prove it showed the model wrong in one place: `create` writes its audit row
in a second transaction, which an update may overtake, and whose row names the e-mail
too; `LogCreate` and `Busy` are as they are since.

`Walks` is what a walk through pages has of the listing: every row it should have got
and has not is behind the part of the order it has read, that is, at least as many
rows are newer as it has read past, unless the row shares its transaction with
another. Rows are only added (`TrailGrows`), and added rows push a row back, never
forward (`BehindKept`); a page takes the rows next in the order, so those it leaves are
behind it (`CutNewer`). A walk ends when it has read past the number of rows, and no
row is behind all of them: `PagesMissOnlyRowsThatTie`.

**DeploymentProofs.** For any number of runs and any registrations, foundings,
status changes and releases of the declared types. `Local` is the types, that no two
open runs have inserted the same company (`Apart`), and for each stage of a run what
it may have inserted and remembers (`Stage`). It is enough for `StatusesExplained`,
which is inductive beside it: a commit adds companies together with their rows.
`RerunsIdle` needs `Progress`: a run that is at a statement has gone past
definitions that are now covered, by a committed row or by its own (`Reach`,
`Covered`); so when it commits, every look-up of another run would find its row
(`Ready`), and this stays so while `settled` does, which is what the provisos of
`RerunIdle` are for; a run in `expected` therefore takes no branch that inserts.
`MigrationsAreRepeatable` needs `Shaped`, what a schema after n migrations can be: n
decides its tables, types and keys, and not the parts that a revert leaves or brings
back (the values of an enum, the columns the eighth migration drops). Each `up`
and `down` leads from one such schema to the next (`ShapedUp`, `ShapedDown`), and after
the last migration there is only one (`ShapedLast`). The schema after a range of
migrations is a recursive function; as there are ten migrations, a function that
satisfies its equation can be written down, and the equation is all that is used
(`UpgradedSteps`).

Only model-checked: the liveness properties `EveryCallEnds`, `CacheConverges`,
`EveryRequestAnswered` and `EverySeedEnds` (under fairness, which is out of TLAPS's
reach).

## 7. Not modelled

- Access tokens: the service signs them and keeps nothing of them. The guards that
  compare a role in the token (`PlatformRolesGuard`) have no state to interleave with.
- The dashboard (`platform-dashboard.service.ts`): counts and sorted merges of
  several queries, whose answers may be of different moments; nothing is kept of
  them and no code relies on their agreeing. What the conditions
  `{ $gte: from }` of two of the counts mean to the database is a question for a test.
- The lists of companies, users, certificates and transactions: read-only. Those
  that are paged use the code `AuditListing` models.
- `logPlatform` of the audit log has no caller. Three more methods have none at this
  commit, and are modelled for what they promise when something calls them:
  `createCompanyWithAdmin` (`companies.service.ts`), `revokeAllSessionsForUser` and
  `cleanupExpiredAndRevokedSessions` (`auth.service.ts`). Without them, no e-mail is
  stored as it was typed, and a session is ended only by its own token and never
  deleted.
- Rows in what makes a migration fail: `SET NOT NULL` in the eighth migration's `down`
  would fail on an audit row without an actor. Every caller of the audit log names
  one and nothing deletes a user, so there is none, and `DownSucceeds` looks only at
  the schema.
- Validation of DTOs beyond the ranges it guarantees, formatting of answers, the
  exception filter, logging, health, start-up, the empty feature modules.
- Columns of users, companies and shareholders that no guard, key or audit row
  compares; passwords, except where a login or a session depends on them.

A repeated client call is one more request with the same arguments. Multiple
processes are the same as more requests wherever the state is in the
database; the cache is per process, and `CapTable` models one process, with its
restarts.
