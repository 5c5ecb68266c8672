# Verification of account-api

account-api is a NestJS service: REST and GraphQL in front of PostgreSQL (TypeORM) and
Keycloak. It registers users, logs them in, keeps refresh-token chains, and manages apps,
tenants and memberships. This directory holds TLA+ models of its stateful parts, the TLC
configurations that check them on small instances, and TLAPS proofs about all six:
refresh-token rotation, tenancy, identity, the app registry, the processes with their
keys and the topic map. Four of them are also shown to implement an abstract specification.
Source paths are relative to the repository.

## 1. Inventory

| Component | State | Operations that change it | What makes it correct |
|---|---|---|---|
| auth: sessions (`src/contexts/auth`) | table `session` (chain links, revocation, expiry), row locks, pool connections | login inserts a chain root; `rotate()` exchanges a token inside a transaction; the reuse path runs `revokeAllByUserId` | chains never fork; revocation is final; reuse kills what is older than its UPDATE; nobody else is signed out; requests end |
| auth: registration and login | identities in Keycloak, sessions, access tokens | register (Keycloak, then user row), login (verify, look up, reconcile, sign, save) | one local user per identity; orphans only by failure; an orphan is never adopted |
| user (`src/contexts/user`) | table `user`, the shared `UserBuilder` | `CreateUser`, `SetUserPlatformAdmin` | unique email; the admin flag follows the allowlist |
| tenancy (`src/contexts/tenancy`) | tables `tenant`, `tenant_membership`; roles in tokens | create, update, delete a tenant; add a member | unique slugs, one role per member, no orphan memberships, an owner until deletion, tokens grant no more than the table |
| app (`src/contexts/app`) | table `app`, the shared `AppBuilder`, events on the bus | `CreateApp` | unique slugs; an app is never overwritten; events agree with the table |
| core: keys and JWKS | a key pair per process; tokens and cached documents outside | start-up resolves the key; signing; publication | a kid names one key; what is signed is published; ephemeral keys die with their process |
| core: configuration and start-up | the environment a process holds; the recorded migrations | boot, connect, migrate, listen | production runs on configured values only; nothing is served on an old schema |
| core: telemetry and shutdown | requests in flight | SIGTERM: drain, or flush and exit | both orders are modelled, see section 8 |
| core: guards, filters | none (they read tokens, end requests) | - | decide from signed claims |
| messaging: topic map (`scripts/generate-aggregate-module-map.ts`) | a generated file, in the tree and on each branch | generate, `--check`, commit, merge | one map, whatever the scan order; main's map is current |
| transport, read queries, DTOs | none | - | routes appear as the starts of requests |
| migrations | the schema | run at start-up | their constraints are part of the models |
| core: CQRS observability, health, logging | none that the program reads | - | not modelled, see section 8 |

The contexts call each other through the command and query buses, in process and awaited:
auth asks user and tenancy (`UserLookupAdapter`, `UserProvisioningAdapter`,
`UserPlatformAdminAdapter`, `TenantMembershipLookupAdapter`); tenancy asks app and user.
Tables and access tokens are the only state they share; domain events leave through the
event bus of an external kit, which sends them to the topic that the generated map gives, and
nothing in the repository consumes them.

What is hard here:

- *Interleaving at every `await`.* Except in `rotate()`, no handler opens a transaction:
  each query autocommits, and checks and writes are separate queries.
- *Two connections in one request.* The reuse path issues `revokeAllByUserId` on a second
  pooled connection while its transaction holds the presented row's lock.
- *Writes across systems.* Keycloak and the user table are written one after the other.
- *Stale copies.* `repo.save()` saves an aggregate that was loaded several awaits ago;
  guards decide from claims that were signed minutes ago; builders are singletons that
  keep the fields they were last given.
- *Failures between any two steps*, and answers that never arrive; events that are
  published after the save, in no transaction with it.
- *Replicas.* Several processes start, migrate one database and end on their own, each with
  an environment of its own, while their tokens and key documents live on elsewhere.
- *A generated file under version control*, which a hook writes from one tree and a check
  reads from another.

`PROJECT.json` lists these hazards one by one with the line where each bites and the
properties that would catch it.

## 2. Modules

| Module | Models |
|---|---|
| `SessionRotation` | the session table, login insert, `rotate()`, reuse path, PostgreSQL row locks and statement snapshots, the pool |
| `RefreshTokens` | abstract specification: an atomic token store |
| `SessionRotationProofs` | inductive invariant, safety theorems, refinement |
| `Tenancy` | the four tenancy commands, query by query; constraints; roles in tokens |
| `TenantAccess` | abstract specification: who may enter a tenant, changed by atomic operations |
| `TenancyProofs` | inductive invariant, safety theorems for all of it, refinement |
| `Identity` | registration, login, platform-admin reconciliation, refresh lookup, deployments |
| `Accounts` | abstract specification: accounts and privileges, changed by atomic operations |
| `IdentityProofs` | inductive invariant, safety theorems, refinement |
| `AppRegistry` | app creation, event publication and the shared builder |
| `AppCatalogue` | abstract specification: apps that are registered and announced |
| `AppRegistryProofs` | inductive invariant, safety theorems, refinement |
| `Service` | processes from start-up to exit: environment, signing key, migrations, JWKS, SIGTERM |
| `ServiceProofs` | inductive invariant and safety theorems |
| `TopicMap` | the topic-map generator, its hook and check, commits and merges |
| `TopicMapProofs` | correctness of the generator and of merges, inductive invariant, safety theorems |
| `MC*` | symmetry sets for TLC; `MCTopicMap` has the declarations of its instance instead; `MCSessionRotation` also has the chain property, whose recursive function is kept out of the module that is proved about |

Definitions that begin with the comment "Mutant" are faulty variants of the definition
below them. They are not part of any specification: substituted for that definition each
makes one checked property fail, which shows that the property depends on it.

### SessionRotation

A row and the token whose hash it stores are one value, a number in insertion order (hashes
are unique and tokens random). `rows`, `userOf`, `revoked`, `replacedBy` and `expired` are the
committed table; `pc`, `token`, `who` and `succ` are the locals of each request slot;
`running`, `target` and `held` are the `UPDATE` of its reuse path. `builder` is the `revokedAt`
last given to the `SessionBuilder` that all requests share: every load leaves the row's value
there (`LoadedRevokedAt`), and login and rotation set their own (`NewRevokedAt`) before they build.
`roots`, `late` and `accused` are history variables that only properties read.

| Action | Code |
|---|---|
| `StartLogin`, `SaveChainRoot` | `LoginUserCommandHandler`, the session part |
| `StartRefresh`, `BeginTransaction`, `LockByRefreshTokenHash`, `RejectUnknown` | refresh controller, `rotate()`, `SELECT ... FOR UPDATE` |
| `DetectReuse`, `RejectExpired`, `SaveRotation`, `CommitRotation` | the callback of `rotate()`, the two saves, COMMIT |
| `BeginRevokeAll`, `RevokeRow`, `CommitRevokeAll`, `RejectReuse` | `revokeAllByUserId`: snapshot, one row after the other, autocommit; then the exception |
| `ReadClaims`, `Respond` | lookups for the access token, the answer |
| `Expire`, `Crash` | `expires_at` passes; a request fails anywhere, its UPDATE is cancelled or completes unattended |

PostgreSQL and the pool are external and modelled as the code uses them: READ COMMITTED
(`SELECT ... FOR UPDATE` sees the latest committed row once it has the lock; an `UPDATE`
visits the rows of its snapshot in scan order, waiting for each lock), and a pool without
size or timeout settings (`postgres.config.ts`), so waiting for a connection is unbounded.
The two saves inside the transaction are invisible to others until COMMIT and are one step.

### Tenancy

`tenants` and `memberships` are the tables, `claims` the roles in each user's unexpired
tokens, `copy` the aggregate a handler has loaded. Every command is a chain of steps, one
per query. TypeORM's `save()` of a loaded aggregate is a SELECT by id followed by an UPDATE
of the columns that differ, or by an INSERT when there is no row: `UpdateSave`,
`UpdateWrite`, `UpdateInsert`. Constraints of the migration are `SlugConflict`,
`MembershipConflict` and `Cascaded`. `SaveOwner` needs no check of its foreign key: nobody has a
role in the tenant yet with which to delete it (`NoEntryBeforeOwner`). An update names a new
name, a new slug, both or neither; `diff` is the set of columns in which `save()`'s SELECT found the
aggregate to differ, and only those are written, so an update can undo another one's column
although its own command does not mention it. `LostUpdatesNeedOverlap` says when; for that, the
history variable `rewritten` collects, for each update under way, the columns that other requests have
written since it loaded the tenant. `AbandonedForGood` is about what failures leave: a half-created, a
half-deleted or a re-inserted tenant, in which nobody has a role, a token or a request under
way, is closed and keeps its slug for ever. No command repairs it.

`TenantAccess` has the operations that a reader of the routes expects: reserve, found, admit,
close, remove, grant. It has one more, `Revive`, because an update that overlaps a deletion
stores the tenant again; what the abstract specification promises is that this happens only
after an owner's deletion has begun, and brings back no role. `ImplementsAccess` says that every step of the
handlers is one of these or changes nothing.

### Identity

One process; `Deploy` restarts it with any allowlist, set or unset, which kills the
requests under way. Emails stand for users. `flag` is the `platformAdmin` a request has in
hand, `builder` the one last given to the shared `UserBuilder`. Keycloak is external: it creates an
identity or answers 409, and accepts or refuses a password. `lost` records registrations
that failed between Keycloak and the user table.

`Accounts` is what somebody outside may rely on, one atomic step per operation: identify, open,
abandon, appoint, dismiss, log in, renew, expire, deploy. `LogIn` requires the stored flag to be
what the list says and signs exactly that. `Renew` is weaker, because the code is: a refresh that read the
flag before a login took it away signs it afterwards. It does so only for somebody whom the
deployed list leaves out and an earlier one did not; TLC shows that the case happens.

### AppRegistry

`CreateApp` as check, save and publication, `LoadApp` for every read, and `builder`, the id last
given to the shared `AppBuilder`: a save with a left-over id would overwrite that app. `events` is what
the bus has been given; `lost` records the apps whose creation failed after the save, whose
event is never sent. The tenancy handlers publish in the same place.

`AppCatalogue` has three operations. `Register` takes an id and a name that no app has, `Announce` takes an
app off the pending ones and puts it on the bus as it was registered, `GiveUp` takes it off for good. An
app is thus announced at most once, which the history of the bus alone does not show.

### Service

Each process has a program point and, once it is up, `conf`: what it keeps of the environment
it was started with. `Boot` validates (`ValidateEnv`) and resolves the key
(`ResolveSigningKeyPair`); a refused environment leaves no trace. `Connect` reads the recorded migrations
and `Migrate` runs the pending ones in one transaction, which fails when another replica was
faster; the retries of Nest's TypeORM module (`Connect` again) settle it. `FinishRequest` may sign a token,
`FetchJwks` gives a verifier a document, which it may add to an older one. `Terminate` is
SIGTERM: `ExitDrained` is Nest's shutdown, `ExitFlushed` the handler of `telemetry.ts`, which calls
`process.exit` without waiting for requests. A signature is the key that made it. `ConfiguredKey` stands for every PEM that
`createPublicKey` takes; the code does not ask whether it is a private RSA key, and a process that
cannot sign with what it has boots all the same. That is the behaviour of `FinishRequest` in which
no token is signed.

### TopicMap

A tree is a set of declarations (class, module), a file a sequence of lines. `CollectMappings` is
the script, from a scan in any order: `ByClassName` is its loop over the files, which fills a Map,
and `SortedByName` the sort of the entries, given by their ranks. `MapOf` is the reference that it is compared
with; it knows no loop and no order of files. `Commit` runs the hook, which generates from the
working tree while any part of it is staged; `CommitWithoutHook` is `--no-verify`; `PassCheck` is
`gen:topics:check` on the merge of the pull request with main; `Merge` may find a main that has moved, and the
developer goes on from the result. `NewBranch` starts over from main, whatever state it is in. Nothing
checks main itself (`ci.yml` runs on pull requests), so `OthersMerge` may leave anything there: it replaces
the declarations of one class and its line, each by any other, current or not. That the developer's own pull
request is merged only after a passed check is an assumption; branch protection is not in the
repository. git is external: three-way merge, with a conflict where both sides change one class's line.

## 3. Runs

| Run | Instance | Shows |
|---|---|---|
| `session_safety` | 2 users, 2 requests, 4 sessions, one expires, 3 connections, both may fail | `ChainsAreLinear`, `ReuseLeavesOnlyLate`, `NoSelfDeadlock`, `OnlyReuseEndsAChain`, `RevokedIsFinal`, and that the whole implements `RefreshTokens` |
| `session_liveness` | 1 user, 2 requests, 3 connections, fair | `StallsOnlyInReusePaths`: a request can hang only when reuse paths wait for each other's rows, or fill the pool and wait for second connections |
| `session_chain_invalidation` | 1 user, 2 requests | violated: a rotation that commits while the reuse UPDATE runs leaves a live descendant of the replayed token |
| `session_lock_cycle` | 2 requests, 4 connections, fair | violated: two replays of one user wait for each other's rows for ever, in a cycle PostgreSQL cannot see |
| `tenancy_members` | 2 users, 2 names, 1 tenant, 2 requests, owners and members | `OneRolePerMember`, `NoOrphanMemberships`, `LostUpdatesNeedOverlap`, and that the handlers implement `TenantAccess` |
| `tenancy_slugs` | 1 user, 2 tenants, 2 slugs, 2 requests | `UniqueSlugs`, `OwnersUntilDeletion`, `NoEntryBeforeOwner`, `ClaimsNeverExceedRoles`, `AbandonedForGood` |
| `tenancy_ownerless` | 2 users, 1 tenant, 2 slugs | violated: a creation that fails between its inserts leaves a tenant nobody owns |
| `tenancy_resurrection` | as above | violated: an update that loaded a tenant before its deletion inserts it again |
| `identity` | 2 people, 2 requests, any deployments | `ProvisionedOnce`, `OrphansOnlyByFailure`, `IdentityIsNotAdopted`, `AdminsWereAllowed`, `FlagFollowsAllowlist`, `UnsetLeavesFlags`, and that the handlers implement `Accounts` |
| `app_registry` | 3 slugs, 3 requests, 4 apps | `UniqueAppSlugs`, `AppsArePermanent`, `AnnouncedAppsAreStored`, `UnannouncedOnlyByFailure`, and that creations implement `AppCatalogue` |
| `service` | 2 processes, 1 verifier, 2 configured and 2 generated keys, 1 request each, 1 token | `ProductionIsConfigured`, `ServesOnLatestSchema`, `SignedIsPublished`, `EphemeralTokensDieWithTheirProcess` |
| `topic_map` | 2 classes, 2 modules, 3 declarations | `GeneratedIsTheMap`, `MergesKeepTheMapCurrent` |

The four violated properties quote what the repository's documents say; the findings in
`PROJECT.json` give the line of the document and the line of the code. They are stated as
weakly as the text allows: ownerless tenants, for example, count only when no request is
working on them.

`PoolJam`, the second way to hang that `StallsOnlyInReusePaths` names, is as real as the lock cycle:
the pool has 10 connections unless configured, so ten replays that have each opened their
transaction wait for an eleventh. The instance has one connection less than its two replays need.

Two more disagreements met on the way need no run. The tenancy README (line 170) and a
comment in `delete-tenant.handler.ts` (line 44) say that there is no foreign-key cascade,
but the migration (lines 82-83) declares one; `NoOrphanMemberships` rests on it. And the tenancy
routes document 409 for a taken slug, but a creation that passes the check and then loses
the race is answered 500, because a `QueryFailedError` is no `BaseException`.

What else the modelling of start-up brought up, stated here because no text of the
repository says otherwise:

- A `JWT_PRIVATE_KEY` that is no key passes validation; start-up then fails in
  `createPublicKey`. `KAFKA_BROKERS=","` passes too and is parsed into no brokers.
  `FRONTEND_URL="/"` counts as an origin in production and is the empty string.
- A blank OTLP endpoint or interval is rejected by validation, although the code that reads it
  would accept it. `REFRESH_TOKEN_TTL_DAYS` is not validated: text becomes `NaN`, and every login
  fails at its insert.
- JWKS holds the current key only. After a key change a verifier with a fresh document cannot
  verify tokens signed before, so what `SignedIsPublished` says of acceptance is about documents of the signing process.
  `JwtAuthGuard` ignores the kid.
- The pre-commit hook reads the working tree, so a partial commit may carry a map of another
  tree. The check stops it, and a check with main as it is when the merge happens stops everything. A check
  that passed with an older main is enough when the branch, main and the commit where they parted
  are current; otherwise a wrong map can get in. `MergesKeepTheMapCurrent` names these cases, and
  TLC reaches each of the three: it is violated when any of them is left out of the formula.

### Bounds

- Requests are slots that are reused, so any number of requests run one after another and
  two or three at a time. A race between a check and a write needs two. Reuse racing a
  rotation racing a login needs three, which TLC cannot explore together with two users and
  failures; the proofs cover it, for any number.
- `MaxSessions = 4`: a chain of three (root, successor, successor's successor) and a
  second chain, the least for which the lock cycle exists. `Capacity` reserves an id
  for every request under way, so the bound never stops a request in the middle.
- `MaxTenants`, `MaxApps`: ids ever used; the same reservation. Two tenants suffice to
  contend for a slug, one to delete and re-insert.
- `AddedRole` limits the roles that are added: in `tenancy_slugs` roles do not matter, and
  `tenancy_members` needs two that differ, one of which may delete.
- `Name` has two elements only in `tenancy_members`, where updates overwrite each other.
- `MaxExpired = 1` in `session_safety`, 0 where expiry only removes behaviours.
- `Service`: a generated key may be generated again once no process, token or cached document
  refers to it, so two of them stand for any number of restarts. `MaxInFlight` and `MaxTokens` are 1:
  a request is in flight or not, and every property speaks of one token at a time.
- `TopicMap`: `Declaration` limits who can declare what. One class in either module or both, and a
  second in one, have every way to be ambiguous, out of order and out of date; the proofs have no such limit.
  A merge by others that changes several classes is several steps of `OthersMerge`.
- Symmetry is used only in runs without liveness properties, over sets whose elements no
  definition distinguishes.

### Deadlock and fairness

TLC checks deadlock in all runs but `session_liveness` and `session_lock_cycle`: there requests
do not fail, so the wait that the runs are about is a state without a next step.

`Fairness` is strong fairness of every request's and every UPDATE's next step. The pg pool
and PostgreSQL's lock queues are first come, first served and the event loop runs every
resolved await, so a step that is enabled again and again is eventually taken. Nothing is
assumed of clients (they need not start requests), of time, or of failures.

## 4. Proofs

### Sessions

`SessionRotationProofs` proves, for all `User`, finite `Request`, `Failing`, `MaxSessions`,
`MaxExpired` and `PoolSize` (`BoundsAssumption`):

| Theorem | States |
|---|---|
| `TypeCorrect` | `Spec => []TypeOK` |
| `LinearChains` | `Spec => []ChainsAreLinear` |
| `ReuseCoverage` | `Spec => []ReuseLeavesOnlyLate` |
| `SelfDeadlockFreedom` | `Spec => []NoSelfDeadlock` |
| `InnocentKeepTheirSessions` | `Spec => []OnlyReuseEndsAChain` |
| `RevocationIsFinal` | `Spec => RevokedIsFinal` |
| `Refinement` | `Spec => ImplementsTokens` |

None of the properties is inductive alone. `IInv` adds four parts:

- `TableInv`: revoked, delivered and root rows are rows, ids are below `nextId`, and
  only revoked rows have a successor;
- `RequestInv`: what a request may rely on at each point: the row it locked exists; one
  about to commit holds a row that is not revoked and an id that is not a row; a reuse path
  presents a revoked token of an accused user;
- `StatementInv`: what a running UPDATE has: its target is a set of rows of one accused
  user, and contains every unrevoked row of the user that is not late;
- `LockInv`: two transactions never own the same row, a transaction never owns a row that an
  UPDATE holds, and two rotations never have the same successor.

`LockInv` carries the argument. The row lock makes a rotation's view of its row stay true
until COMMIT, so a revoked row is never given a successor (`RevocationIsFinal`) and no
two rotations consume one token (`LinearChains`). `RequestInv` gives
`SelfDeadlockFreedom`: the presented token is revoked before the UPDATE takes its snapshot, so its
row is never in the target. `StatementInv` gives `ReuseCoverage` when the UPDATE commits.

For `Refinement`, live tokens are the rows that are not revoked, spent tokens the revoked
ones, and a token's successor is `replacedBy`; `roots` tells which tokens a login issued, so a
row that appears in any other way must be the successor of one that is spent in the same
step. A login's insert is `Issue`, a rotation's COMMIT `Exchange`, the UPDATE's commit
`Invalidate`, and every other step stutters.

### Tenancy

`TenancyProofs` proves, for all apps, users, slugs, names, finite `Request` and any
`MaxTenants` (`TenancyAssumption`):

| Theorem | States |
|---|---|
| `TypeCorrect` | `Spec => []TypeOK` |
| `SlugsAreUnique` | `Spec => []UniqueSlugs` |
| `OneRoleEach` | `Spec => []OneRolePerMember` |
| `NoOrphans` | `Spec => []NoOrphanMemberships` |
| `OwnersStay` | `Spec => []OwnersUntilDeletion` |
| `HalfCreatedIsClosed` | `Spec => []NoEntryBeforeOwner` |
| `ClaimsAreBacked` | `Spec => []ClaimsNeverExceedRoles` |
| `UpdatesAreLostOnlyInOverlap` | `Spec => LostUpdatesNeedOverlap` |
| `LeftoversStay` | `Spec => AbandonedForGood` |
| `AccessRefinement` | `Spec => ImplementsAccess` |

The six invariants are proved together (`TableInv`), since they need each other, and with three
additions: ids to come are unused and deletions concern completed tenants (`FreshInv`); what a
request relies on at each point (`RequestInv`: a creation before its second insert has a row that
is not owned yet, every other command is about a tenant whose creation completed, a delete's last
step is about a tenant in `deleting`); and no two creations work on one tenant (`CreationInv`).
`NoEntryBeforeOwner` carries the argument: the guard lets somebody through to a tenant only by a token
(`GrantedOwned`), so nobody can delete, update or join a tenant between its two inserts. That
is why the owner's insert meets neither a missing row nor another membership. The constraints
of the migration do the rest: `SlugConflict` for `UniqueSlugs`, `MembershipConflict` for
`OneRolePerMember`, `Cascaded` for `NoOrphanMemberships`.

For `AccessRefinement`, stored tenants are the ids that have a row; roles, tokens and the two histories
stand for themselves. `WritingSteps` sorts out the steps that write, and one lemma for each shows which
operation it is: `SaveTenant` reserves, `SaveOwner` founds, `AddSave` admits, `DeleteMembers` closes, `DeleteTenant`
removes, and an update's write is a stutter or, when the row is gone, `Revive`: by `OwnersUntilDeletion` a
completed tenant without a row is one under deletion. That the deleter still owns the tenant when the
bulk delete runs, an await after the assertion, needs an invariant of its own, `DeleterInv`, which rests on
`MembershipsStay`: a membership is lost only to the deletion of its tenant. The run has one tenant;
that a deletion leaves other tenants alone is shown by the proof.

`UpdatesAreLostOnlyInOverlap` needs `OverlapInv`: while an update is under way, its copy and the stored row agree in
every column that is not in `rewritten`. The load makes it so (`UpdateContinues`), and whatever another
request stores is recorded (`StoreIsRecorded`); a row that comes back by re-insertion counts as written. So a
column that `save()` finds to differ is one that the command names or that somebody else has written.
`LeftoversStay` follows from `WorksOn`, which says how a request comes to work on a tenant: it creates it, or
its user has a token for it.

### App registry

`AppRegistryProofs` proves, for all slugs, finite `Request` and any `MaxApps`
(`AppsAssumption`): `TypeCorrect`, `SlugsAreUnique` (`UniqueAppSlugs`), `EventsAreTrue`
(`AnnouncedAppsAreStored`), `EventsAreComplete` (`UnannouncedOnlyByFailure`), `AppsStay`
(`AppsArePermanent`) and `CatalogueRefinement` (`ImplementsCatalogue`). The invariant adds that ids to come are unused (`FreshInv`), which with
`NewId` makes every save an insert, and that a creation about to publish has stored
its own app (`RequestInv`).

For `CatalogueRefinement`, the catalogue is the table (`Rows`), the pending apps are those that some creation is
about to publish (`Pending`), and events and failures stand for themselves. A publication takes one
app off the pending ones only because no two creations have the same (`OneCreatorEach`), which
holds because an id that is taken is not handed out again. A save that the
constraint rejects, checks and reads are stutters.

### Identity

`IdentityProofs` proves, for all emails and requests and any sequence of deployments
(`NullAssumption`: the null value is neither an email nor an allowlist):

| Theorem | States |
|---|---|
| `TypeCorrect` | `Spec => []TypeOK` |
| `RegisteredOnce` | `Spec => []ProvisionedOnce` |
| `OrphansHaveFailed` | `Spec => []OrphansOnlyByFailure` |
| `AdminsAreAllowed` | `Spec => []AdminsWereAllowed` |
| `LoginReconciles` | `Spec => []FlagFollowsAllowlist` |
| `LostIsNotAdopted` | `Spec => IdentityIsNotAdopted` |
| `UnsetIsSafe` | `Spec => UnsetLeavesFlags` |
| `AccountsRefinement` | `Spec => ImplementsAccounts` |

The four invariants are proved together with `StoreInv` and `RequestInv`. `StoreInv` orders the stores: rows
and failed registrations have an identity, flags and sessions have a row, and the deployed allowlist is
among those that were allowed. Keycloak serialises registrations, and since rows have
identities, the one that it lets through finds no row (`RegisteredOnce`). `RequestInv` is what a request knows:

- a dispatched change of the flag is towards what the deployed allowlist says, because a new
  allowlist comes with a new process and no request outlives it;
- so a stored flag that agrees with the allowlist never disagrees again until the next
  deployment, and a login that saw it agree needs no lock to rely on it.

The second point is why concurrent logins of one user cannot undo each other
(`LoginReconciles`). Most steps only move a request; `MoveIInv` treats them once.

The stores stand for themselves in `AccountsRefinement`; what has to be shown is that each write meets
the guard of its operation although the handler decided several awaits before. For rows and failures this
is `ProvisionedOnce`, for saved flags `RequestInv`. For tokens it needs `HonestInv`, what a request has in hand
when it signs: a login under a list has what the list says (and by `RequestInv` so has the row), one
without a list has what is stored, and a refresh has a flag that is stored or that the list
takes away. It survives the steps of other requests because flags are taken away only as the
list says (`FlagsGoByTheList`), and a deployment because no request does.

### Service

`ServiceProofs` proves, for all processes, verifiers, keys and any `LatestMigration`, `MaxInFlight` and
`MaxTokens` (`ServiceAssumption`: configured and generated keys differ; `ConfigAssumption`: the null value is no
configuration):

| Theorem | States |
|---|---|
| `TypeCorrect` | `Spec => []TypeOK` |
| `ProductionIsSafe` | `Spec => []ProductionIsConfigured` |
| `SchemaIsCurrent` | `Spec => []ServesOnLatestSchema` |
| `SignedIsVerifiable` | `Spec => []SignedIsPublished` |
| `EphemeralTokensDie` | `Spec => []EphemeralTokensDieWithTheirProcess` |

`IInv` consists of what is known of each thing outside a process: a kid is the thumbprint of its key
(`KidInv`), and the thumbprint tells keys apart (`ThumbprintInjective`), so a kid names one key however old
the document is; a verifier has the key of every process that it fetched from (`CacheInv`); a token has the
key of the process that signed it, and whoever holds an ephemeral key has signed every token that
has it (`TokenInv`, with `OwnKeyInv` for processes), because a generated key is in no process and no token
(`NewKeysAreNew`). `ProcessInv` says that a process that runs migrations gets past them only on the latest schema,
which nothing takes back, and that requests are in flight only in a process that serves or drains.

### Topic map

`TopicMapProofs` proves, for all finite sets of classes and modules (`TopicMapAssumption`: classes are
numbers, in the order of their names), any set of declarations, any number of commits and any other branches:

| Theorem | States |
|---|---|
| `TypeCorrect` | `Spec => []TypeOK` |
| `ScriptComputesTheMap` | `Spec => []GeneratedIsTheMap` |
| `MergesAreCurrent` | `Spec => MergesKeepTheMapCurrent` |

`ScriptComputesTheMap` is about an algorithm, for every tree and every order of its files, and rests on
`ScriptIsCorrect`, in three parts:

- *The loop.* The invariant `IsMapOf` says what the Map is after the first n files: `Error` if a class is in two
  modules among them, otherwise a sequence that holds each of their declarations once. `RegisterKeepsMap` is
  one pass, `LoopComputesMap` the induction. The library's induction theorem has an operator as a
  parameter, which the provers do not instantiate, so `SetInduction` derives one whose property is a set
  from the well-foundedness of the natural numbers. `LoopEnds` uses it too, to show that the recursive
  function exists.
- *The sort.* In an unambiguous tree ranks are a bijection (`RankIsBijection`) that follows the names
  (`RankFollowsName`), by counting; the i-th line of any sorted file has rank i (`SortedByRank`). So there is a sorted
  file (`MapIsSorted`), it is the only one (`MapIsUnique`), and it is what the sort returns
  (`SortingGivesTheMap`).
- *The scan.* Any order of the files visits all of them (`ScansAreComplete`).

`MergesAreCurrent` rests on two facts about git's merge. Without a conflict each class takes the line of one side,
so the merged lines are unambiguous (`MergedLinesAreUnambiguous`); and when base, main and branch are all
current, lines and declarations are the same sets, so the merge is current as well
(`CurrentMergesAreCurrent`), which is the case of a stale check. `IInv` adds to the types only that what has
passed the check with this main is current when merged, because a checkout that passes `--check` is
current (`CheckMeansCurrent`). Nothing is assumed of main, of a branch's start or of what others merge, except that
files are sorted and have one line for each class (`OneLineReplaced`).

## 5. Only model-checked

Liveness (`StallsOnlyInReusePaths`), which the prover does not handle. Every safety property of a passing
run is proved. The properties of the runs that expect a violation are false.

## 6. What the models abstract

- Passwords, display names, hashes, cookies and the text of answers. A request that is
  refused ends without a change; which status it gets is not recorded. A signature is the key.
- What happens to an event after `publishEvents`: an external kit sends it.
- Slug derivation from names, DTO validation, pagination: pure functions. Of environment
  validation, what does not decide about keys, origins, migrations or telemetry.
- Event publication in `Tenancy`: as in `AppRegistry`, after the save, and nothing reads it.
- The tenancy builders: every use sets all fields in one synchronous run.
- A login reads memberships before it signs them; `IssueToken` does both at once, which
  reaches the same claims because older tokens stay valid.
- The refresh handler's answer to a session whose user is gone: nothing deletes users, and a
  request that ends there, its rotation committed, is one that fails (`Crash`).

## 7. Plan

1. *Done:* sessions, tenancy, identity, app registry with events, processes with keys, start-up
   and shutdown, the topic map: models, runs, and proofs of every safety property. Abstract
   specifications, with refinements that are checked and proved, for sessions, tenancy, identity and apps.
2. *Extend.* Several processes in `Identity`, so that a rolling deployment mixes two allowlists; the
   argument for `LoginReconciles` shows that it then fails for requests of the older process.

## 8. Not modelled

- `src/core/observability`, `src/core/health`, logging: they wrap or observe requests and keep
  no state that the program reads. Of `src/telemetry.ts`, exporters and sampling.
- Delivery to Kafka and the event store: an external kit, which the repository configures.
- Listings and criteria queries: they read and have no state.
- What the migrations do to rows of earlier versions; their schema, and replicas that race to run
  them, are modelled.
- Whether SIGTERM should wait for requests when telemetry is on: the code does not, and no text
  says that it should, so both orders are steps of `Service` and no property judges them.
- The length of `REFRESH_TOKEN_TTL_DAYS`: time is abstract, a session may expire at any moment.
