# Verification of awesome-lambda-auth

TLA+ specifications of the authentication service in this repository, the TLC
configurations that check them on small instances, and TLAPS proofs of the
properties that matter most for every value of the constants.

The service is a Go program that runs in AWS Lambda. Its HTTP handlers and
flows are in an external library (awesome-go-auth); this repository supplies
the stores those flows call, the adapters, the configuration and the
composition. Any number of execution environments run at once, each serves one
request at a time, and all share one DynamoDB table. Nothing else coordinates
them. What can go wrong is therefore the same everywhere: a store method is a
short sequence of calls to the table, each call is atomic, anything may happen
between two of them, the environment may be cut off between two of them, items
past their TTL disappear one by one, and the one index lags behind the table.

Paths below are relative to `src/`; `ddb/` is `internal/store/dynamodb/`.

## 1. Inventory

| component | state | operations | talks to |
|---|---|---|---|
| refresh sessions, `ddb/sessions.go`, `rotation.go` | SESSION#sid (hash, generation, revocation, expiry), REFRESH#hash pointers, the per-request rotation scope, a directory entry | CreateSession, GetSessionByRefreshHash, UpdateSession / RotateSession, RevokeSession, RevokeSessionByID, DeleteSession, GetAllSessions | core's refresh and logout flows; DeleteUser |
| single-use tokens, `ddb/tokens.go`, `feature_tokens.go` | hash and expiry on the profile, a pointer item per link | issue, lookup (consuming or not), clear, per family: reset, magic, verify, e-mail change, SMS code | core's flows; DeleteUser |
| users and e-mail uniqueness, `ddb/users.go` | USER#/PROFILE, EMAIL#address | CreateUser, GetUserByEmail, ApplyEmailChange, DeleteUser, ListUsers, profile updates | every other store, through DeleteUser |
| linked accounts, `ddb/linked_accounts.go` | OAUTH#account binding, LINKID#id pointer, GSI1 entry | Save (compare and set), Delete, FindByProvider, ListForUser | DeleteUser |
| pending links and authorization codes, `ddb/pending_links.go`, `auth_codes.go` | PENDING#, AUTHCODE# items | Save, Get/Consume, Delete | OAuth and IdP flows |
| password and verification state, `ddb/tokens.go`, `totp.go` | attributes of the profile | UpdatePassword, UpdateTOTPSecret, phone, verified flag | user migration |
| user migration, `internal/store/migrating`, `ddb/migration.go` | a marker on the profile, a scope per request, token buckets per environment | lazy provisioning, proof and adoption of a password | the old user pool; the import |
| migration command, `cmd/migrate` | a page token, counts | importAll, importUser, interrupt and resumption | the pool and the table |
| rate limiting, `ddb/rate_limit.go`, `cmd/auth/ratelimit.go` | a counter per subject and window in the table; a map per environment | AllowRequest, the middleware's local counter | every sign-in route |
| settings, mail templates, `ddb/settings.go`, `templates.go` | one document each, stamped with `updatedAt` | read, patch, replace a translations page | administration; the seeds of a cold start |
| roles, `ddb/roles.go` | definition item, an assignment item per user, GSI1 | create, delete, add/remove permission, add/remove user | administration, claims |
| API keys, `ddb/api_keys.go` | APIKEY#prefix record, KEYID#id pointer | Save, FindByPrefix, Revoke, Delete, UpdateLastUsed, listings | authentication of machine clients |
| tenants, webhooks, metadata, `ddb/tenants.go`, `webhooks.go`, `metadata.go` | directory entries, memberships, subscriptions, one item per metadata key | create, update, delete, associate; add, patch, remove; merge, clear | administration |
| telemetry, `ddb/telemetry.go` | append-only events, a partition per day | record, query | administration |
| key and item codec, `ddb/keys.go`, `item.go`, `anyvalue.go` ... | the layout of the one table | join and check keys, build and parse items | all stores |
| store plumbing, `ddb/store.go`, `paging.go` | none | transactWrite, putIfUnchanged, batchWrite, deleteKeys, queryAll, pagedIndexQuery | all stores |
| Lambda adapter, `internal/lambdahttp` | a recorder per invocation | event to request, response to what the front end understands | API Gateway, function URLs, load balancers |
| configuration, `internal/config` | the declaration, its layers, the resolved secrets | load, apply the environment, resolve, validate, the rules | composition |
| composition of the function, message delivery, `cmd/auth` | fixed at cold start | open the stores, build the options, warn, seed, mount | everything |
| signing keys, `internal/integration/aws/kms.go` | keys resolved per environment | Resolve, JWKS, Sign | AWS KMS |
| secrets, `internal/integration/aws/secrets.go`, `lazy.go` | memoised answers per environment | get | AWS Secrets Manager, SSM |
| mail, SMS and Cognito transports | none that outlives a request | send; look up and verify | AWS |

Each has an entry in `PROJECT.json` with its status and, where it is not or only
partly modelled, the reason.

**What is hard.** Two environments that present one credential at once
(refresh token, link, code, state); a value read in one call and used in a
later one (the address a deletion releases, the binding a sweep removes, the
prefix a revocation goes to, the profile an adoption has read); non-atomic,
unordered batches of deletes that fail half-way and are retried; deletions that
read page by page what others add to meanwhile; TTLs that run separately for
the two items that make up one thing; the lagging index and walks over it; lost
answers and the repeated writes that follow; lagging clocks; unconditional
writes next to conditional ones; an import that is interrupted within a page;
environments that start at different times and must come to the same secrets
and keys; knobs that are accepted and reach nothing; responses that must arrive
whole although each front end takes another shape. `PROJECT.json` lists these
as `hazards`, at the line where each bites, with the properties that watch it.

**What makes each part correct**, in a sentence: a refresh token buys at most
one successor and a second use of it ends the family; a link or a code is
redeemed at most once, and always while it is outstanding; an address has one
user and a user is found by its address; a link id names a live binding of its
own; whoever knows the right password gets in during a migration, and the pool
hears only of its own accounts; a complete import has met everyone; a budget is
never exceeded and nobody is refused with budget left; a patch is applied to
what is stored and never to what was; a deleted role, tenant or metadata leaves
behind only what the deletion could not see; a listing meets everyone and a
query of the log has no holes; a revoked key stays revoked; no two records
share a key; what a handler writes arrives whole or not at all; environments
that read the same stores agree, and what an operator declares takes effect or
is reported.

## 2. How the code is modelled

One module is one component. An action is **at most one call to DynamoDB** (or
to the pool, to KMS, to a store of secrets), with all the code does up to the
next call, since that is what is atomic: `GetItem` is strongly consistent, a
conditional `PutItem`, `UpdateItem` or `DeleteItem` tests and writes at once,
`TransactWriteItems` is all or nothing. `BatchWriteItem` is none of these, and
appears as single deletes in any order with failure in between. A store method
of several calls is therefore several actions, and what it remembers between
them is a record per request (`req`, `call`, `saver`, `del`, `walk`, ...) with a
`pc` that names the call to come.

- Values are model values: a hash, a token, an id, an address. Fresh random
  values (session ids, tokens) are values that no earlier call has used, where
  the code draws them from 128 bits or more; the 32-bit prefix of an API key
  may repeat. Only `KeySpace` looks into strings, as sequences of symbols, since
  how they are joined is its subject.
- Items that do not exist are records with `state = "absent"`, or an id of 0.
- Time is a clock that ticks up to `MaxClock`. What is past its TTL is removed
  by a separate action, at any later moment or never.
- A request can be cut off between two calls (`Abandon`). Where the code makes
  something else of a failed call than an error for its caller, the failure is an
  action of its own (`Migration`'s `LookupFails`, `CreateMigratedUserFails` and
  `WriteFails`, `ColdStart`'s `ResolveFails`).
- The SDK sends a call again whose answer was lost. Where the call has a condition
  that its own first copy upsets, that is an action (`consumeUnheard` of
  `OneTimeItems`, `Resend` of `RateLimit` and `Documents`).
- The index is a set or function of its own that catches up item by item
  (`Propagate`).
- A knob of the configuration takes the values the rules tell apart; one that
  only has to be well formed is `default`, `set`, `unset` or `ill`. A problem is
  a pair of a rule and the path it is reported at.
- Variables marked *history* are never read by the code's actions. They record
  what the properties speak of: who won, what was issued, what was answered.
- Every bound is a constant whose declaration says that it is one for model
  checking (`MaxClock`, `MaxIssues`, `MaxSaves`, `MaxDefinitions`, `MaxRows`,
  `MaxVersion`).

Where several configurations of a code path, or several small components, are
checked together, the `MC` module chooses one in the initial state and takes
the steps of an `INSTANCE` of the module concerned; the variables of the others
stand still.

| module | variable | choices |
|---|---|---|
| `MCSingleUseTokens` | `shape` | links, codes, links in the non-atomic mode, credentials that are items |
| `MCRequests` | `setting` | the rate limiter with a crowded map, the limiter in an outage, the limiter of the migration, the Lambda adapter |
| `MCAdministration` | `part` | a document with lost answers, with patient writers, a webhook, a role, a tenant or metadata, a listing, the event log, the table's layout |
| `MCPairs` | `kind` | API keys, linked accounts |
| `MCConfiguration` | `given` | one of 4100 declarations |

The operators marked `Mutant:` are not part of the model. Each one is a mapped
definition with a plausible bug in it, and `PROJECT.json` says which property
must fail when it replaces the original.

## 3. The modules

### Sessions, with RefreshFamily
`Sessions` models `ddb/sessions.go` and `rotation.go`. A request presents a
refresh token to one of three operations. It resolves REFRESH#hash
(`ReadPointer`), reads the session (`ReadSession`: expired, revoked, replayed
or live), then rotates in a transaction pinned on the hash and generation it
read (`rotate`), or revokes (`revoke`, `revokeFamily`). A refused rotation is
sorted out from the pre-image the transaction returned
(`classifyRotationLoss`). `Scoped` is the set of requests whose context
carries the rotation scope the HTTP layer installs; without it the update is
unpinned, the degradation `rotation.go` documents. `RotateSession` is the
direct entry point.

`RefreshFamily` is what the store promises: a family has one current token,
which is exchanged once, and dies for good. `ImplementsFamily` is refinement
under `[s |-> live/dead/unopened, current hash, spent hashes]`.

Properties: `OneWinnerPerToken`, `ReuseIsAnswered` (two requests with one
token: if one won and the other was turned away, the family is not live),
`FamilyDiesOnlyForReuse` (no false alarm), `CurrentTokenResolves` (two TTLs),
`LogoutSticks`, `RevocationIsFinal`. For unscoped requests there is the
liveness property `ReplayEndsTheFamily`.

### SingleUseTokens and OneTimeItems, with OneTime
`SingleUseTokens` is the flow of `ddb/tokens.go` for all families, told apart by
`HasPointer`: issue (profile and pointer in one transaction), lookup
(pointer, then the profile, consuming it in a conditional update), mutate and
clear. `ConsumeOnRead = FALSE` is `Options.NonAtomicSingleUseTokens`: a lookup
then answers without consuming, on its caller's word to clear the token. Such
answers are not redemptions and `redeemed` does not count them.
DeleteUser's sweep deletes profile and pointers one by one from hashes read
earlier. `OneTimeItems` is the same promise for credentials that are items of
their own: codes, OAuth states and account-link tokens are consumed by the
read, the conflict stash is read until it is deleted.

`OneTime` is the abstract one-time secret, an issue that is either redeemed by
one or dropped; both modules, which `MCSingleUseTokens` checks side by side, are
shown to implement it. `LosersHaveAWinner`
says that whoever is refused an entry that was there when its key was presented
has another request, a deletion, the deadline, a later save, or a consuming call
that landed unheard to blame. The last may be its own: `consumeItemOnce` is a
conditional delete, and when its answer is lost and the SDK sends it again
(`consumeUnheard`, history `spent`), a lone request is told `notFound`.

### Emails, with EmailDirectory
CreateUser, the e-mail change (ask, consuming lookup, ApplyEmailChange's
read and transaction, clear) and DeleteUser (read the collection, query, then
delete key by key). `EmailDirectory` is the abstract map from addresses to
users. Any user may change its address and be deleted, also both at once, and be
deleted twice. The transaction of a change and the sweep of a deletion both remove
the `EMAIL#` item of an address that was read before, whosever it is by then. The
histories say when that happens: `moved` are the users that changed the address while
being deleted, `robbed` those whose item was removed by a step of a user that had
moved in this way, was deleted twice, or had been robbed itself (`Overtaken`). A user
that is robbed drops out of the directory (`Leave`). Everything else that would make a
user lose its item, or an address pass to two, violates the refinement. Section 4
has the statements of the code that this contradicts.

### Migration
Users that arrive from a Cognito pool. A request looks an address up, to log
in, to register or for a forgotten password's link: pointer, profile and, on a
miss with dual-read on, the pool, whose answer creates a row with a marker and
no password (`GetUser`, `CreateMigratedUser`). Where the table fails in that create or
in the reading back of the winner's row, the answer is the original miss
(`CreateMigratedUserFails`, `ReadingBack`): wrong credentials for a login, a `CreateUser`
for a registration; and the core takes a failed first lookup for wrong credentials, too
(`LookupFails`). The lookup files the marker in
the request's scope, one slot that the last read fills (`Filed`). A login whose
profile has no password of its own asks `VerifyPassword`, which takes the
marker from the scope, asks the pool if it is the row's pool, and adopts what
the pool accepted (`UpdatePassword`, hash and marker in one write). The import
creates rows page by page and record by record, may be interrupted at any
moment, also between two records of a page, and is repeated from the start or from the
token it printed. A record whose write fails may have landed (`RecordFails`). The
answers of the pool are those `mapError` tells apart.

History per request: whether the password presented was acceptable `always` or
`ever` while the request ran, and whether one was chosen `late`, after its read.
`RightPasswordGetsIn` and `WrongPasswordStaysOut` are about both sides of a
login, where a failing pool, budget or table excuses a refusal;
`PoolHearsOnlyOfItsOwn` about the passwords that leave the service;
`CompleteMeansEveryone` about the exit code of an import, over all the runs it took
(history `whole`: it began at the first page, and each run but the last ended between
two pages with nothing failed); `PasswordsAreKept` about every writer of a row.

### MigrationLimiter, with TokenBuckets
`limiter.go`: a common token bucket and one per subject in a bounded table;
buckets are refilled when they are looked at, and a full table evicts those
that are full once brought to date. A token is `Cost` units, so that a refill of
a part of a token is an integer. `TokenBuckets` has a bucket for everybody,
refilled at each tick and never forgotten, and refuses for want of room only
while as many others owe tokens as there is room for.

### LinkedAccounts
Save with its compare-and-set loop (`MaxAttempts` for `linkRebindAttempts`),
Delete by link id, and DeleteUser's three calls: the query of the lagging
index, the re-read that confirms each binding, and the sweep.
`BindingsArePairs` has two parts. `UnlinkableByID` is about saves with ids of
their own (`FreshIds`): when an id is saved again after another link has taken
the account, the pointer that Delete drops without a condition
(`linked_accounts.go:413`) may be that of the live binding.
`RebindLeavesNothing` says that a link id never names a binding that is not its
own, until a DeleteUser begins. `UnboundByItsOwnDelete` says that a binding goes
by its own Delete, by the deletion of the very user it is bound to, or by a sweep
that it overtook: the account was bound again after that sweep had read it (history
`overtaken`). The last is the finding `NothingStale` of section 4; every other way in
which a binding could go, such as a late Delete by an id that has been replaced,
violates the property.

### RateLimit
The local pre-filter and the shared counter in one module, since the argument
needs both. An environment's clock lags the table's by up to `Grace`
(`rateLimitTTLGrace`). `FailOpen` is the middleware's answer to a failing table,
`Resend` the SDK's repetition of a write whose answer was lost.

### Documents, with PatchedDocument
The read, merge and put-if-unchanged loop of settings, templates and webhooks.
`Family` tells documents that come into being with their first patch from
webhooks, which are added without a stamp and can be removed. `nextStamp` is
the arithmetic of `store.go`. `PatchedDocument` is the promise: patches are
applied one by one to the current document. A put whose answer was lost may
land a second time, over what others have patched since; that is a step of
the abstract document too, as it still applies the patch to what is stored.

### ApiKeys
Save (record and pointer in one transaction), authentication by prefix, and
Revoke, Delete and UpdateLastUsed, each of which resolves the pointer first
and acts on the record later. Prefixes may collide (`PrefixOf`).

### Roles and Partitions
`Roles`: the definition, the assignments, and DeleteRole, which finds the
assignments through the lagging index and deletes all of it in an unordered
batch. `Partitions`: a tenant with its members, and a user's metadata, which
are both one partition that is read page by page (`queryAll`, consistent reads)
and then deleted key by key; memberships are put under a ConditionCheck on the
directory entry, or without one by CreateUser; the keys of a metadata merge are
put one at a time.

### Listings and Telemetry
`Listings`: `pagedIndexQuery`, as a client that walks through ListUsers,
GetAllSessions, ListAll or ListWebhooks uses it. A page is filled from batches
of index entries that are resolved to records, in as many calls as the table
wants, and a short page is taken for the last. A session's entry is an item of
its own with its own TTL, so that an entry may name what is gone.
`WalkMeetsEveryone` excepts walks during which an entry leaves the index:
offsets are positions, so a record may be pushed into a page already read
(`WalkMeetsEveryoneAnyway` is the statement without the exception, and does not
hold; nor does `NobodyMetTwice`; the code promises neither). `Telemetry`: a
query resolves its range, then visits the day partitions from the oldest, each
in pages to which the filter is applied after they are read, while events are
recorded at any instant and reaped.

### KeySpace
The layout of the table: what callers' text must satisfy to become a segment
(`checkID`, `checkTenant`, `checkOpaque`), the partition, sort and index key of
each kind of record, and the queries by prefix. One table, into which any
record may be put or removed under its key. `RecordsKeepApart` says that no
record is written over or removed under the key of another,
`QueriesReachTheirOwn` that a query for a user, a tenant or a service selects
nothing of another whose id continues theirs.

### Adapter
One invocation of `internal/lambdahttp` behind one of four front ends (HTTP API
or function URL, REST API, load balancer with multi-value headers on or off).
The event's cookies and forwarded scheme become header lines, the handler sets
cookies, adds headers, writes statuses and pieces of body in any order and may
panic, and the recorder becomes the reply, in the shape of that front end.
Set-Cookie is kept apart from the other headers, as the recorder does
(`splitsSetCookie`). The history `deeds` has what the handler did, in its order.
`Received` is what the client makes of the reply, `Meant` what the handler asked for,
told from `deeds` alone: the first status, and the deeds of each kind
in order, the j-th being the one with j of its kind up to it. That includes headers
set after the status, which the recorder keeps (`net/http` would drop them).

### Configuration, Wiring, ColdStart
`Configuration` and `Wiring` are operators. `Configuration` has the knobs with
their defaults, the layers (`Layered`, each laid `Over` the one below), the secret slots and the order of their
sources, the checks of single values and the rules between them; its result is
the set of problems for which Load refuses. `Wiring` says what the composition
makes of an accepted configuration: what it cannot support, which knobs and
secrets each block reads, and what the warnings name. `ColdStart` is the
machine: environments of one deployment start from one declaration, resolve
secrets one call at a time through a cache of their own, refuse or compose,
seed templates and settings, learn the signing key and serve, while an operator
rotates secrets and re-points the key's alias, an administrator saves, calls
fail and environments are reclaimed at any step. What a store of secrets holds
is an item and its version; an item may be missing, lack the key asked for, or be no
JSON document to select a key from, which fails the slot (`Unreadable`).

`EnvironmentsAgree` compares two environments that serve and for which the
stores still say what they said. `OperatorIsTold` has two parts:
`NothingDeclaredIsSilent` (what was moved in a block that is on, and every secret
that is held, is read or named in a warning) and `LateRefusalsAreKnown` (what is
refused after the stores were opened is one of the things the loader does not
look at). Both list their exceptions by name: `SilentLifetimes`, `SilentSecrets`
and the causes in `Overlooked` are the places where the code and its
comments part (section 4). A refusal for want of a signing key is such a cause only
where a key identifier is named or `idProvider.privateKey` is `Declared`.
`DeclarationAssumption` says of the declarations what the loader makes of any:
references name the two stores there are, and clients are listed slot by slot.

## 4. What the runs check

| run | distinct states | instance | what it shows |
|---|---|---|---|
| `sessions_scoped` | 667,512 | 1 session, 3 hashes, 3 requests, clock 0..3 | the safety properties of scoped requests, and the refinement of `RefreshFamily` |
| `sessions_degraded` | 217,312 | the same with 2 requests, no scopes, fair | a replay eventually ends the family |
| `migration` | 2,464,982 | 2 persons, one of them of another pool before, 2 requests, 2 passwords, one run of an import of 2 pages, 3 rows in all; failing calls of pool and table | right and wrong passwords, what the pool hears |
| `migration_import` | 1,598,229 | 3 persons on a page of two and a page of one, 3 runs of the import, interrupted at any moment, failing records, 1 request, 3 rows in all | complete imports, whatever runs they took, and kept passwords |
| `migration_adoption` | stops early | as `migration` | a password that was chosen is written over (a finding) |
| `tokens` | 1,885,608 | 1 user, 3 hashes, 2 requests, 2 issues; clock 0..2 for links, 0..1 for codes and the non-atomic mode; or a code, a token and a stash, 2 requests, 2 saves, lost answers | single use, stale links, codes, states and stash, and both refinements of `OneTime` |
| `emails` | 817,863 | 3 users, 3 addresses, 2 tokens, 2 confirmations by anybody, 2 deletions of one user | no address held in vain, and the refinement of `EmailDirectory` |
| `pairs` | 1,503,050 | 3 keys on 2 prefixes, 3 callers, clock 0..2; or 3 links, 2 users, 1 account, 3 savers, a deleter, a sweeper | records found through a second item: collisions, revocation, rebinding, sweeps |
| `requests` | 2,456,087 | 2 environments, 2 subjects, a budget of 2, lags 0 and 2, room for one subject; or an outage; or 3 subjects and room for 2 in the migration's limiter; or one invocation of the adapter with 3 deeds of the handler | budgets, earned refusals, the ceiling of an outage, the refinement of `TokenBuckets`, responses that arrive whole |
| `administration` | 763,679 | 3 writers and 3 fields; a role, 2 users, 2 sweeps, 2 definitions; a partition of 3 items, a merge and a clearing; a walk over 3 records by pages of 2; a log of 2 events in days of two instants; any two records of 5 texts | lost updates, contention, the size ceiling, what a deletion may leave, listings and queries without holes, keys that keep apart |
| `configuration` | 89,284 | 4100 declarations, 2 environments, 2 keys, 2 versions of a secret | agreement, signatures, silence and late refusals, seeds |
| `configuration_silent` | stops early | the same | a knob that nothing reads and no warning names (a finding) |

**Why the bounds are enough.** The races here are between two parties and need
a third only as a witness: two requests with one token and a third that uses
the successor; a sweep, the user it sweeps and the user who takes over. Three
hashes make a chain of two rotations or reissues, so that a token can be current,
superseded once and superseded twice. Clocks run far enough for an item to
be live, expired but kept, and due. One session, one user of a token family, one
account or one role suffices because no action touches two of them. A migration
has two persons since one of them has to be of another pool, and an
import two pages since one of them has to be behind when it is interrupted; three rows
are a person's first, the one after its deletion and another person's. The import has
a run of its own: three runs are one that is interrupted, one that resumes and fails,
and one from the start; a page of two lets the interrupt fall between two records of
a page, and a page after it is behind. The user that is deleted in `emails` is deleted
twice, since a second sweep is the second way to be overtaken. The rate
limiter's clock spans three windows, so that a counter can be due while an environment
is still two ticks behind, and a budget of two is the least that can be half spent.
Three subjects for two places in the migration's limiter are the least with an
eviction. Two attempts stand for the four and sixteen of the code where the property
is about the last attempt, and three where it is about having as many as writers.
Three keys on two prefixes are the least with a collision and a bystander. Pages of
two over three records leave a short page, and days of two instants a range that
begins in the middle of one. The texts of `KeySpace` are the empty one, an id and one that
continues it, and two with separators; the queries and the table relate two records at a
time. The declarations of the configuration are three deployments (one that issues
tokens, one in development, one that only verifies), each with every switch that turns
a block on and every pair of switches, each knob moved to each of its values under
every switch, and every layer and source of a secret; the rules relate two or three
knobs, which are a deployment, a switch and a move.
Where a theorem is proved none of this matters: it holds for every value.

**Symmetry** is used over requests, hashes, ids and environments that are
interchangeable; never in `sessions_degraded`, which checks liveness, and not in
`administration`. **Deadlock** is checked in the two configuration runs, where an
environment can always start or be reclaimed. The others say `CHECK_DEADLOCK FALSE`: the
environments come to rest when all requests are answered and the clock is at its
bound.

**Fairness.** Only `sessions_degraded` assumes any: weak fairness of each request's
own steps (`Serve`). An invocation that has begun runs until it answers unless
Lambda ends it, which is the action `Abandon`, and the property allows for it.
Clients, administrators, TTL and the clock owe nothing, and neither does the
index: nothing else in the code must happen eventually.

### Where the code and its documentation part

Two runs check a statement that the repository makes, and TLC finds a behaviour
in which it fails:

| run | statement | what happens |
|---|---|---|
| `migration_adoption` (`ChosenPasswordStays`) | from the first local password on the old directory has nothing to say | an adoption under way writes the pool's password over one that a reset has chosen |
| `configuration_silent` (`EveryUnreadKnobIsReported`) | every knob that cannot be honoured is reported | `tokens.accountLinkTtlMinutes` and `sms.codeTtlMinutes` are not |

The modules state more of them, which are of the same kind. To see one fail, add
it as an `INVARIANT` or `PROPERTY` to the configuration named here, with the change
of a constant given. Those of an instance (`Links!`, `RolesOf!`, ...) need a
definition of their own in the `MC` module first, as a configuration names no
instance.

| statement | add to | what happens |
|---|---|---|
| `PointerNamesGeneration`: a rotation's pointer carries the next generation | `MCSessions_scoped` | `RotateSession` pins no generation, so the pointer says 1 |
| `UnopenedLinkSurvives`: clearing after a consuming lookup is a no-op | `MCSingleUseTokens_all` | a link issued in between is removed unopened |
| `AppliesItsOwnAddress`: confirming a change fails if the pending address changed | `MCEmails_all` | it applies the later address, whose link nobody opened |
| `UniqueEmail`: uniqueness is never read-then-write | `MCEmails_all` | a deletion removes the uniqueness item of the next owner of the address |
| `RetryFinishesDeletion`: a partial deletion can be retried from the top | `MCEmails_all` | the retry finds no profile and stops; the address stays taken |
| `ResumeSkipsNothing`: the printed token is that of a page fully processed | `MCMigration_import` | interrupted within a page, it prints the next one's |
| `Links!NothingStale`: the re-read makes the sweep safe | `MCPairs_all` | a rebind after it loses its binding to the sweep |
| `Links!DeletionStrandsNobody`: no binding is left resolving to a deleted user | `MCPairs_all` | the index does not show the youngest |
| `RevokedByItsOwnId`: a key is revoked by its own id | `MCPairs_all` | a prefix that changed hands between the two calls |
| `setting = "outage" => PreFilterSound`: the pre-filter refuses nobody the table would let pass | `MCRequests_all` | requests that passed on a failing table were counted locally only |
| `OutageCeiling`: in an outage an environment lets Max pass per subject | `MCRequests_all`, `StoreFails = TRUE` | not for subjects it has no room to count |
| `RemovalIsFinal`: a removed webhook stays removed | `MCAdministration_all` | the first patch of it, in flight, brings it back |
| `RolesOf!OldAssignmentsGrantNothing`: a left-over assignment grants nothing | `MCAdministration_all` | it does once the role's name is used again |
| `RolesOf!DefinitionGoesFirst`: the definition is deleted first | `MCAdministration_all` | the batch has no order |
| `RolesOf!FreshAssignmentStands`: a key swept twice is harmless | `MCAdministration_all` | the second sweep deletes a new assignment of the same name |
| `PartitionOf!NobodyInherits`: every membership of a deleted tenant is removed | `MCAdministration_all` | one associated during the deletion outlives it, and counts when the id is used again |
| `LogOf!VisitsAreBounded`: the bound is on the day partitions visited | `MCAdministration_all` | a range that begins within a day visits one more |
| `LogOf!HorizonIsAnswered`: a longer retention does not become what fails | `MCAdministration_all` | every query without a beginning is refused |
| `SeedsNeverOverwrite`: a seed fills only what is absent | `MCConfiguration_all` | an administrator saves between the seed's read and its patch |

Two more are in the rules themselves: an import-only migration passes RS-13 on a
driver it cannot run on (`RS13`, and refused late: `Overlooked` lists it), and a
signing key that only a variable supplies does not turn the identity provider on (`Active`;
`SilentSecrets` lists it). The quotes and their lines are under `findings` in
`PROJECT.json`.

## 5. What is proved

Proofs are in the `*Proofs` modules. All theorems are about `Spec`, for all values of
the constants under the assumptions declared in the module they extend
(distinctness of the null values, naturals for bounds, `Lag <= Grace` for
the rate limiter, text that is a sequence of strings for the layout, declarations that
refer to the stores there are, Set-Cookie apart from the other headers); where another
condition is needed it is an `ASSUME` of the theorem.

- **SessionsProofs.** `TypeCorrect`; `RevocationStands`, from a case analysis of
  what a step can do to a session item; `LogoutIsFinal`, by "a session that is
  not live and has been opened stays so", which needs that ids are not reused;
  `RotationHasOneWinner`, for scoped requests, by a ledger that ties each minted
  hash to its session and says that a hash already exchanged is not the
  session's current one (the condition of the transaction gives the rest);
  `ReuseEndsTheFamily`, with or without a scope: whoever is turned away at the
  session leaves it not live, since it was gone or revoked when it was read or
  the request has revoked it; `NoFalseAlarm`, for scoped requests: a token that
  is no longer current was exchanged by a request that won, and whoever kills
  holds such a token and has not won, so two requests have presented it;
  `LastTokenIsFound`: session and pointer are dated from one expiry, and the
  pointer's grace keeps it the longer of the two; `Refinement` of
  `RefreshFamily`, for scoped requests: from what the ledger says, every step of
  the store opens, exchanges, kills or leaves alone exactly one family.
- **SingleUseTokensProofs.** `TypeCorrect`; `TokenIsSingleUse`, from the account
  `redeemed + outstanding <= issued`, which no step upsets because the one step
  that redeems takes away what the issue put there; `Refinement` of `OneTime`.
  All hold in every mode, for the lookups that consume. `StaleLinksLose` and
  `LiveLinksResolve`, for links in either mode, from one invariant `LinkInv`: a link
  is issued once and to one user; what a profile holds, or a deletion sets out to
  delete, was issued to that user; a live token has a pointer of the same expiry; and
  what was superseded when it was opened is in no profile. Of `OneTimeItems`:
  `ItemsTypeCorrect`; `CredentialIsSingleUse`, the same account for items;
  `LossIsExplained`: an entry that a request was after stays as it is until something
  happens that excuses the loss, a call that lands unheard among them;
  `ItemsRefinement` of `OneTime`.
- **EmailsProofs.** `TypeCorrect`. `AddressesAreReleased` (`NoAddressHeldInVain`), for
  any number of deletions, failed and run again, of users that may change their address
  meanwhile: whoever an `EMAIL#` item names has that address or is on the way out, and
  then the item is the one a sweep still has to delete, unless the sweep failed or its
  user moved. `AddressesAreUnique` and `Refinement` of `EmailDirectory`, from `FoundInv`:
  whoever stays and was not robbed is found by the address; what a sweep is still to
  delete names its own user, unless that one may be overtaken (`SweepsItsOwn`); and
  nobody is robbed before somebody has moved while being deleted or was deleted twice.
  None of the theorems assumes anything of who moves or is deleted. For the refinement,
  a step of an overtaken user removes one item, so that at most one other user drops
  out of the directory with it (`RobberyIsLeave`), and who was robbed had registered
  (`RobbedWereMembers`).
- **RequestsProofs.** Of `RateLimit`: `TypeCorrect`; `BudgetIsKept`: a counter that is
  not due is at least what it has admitted, and once it is due no clock is in its
  window, for which the grace must cover the lag; `RefusalIsEarned`, while the table
  answers: no environment counts in a window to come, and what it has counted in the
  window of its clock has been admitted, the one request in flight aside, so that
  neither counter refuses early; `OutageHasACeiling`, where there is room in memory for
  every subject: what has passed in a window and what is in flight is what the
  environment counted there, nothing in a window to come and at most `Max` in one that
  is over. Of `MigrationLimiter`: `BucketsAreKept`, the refinement of `TokenBuckets`: a
  refill on demand comes to what a refill at every tick would have come to, and what is
  evicted is full, which is what a newcomer is. The invariant says that no bucket is
  dated in the future or above its capacity. Of `Adapter`: `FrontIsCrossed`, for any
  number of deeds in any order. While the handler runs the recorder holds what the
  deeds say, kind by kind and in order, and the first status decides (`AsDone`); what
  is in order is told by rank, and a deed adds the next rank of its kind. When the
  handler is done, or has panicked, the recorder is what was meant (`AsMeant`), and it
  is read back front by front. The request's side goes by cases of the lines that a
  client may send, which are finitely many shapes.
- **MigrationProofs.** `TypeCorrect`; `TheRightPasswordGetsIn`,
  `AWrongPasswordStaysOut`, `ThePoolHearsOnlyOfItsOwn`, `CompletionMeansEveryone`,
  `PasswordsStay`, from one inductive invariant `IInv`. What is acceptable changes
  under a request's feet, so the invariant says of each request, stage by stage, what
  the steps it has still to take rely on: what it knows of the row, under which
  condition it was entitled to come in all along (`Entitled`) or at some moment
  (`WasEntitled`), and whom it may still ask (`Hears`). A step of any party does to a
  row one of four things (create, adopt, change, delete: `Moves`), each request's part
  survives each of them, and then there is one lemma per action, the failing calls
  included. `ImportKeepsUp` says that an import that is whole, and whose run has had no
  failure, has met every page before its token and every record of the page it is at.
- **AdministrationProofs.** `TypeCorrect`, `NeverOutgrown`, `StampsNeverRepeat`, and for
  settings and templates `NoPatchIsLost` and `EnoughAttempts`: as long as a request's
  token is the stored one, what it read is what is stored, because tokens only grow;
  and an attempt that loses was beaten by a put of another writer, which lands once, so
  that a request has made no more attempts than others have landed (`Counted`). The
  three parts that patch a document take the steps of one module with different
  constants: what a step does is stated once for all of them (`Moves`).
  `DeletionsAreComplete`, of a role and of a partition: a holder, or an item, is still
  to be read, still to be swept, or late (`SweepCovers`, `ReadCovers`), whoever else
  sweeps. `Separation`: for any text callers supply, with one tenant or many, the table
  holds exactly what was put and not removed. The separator occurs in no segment but
  the last, so that a key can be taken apart again, and the fixed words tell its kind;
  with "one record of a name" as the inductive invariant, a put replaces its own name
  and nothing else. `QueriesAreExact` is read off the same invariant: what begins with
  a prefix is the prefix and a continuation, which can be taken apart like a key.
  `NothingIsMissed` (`ReadsMissNothing`) adds the two reads that take several calls. A
  telemetry query: an event that is due has been put out, or comes after all that has
  been (`StillAhead`), so that a full answer leaves out only what is later. A walk, as
  long as no entry leaves the index: a record still to meet lies between pages further
  on than the offset (`BetweenPages`), inside a query behind its cursor, with more
  entries up to it than the query has still to skip (`Querying`), or in the batch that
  is being resolved or behind it (`Resolving`). A page is "the first n of a set"; where
  that calls for counting, an element is the n-th by its rank, the number of those
  before it, and every rank below the cardinality is taken (`RanksAreAll`).
- **PairsProofs.** Of `ApiKeys`: `TypeCorrect`, `KeysStayRevocable`, `RevokedForGood`
  from one inductive invariant `IInv`, with a lemma per action: pointer and record name
  each other, what a request has resolved is still the prefix of its key, a key
  that is gone is not saved again. Of `LinkedAccounts`: `LinksTypeCorrect`;
  `PairsStayPairs` and `OnlyItsOwnDelete` from `LinkInv`: what a sweep has collected is
  still its user's unless the account was bound again since. What is bound, what a link id
  names, what a Save has observed, a Delete has resolved and a DeleteUser has collected
  was each minted by a Save that is done (`Minted`); where ids are fresh that Save is
  the only one of its id, so that whoever removes a pointer removes that of no other
  binding, and a Delete that finds the id elsewhere than where it was pointed finds it
  nowhere. A step does to the items one of four things (`Binds`, `Unbinds`, `Drops`,
  `Sweeps`).
- **ColdStartProofs.** `SeedsReplaceTheAbsent`: a seed is written from what a
  read had found missing, and the read comes first. `SignaturesVerify`: an environment
  resolves its key once and publishes it before it serves (`Keyed`), so that a
  re-pointed alias changes neither. `AgreementOfEnvironments`: what an environment has
  accepted for a secret is what the first source in order that holds one gives
  (`Walked`, `Accepted`), by way of a cache that holds only what a store has said; two
  environments whose caches the stores still bear out therefore have the same, and in
  production neither has a key of its own making. `DeclarationsAreHonoured`: a knob
  that was moved in a block that is on, and a secret that is held, is read or named
  (`UnreadIsNamed`, `HeldIsNamed`, block by block and slot by slot, for any
  configuration without gaps), and a late refusal would contradict what the loader
  had accepted, but for the causes in `Overlooked` (`Told`).

**Only model-checked.** Liveness (`ReplayEndsTheFamily`): the prover has no rule
for `ENABLED` that it could use here. Everything else that a passing run checks is a
theorem; the two runs that end in a violation refute theirs.
**Only proved**, and so in no run: `TokensAdvance` (`StampsNeverRepeat`) and the
type invariants of the modules with proofs. Items are
checked in the consuming mode only: in the other nothing promises single use.

**Induction.** The library's induction theorems take an operator as a parameter, which
the prover cannot instantiate. Where a proof has to count, it takes the least
counterexample of a set of naturals instead, which the library has as a fact about sets
(`WFMin`): every rank below a cardinality is taken (`AllAreRanked`), and the least
store that is left to ask is one of those left (`LeastIsIn`).

## 6. What is not modelled

- The flows of the external core library, except where a property needs the order in
  which it calls the store (lookup, mutate, clear; consuming lookup, then
  ApplyEmailChange; lookup, verify, adopt).
- Writes of one attribute that nothing ties to another: UpdateProfile,
  UpdateLastLogin, TOTP and phone, the verified flag, UpdateUITranslations. Reads by
  id that change nothing.
- Marshalling of attribute values, the creation of the table, parsing of documents,
  numbers and durations, the text of messages, of warnings and of reports: no two
  parties share them and no property is about them.
- Of the Lambda adapter: paths, queries, the stage prefix, the detection of the kind
  of event, the client's address. Of KMS: the encoding of signatures and key sets.
- Requests to SES and SNS, built around one SDK call each. Background sending of
  messages, which promises nothing.
- Routes and pages, whose handlers are the core's.
- The clock arithmetic of expiry beyond ticks.
- Templates for deployment, examples and integration tests: no program logic.

## 7. What is left

The largest parts without a model are text and arithmetic (parsing, rendering,
encoding), for which a model would be a transliteration. What would still add
something is `ReplayEndsTheFamily` as a theorem, with a prover that reasons about
`ENABLED`, and conditions in the code that would leave the histories `robbed`, `moved`
and `overtaken` empty: a deletion that removes `EMAIL#` and `OAUTH#` items only while
they are its user's.
