# Formal models of bark-worker

TLA+ modules that model the Cloudflare Worker in `worker/src`, TLC configurations
that check them on small instances, and TLAPS proofs for every value of the
constants. Paths below are relative to the repository.

## The system

| Component | Source | State | Operations |
| --- | --- | --- | --- |
| Device registry | `services/d1-device-registry.ts`, `services/device-key.ts`, `migrations/0001_create_devices.sql` | the D1 table `devices`: key → token, `''` for a token taken away | `countAll`, `deviceTokenByKey`, `saveDeviceTokenByKey` (UPDATE, then INSERT and COUNT in a loop of 8 attempts), `deleteDeviceByKey` (clears a token, compare-and-set) |
| Registration route | `routes/register.ts` | none of its own; mode and limit of the configuration | `POST`/`GET /register`, `GET /register/:device_key` |
| Push of one device | `routes/push.ts` `pushOne` | the token it has read | lookup, send, cleanup of a bad token |
| Push routes | `routes/push.ts` | the list, the chunk and the rows of a batch | `POST /push` (one or many), the path forms |
| APNs client | `services/cloudflare-apns-client.ts` | cached JWT and imported key of the isolate | `send`, with one retry after `ExpiredProviderToken` |
| Configuration | `config.ts`, `index.ts` | the configuration of a deployment, cached per isolate | parsing, `buildApp` |
| MCP server | `routes/mcp.ts` | none (signed session tokens at the client) | JSON-RPC `initialize`, `tools/list`, `tools/call` |
| Request protection, authentication | `utils/request-protection.ts`, `middleware/auth.ts`, `app.ts` | the limiter of the platform | limiter, basic authentication, routing |
| Body reader and helpers | `utils/validation.ts`, `utils/objects.ts`, `utils/responses.ts`, `utils/timing-safe.ts` | the stream of one request | limited reading |
| Device migration | `tools/bark-db/main.go`, `scripts/device-export-to-d1.mjs`, `docs/MIGRATION.md` | export file, SQL file, Bolt file | export, conversion, import |
| Upstream synchronization | `scripts/sync-upstream.mjs`, `.github/workflows/upstream-sync.yml` | `UPSTREAM.lock.json` | fetch with retries, lock |

Requests run in any number of isolates. They share only the D1 table; the sends
of one isolate also share the APNs client. D1 executes one statement atomically,
two statements of one request are interleaved with those of others, and a call
may throw with or without its statement applied. APNs may take a POST that the
client has given up. The hard parts are therefore the windows between a read and
its later use (token, count, JWT), lost answers, retries, and the barrier of a
batch. Nothing is persisted besides the table, so a crash of an isolate is a
request that stops between two statements; in the models it is a request that
takes no further step, or ends as "failed".

The tools around the worker do persist: export, SQL, Bolt and lock files. There the
hard parts are a program that stops between two system calls, a file that is
damaged before the next program reads it, and two programs that write the same
file or the same branch. What stands before the routes shares nothing between
requests; its hard part is that limiter, authentication and router each read the
path in their own way, and that only the router decodes it.

## Modules

```
D1Devices          the table and its SQL statements
  Registration     doRegister + saveDeviceTokenByKey, one phase per await
  Push             pushOne, one phase per await
    BarkWorker     both over one table, with redeployments; the properties
      MCBarkWorker       small policies and symmetry for TLC
      BarkWorkerProofs   theorems
    BatchPush      POST /push with a list: chunks of pushOne calls, rows
      BatchPushProofs    theorems
Params             parameter objects: entries in order, names that fold case
  PushParams       which devices a push request reaches
    MCPushParams       the bodies, queries and forms TLC checks
    PushParamsProofs   theorems
  McpServer        POST /mcp and /mcp/:device_key, sessions
    MCMcpServer        the arguments TLC checks
    McpServerProofs    theorems
BodyReader         readLimitedBytes over the stream of one request
  Gateway          configuration, limiter, authentication, router, body
    MCGateway          the paths and environments TLC checks
    GatewayProofs      theorems
Migration          export, conversion to SQL and import of the devices
  MCMigration        the keys and their two orders for TLC
  MigrationProofs    theorems
UpstreamSync       sync-upstream.mjs, the workflow and clones that push its lock
  UpstreamSyncProofs theorems
DeviceDirectory    abstract: what the registry promises
ApnsClient         send, getJwt, getCryptoKey of one isolate, and APNs
  ApnsClientProofs   theorems
PushSender         abstract: what pushOne relies on when it awaits send
```

**D1Devices** has one operator per SQL statement: the condition under which the
statement changes a row (`UpdateMatches`, `InsertApplies`) and its effect.
`devices[k]` is a token, `Cleared` (`device_token = ''`) or `Absent`.

**Registration** is a state machine per request. `AcceptRegistration` is
`doRegister` up to the first statement; `update`, `insert` and `count` are the
awaits of `saveDeviceTokenByKey`; each of its statements has an action for every
outcome (`UpdateExisting`/`UpdateNothing`, `Enroll`/`InsertNothing`,
`CountAfterInsert`), for a throw (`RegistrationFails`) and for an applied
statement whose answer is lost (`UpdateReplyLost`, `InsertReplyLost`).
`generateDeviceKey` is modelled as any key, collisions included. `rpolicy` is the
configuration captured by the isolate; `Redeploy` replaces `deployed` only. A
request slot is reused once the request is answered. `ceiling`, `stored` and
`known` are history variables. The table initially holds anything an import may
have left, also more rows than the limit.

**Push** is `pushOne`: lookup, send, cleanup. The outcome of the send is
nondeterministic; `SendFindsTokenDead` is an error `isBadDeviceTokenError`
accepts.

**BatchPush** is `routeDoPushV2`: the call for the i-th key is the pusher `i`;
`StartCalls` starts a chunk at once, `FinishChunk` is the continuation of
`Promise.all`, `Reregister` is another request that changes a token in between.
Which key a call gets from parameters whose names fold case is the subject of
PushParams.

**Params** has the operations on JavaScript objects that the routes merge
parameters with: an object is the sequence of its entries, because
`buildPushMessage` takes the last entry whose name folds to `device_key`, and an
assignment keeps the place of an entry that exists. **PushParams** is
`routeDoPushV1` and `routeDoPushV2` up to their `pushOne` calls, one request in one
step (`CHECK_DEADLOCK FALSE`). `Device_Key` stands for every spelling with a
capital letter, a list for the string `readDeviceKeys` splits or the array it maps.

**McpServer** is `handlePost` and `handleMcpRequest`. `RefuseRequest`,
`RefuseSessionHeader`, `RefuseMismatch`, `StartValidation` and `ServeDirectly` are
what handlePost does up to its first await after the body; `Refuse` and `Serve`
follow `validateSessionToken`, `AnswerCall` follows `pushOne`, `CreateSession` the
signing of a token, and `Dispatch` is `handleMcpRequest` up to its own await. A
session token is the record of its payload and of the secret that signed it. Requests share nothing but
the clock, the deployed secret and the sessions clients hold, so one slot, reused
without end, suffices.

**ApnsClient**: phases `import`, `sign`, `ready`, `post`, `body` are the awaits of
`getCryptoKey`, `sign`, `getJwt`, `fetch` and `response.json`. Every signing gives
a JWT of its own, since ECDSA is randomized. APNs decides about a pending POST
independently of the client (`ApnsTakes`, `ApnsRefuses`), also after
`NetworkError`. The clock is a wall clock and may be set back.

**BodyReader** is `readLimitedBytes`: one action per outcome of `reader.read()`
(`ReceiveChunk`, `ReceiveEnd`, `ReceiveError`), with the state of the stream, so that
a stream left locked or open after an early exit is visible. `sent` is a history
of what the client has sent.

**Gateway** composes it with what every request passes: `SkipLimiter`, `AskLimiter`,
`LimiterGrants` and `LimiterRefuses` are `protectRequest` around its await,
`Authenticate` and `RejectCredentials` the middleware of `createApp`, `Handler` the
routes in the order of `createRouteGroup`, as Hono picks them. A path is the
sequence of its segments, as the URL spells them, and whether it ends in "/". The three
readings of the prefix are separate definitions (`RelativePath`, `StripPrefix` with `Cut`,
`Mounted`), since the code has three. The limiter and the authentication compare
`URL.pathname`; Hono decodes the path before it matches routes (`Decode`, with `Escapes`
for the segments that have percent-encoding), so that `/%72egister/k` is the check route
for the router alone, and a URL below the prefix "bärk" has the prefix for the router
alone. `CreateConfig` is `createConfigFromEnv` for the fields used
here. What a handler does after it has the body is in the modules above; here it
answers with any status.

**Migration** has the three programs as state machines whose steps are system
calls: `bark-db export` (create with `O_EXCL`, write), `device-export-to-d1.mjs` (read
and verify, create with `wx`, one statement at a time), `bark-db import` (read and
verify, `os.Stat`, `bolt.Open`, the transaction, sync, close, and the removal of a failed
target). `Checksum` is the list of rows it is computed over: SHA-256 is taken to be
injective. `DamageExport` changes the export file between two programs; `DiscardSql` and
`ExecuteSql` are the operator's. `ByteOrder` and `LocaleOrder` are the two sorts. Bolt and
D1 commit a transaction as a whole, which is how the code uses them.

**UpstreamSync** has one state machine per run: `resolving` and `fetching` are the awaits
of `fetchText`, for the branch and for all watched files at once, `Wait` and
`SendAgain` its retries, `TruncateLock` and `WriteLock` the two halves of `writeFile`,
`Push` the steps of the workflow that commit and push. `UpstreamAdvances`, `Pull` and `Killed` are
the environment.

**DeviceDirectory** and **PushSender** are the abstract specifications.
`BarkWorker` implements the first with `directory <- devices`; `ApnsClient` the
second with `outcome <- Outcome`, the view of the caller of `send`.

Definitions marked "Seeded fault" are used by no specification: each is the form
a definition would have after a plausible bug, kept to show that the property it
belongs to notices it.

## Runs

| Run | Instance | Shows |
| --- | --- | --- |
| `device_limit` | 3 keys, 1 token, 2 registrations, 2 attempts, limits 1 and 2 in all modes | `WorkerTypeOK`, `DeviceLimit`, `RefusalIsJustified`, `RowsChangeByTheirKey` |
| `directory` | 2 keys, 2 tokens, 1 registration, 1 push | `StoredOrRetired`, `KnownKeyIsServed`, `ImplementsDirectory`, `RequestsSettle` |
| `apns_client` | 2 sends, JWT reuse of 1 s, clock 0..1 | `TypeOK`, `RejectedJwtIsNotReused`, `ImplementsSender`, `SendsSettle` |
| `batch_push` | 2 keys, 1 token, lists of up to 6 entries, chunks of 2, maximum 5 | `BatchTypeOK`, `AtMostConcurrency`, `RowsAnswerKeys`, `NoCallRestarts`, `BatchIsAnswered` |
| `push_params` | 2 keys, bodies over `device_key`, `Device_Key`, `device_keys` in every order, queries and forms of up to 2 entries | `TypeOK`, `PathDecides`, `BatchReachesListed` |
| `mcp_server` | 1 slot, 2 keys, 2 secrets, 2 versions, 1 session in circulation, TTL 1, clock 0..1 | `TypeOK`, `VersionsAgree`, `SessionVerdicts`, `OnlyCallsPush`, `PushReachesEndpoint`, `McpRequestsSettle` |
| `mcp_fixed_key` | as `mcp_server` | a violation of `EndpointIsFixed`, which `docs/MCP.md:10` states: arguments `{device_key: k1, Device_Key: k2}` sent to `/mcp/k1` notify `k2` |
| `migration` | 3 keys, 2 tokens, 2 imports, keys whose byte and locale order differ | `TypeOK`, `MigrationIsComplete`, `TargetIsWhole`, `ImportedIsThere`, `UploadsOnlyRenew` |
| `migration_checksum` | as `migration` | a violation of `AuthenticExportConverts`: an undamaged export is refused with a checksum mismatch, because `device-export-to-d1.mjs:25` sorts with `localeCompare` what `main.go:112` had sorted by bytes; `docs/MIGRATION.md:33` gives a failed verification as the only reason to stop |
| `upstream_sync` | 2 files, the workflow and 1 clone, 2 attempts, 3 commits | `TypeOK`, `LocksAreWhole`, `LocksAdvance`, `RunsEnd` |
| `gateway` | about 60 paths, 4 methods, prefixes none, `//`, `/bark/` and one that is not ASCII, plain and encoded, limits unset, 0, 1, the maximum and beyond, chunks of 1 and 2 | `TypeOK`, `LimiterGuardsRoutes`, `CredentialsGuardRoutes`, `ReadingEndsClean`, `RequestsAreAnswered` |
| `gateway_health` | the health checks with and without the prefix "bark" | a violation of `HealthStaysAvailable`, which `README.md:54` states: with `URL_PREFIX=/bark` the limiter is asked for `GET /bark` and answers 503 or 429, because `request-protection.ts:12` wants a "/" after the prefix |

Bounds. Three keys and limits of one and two let the table be empty, full, one
below the limit and above a lowered limit, with a key left for a collision. Two
attempts stand for eight: the loop is entered, repeated and exhausted. Two tokens
distinguish the token a push has read from the one stored since. Request slots are
reused, so the number of requests in a behaviour is not bounded, only those under
way at once. Two sends suffice for a race on the JWT cache, and with one unit of
reuse and a clock of two values a JWT can be fresh, expired or from the future.
Lists of up to five keys with chunks of two give full chunks, an incomplete last
one and three iterations; a sixth key is one too many. `CHECK_DEADLOCK FALSE` is
set for `batch_push` and `push_params`, whose single request ends.
Two entries let a query or a form spell the device key twice; objects of three
entries have every order of the three names. One session in circulation can be
presented at its endpoint and at another, before and after it expires and under
its secret, another one or none; `Room` is the bound, and `Forget` makes room. With
one slot an initialize and the later use of its session are two uses of the slot.
In `migration` three keys are the fewest for which a sort can move a row over
another and leave a third in place, two tokens tell a damaged or old row from the
exported one, and two imports are the race for `-output`. `CHECK_DEADLOCK FALSE` is set
there: once the programs have ended nothing is left to do. Two files suffice for
downloads that end on either side of a move of upstream; three commits for a lock,
a newer one and one in between; two attempts for a retry and for giving up. In
`gateway` the paths are those below the root and below the prefix of up to two
segments, and three for what must not pass as one, each with and without a last
"/", two whose first segment begins with the prefix, and ten in which the prefix, the
name of a route or a device key is percent-encoded ("baerk" stands for "bärk"). A body may be one unit
longer than the hard maximum of three, in one chunk or in several; sizes are in
units, not bytes.


Symmetry is used only in `device_limit`, which has no temporal property other than an
action property.

Fairness. `BarkWorker!Fairness` is weak fairness of each request under way: D1
answers or throws, and the fetch to APNs is aborted by its time-out
(`AbortSignal.timeout`, at most 60 s). The time-out also aborts reading the body,
so `ApnsClient!Spec` has weak fairness of each send, and none for APNs.
`BatchPush!Spec` adds the continuation of a resolved `Promise.all`. `McpServer!Spec` has weak
fairness of a request that awaits WebCrypto or `pushOne`. `UpstreamSync!Fairness` is
weak fairness of each script (`Script`): a request to GitHub is answered or fails, and the
job has a time-out; and of the `Push` of the workflow, a step of the same job. A maintainer
need not commit the lock the script has written, so `RunsEnd` lets a clone stay there.
`Gateway!Spec` has weak fairness of the request's step: limiter, digests and handler
settle, and a client that stalls is cut off by the platform, so that
`ReceiveError` is always possible. Migration states no fairness, as no step of an
operator is due. Elsewhere no fairness is assumed of clients or of the operator,
and nowhere of any particular outcome.

## Proofs

All theorems are of the specifications without fairness and hold for every value of
the constants that satisfies the assumptions `D1Assumption` (finitely many keys,
markers distinct from tokens), `RegistrationAssumption`, `ApnsAssumption`,
`BatchAssumption`, `McpAssumption`, `SyncAssumption`, `ReaderAssumption`,
`GatewayAssumption`, `EscapeAssumption` (the name of a route has nothing to decode),
`PrefixAssumption` (a segment that only begins with the prefix, as
"barkping" with "bark", is not the prefix itself), `PushParamsAssumption` (bodies,
queries and forms are sequences of named values) and `MigrationAssumption` (finitely
many keys, two orders that list each of them, markers that are no rows and no table);
TLC evaluates each in a run of its module.

**BarkWorkerProofs.** `IInv` is inductive: `PhaseInv` (types, and what each phase
says about the locals of a request), `LimitInv` (the table and every limit a
request carries lie below `ceiling`), `StoredOrRetired`, `KnownInv` (a request
whose key is known is in the UPDATE branch and its row exists) and
`RefusalIsJustified`. `DeviceLimit` alone is not inductive: an INSERT compares the
count with the limit its request carries, and only `LimitInv` relates this limit to
`ceiling`. `RowsStay` (no step removes a row) carries `KnownInv` and
`RefusalIsJustified`. From `IInv` follow `TypeCorrect`, `DeviceLimitHolds`,
`CleanupIsSafe`, `KnownKeysAreServed`, `RefusalsAreJustified`, the action property
`RowsBelongToTheirKey`, and `WorkerImplementsDirectory`, in which a write is Renew,
Enroll or Retire, a verdict of APNs is Report and a redeployment raises the ceiling
or stutters.

**ApnsClientProofs.** `SendInv` (types, what APNs can have decided in each phase,
and that the histories agree with its last decision) and `JwtInv` (a JWT in use was
signed by an attempt that is past signing; a rejected one has left the cache and
cannot be signed again) give `ClientTypeCorrect`, `RejectedJwtsAreDropped` and
`ClientImplementsSender`.

**BatchPushProofs.** `BarrierInv` says that the calls under way belong to the
current chunk, or are the single call; with the size of a chunk (`ChunkIsSmall`) it
gives `ConcurrencyIsBounded`. `BatchInv` adds `TokenInv` (a call that sends holds a
token) and `RowsInv`: the rows are those of the positions before `from`, the calls
of these have settled and stay as they are, and the positions after the current
chunk have not started. `RowsAnswerKeys` speaks only of an answered request and is
not inductive; `RowsInv` says how it comes about chunk by chunk. The lemma
`FinishChunkKeeps` does the step in which rows are appended and the next chunk
starts. From `BatchInv` follow `BatchTypeCorrect`, `RowsAreInOrder` and `NoPositionIsPushedTwice`.

**McpServerProofs.** `Good` says of each phase what `handlePost` has checked on the
way there: the header and the version, the session under the secret the request
arrived with, the id, the key. `IInv` is `TypeOK`, the type of the messages and
`Good` for every request; `McpTypeCorrect`, `OneVersionIsNamed`, `SessionsOpenTheirEndpoint` and
`OnlyRequestsPush` follow from it. `EndpointDecides` also needs `AssignedInPlace` and
`AssignedLast`, which say what `buildPushMessage` reads after an assignment to an
object that has the name, or has not.

**UpstreamSyncProofs.** `IInv` consists of `TypeOK`, `WaitInv` (what waits has an
attempt left, so the counter stays in its type), `MainInv` (no lock on main is broken
or ahead of upstream, each is newer than the one before) and `RunInv` (the working
copy holds the lock of its clone, a broken one, or a whole one that is not older; a
run that downloads has a commit newer than that of its clone, and its files are of
it). That the lock of a clone is on main, at `base`, is what makes a fast-forward push
an advance. It gives `SyncTypeCorrect`, `LocksOnMainAreWhole` and `LocksOnMainAdvance`.

**GatewayProofs.** `Passed` says that a request past the limiter or past the
authentication has been let through or is exempt, by what that check takes its path
for; `Kept` that what is kept of a body is what was sent, and fits. The theorems on
routes then rest on two lemmas about the three readings of a path: what
`protectRequest` exempts is at most a health check for the router (`ExemptRoutes`), and
what the middleware frees is a health check or a route of registration
(`AuthFreeRoutes`), for every prefix, path and method, and whatever decoding does to other
names: a path that a guard recognises consists of names of routes, and these are their own
decoding (`RoutedNames`), as is a prefix that is such a name (`NamedPrefix`). They give `LimiterIsAsked` and
`CredentialsAreAsked`, and `IInv` gives `GatewayTypeCorrect` and `BodiesAreWhole`.
`FreeRoutesStayOpen` goes the other way, and says how far it goes: what the router takes for
a free route the two guards let through (`FreeRoutesAreFree`, `HealthIsExempt`), unless the
path spells a route or the prefix with percent-encoding (`Respelled`) or is the prefix itself,
for which the run `gateway_health` shows that it is refused. It needs `PrefixIsWhole`, which
is `PrefixAssumption` for the prefix in force, because `Cut` takes a prefix off in the middle
of a segment and the router does not; and `Refused`: only a path that is not exempt was
asked and answered 429 or 503, and only one that is not free 418.

**MigrationProofs.** A sort is stated by the place of each row, the number of rows
ranked before it. `PlaceIsOneToOne` and `SortedByPermutes` show that rows with distinct
keys each get a place of their own, so that neither sort loses or repeats a row;
`SortedIsSorted` that sorting again with the same order changes nothing. `IInv` has one
part per program. `ExportInv`: a damaged export still carries the checksum of rows that are
exactly those of the old server, so what a reader accepts is whole (`AcceptedIsWhole`)
although it sorts differently. `ConversionInv`: a SQL file holds the first of the
verified rows. `TableInv`: D1 has no key the old server had not, so executing a part of the
rows does no harm and executing all of them gives the source (`UpsertWrites`).
`ImportInv`: `MigrationIsComplete` and `ImportedIsThere` are not inductive alone, because an import that
has updated the file, or that has lost it while it had it open, has not reported yet.
`IInv` gives `MigrationTypeCorrect`, `MigrationIsFaithful`, `TargetsAreWhole` and `ImportsStay`,
and the action property `UploadsAreHarmless`: since a SQL file, however short, holds rows of
the source, executing it renews rows and loses none.
`OneOrderConverts` adds what the violated `AuthenticExportConverts` leaves open: with
`ByteOrder = LocaleOrder` it holds, so the difference of the orders is its only cause; and
`AuthenticImports` that the way back, through `bark-db import`, has no such flaw: it refuses
the contents of an export only if they are damaged or incomplete. Both rest on
`AuthenticInv`: an undamaged export passes the checks of a reader that sorts by bytes.

**PushParamsProofs.** `Object.assign` is a recursive function over the entries of its
source. That the recursion has a solution (`MergeExists`) and what it preserves
(`AssignAllKeeps`) are inductions, done on concrete sets of numbers with `LeastNumber`, which
follows from the well-foundedness of the finite subsets of Nat. What is preserved is `Ordered`: no
other spelling of the device key comes after `device_key`. A body that spells it in one way has
it, the folded names of queries, forms and paths keep it, and so does the deletion of
`device_keys`; a `device_key` assigned to such an object decides (`AssignDecides`,
`DecidingKey`). They give `PushParamsTypeCorrect`, `PathsDecide` and `BatchesReachListed`, for entries
of any number.

Every invariant and every action property of a passing run is the subject of a
theorem. Only model-checked is what is stated under fairness (`RequestsSettle`, `SendsSettle`,
`BatchIsAnswered`, `McpRequestsSettle`, `RunsEnd`, `RequestsAreAnswered`), which is out of the
prover's reach, and the three violations.

## Left out

- The text of notifications, the payload, DER, base64 and hashing conversions.
- `created_at` and `updated_at`, which no code reads.
- Two limits of what the code can promise: an INSERT whose answer is lost leaves a
  row whose key nobody knows (it counts against the limit), and `getJwt` may have
  returned a JWT just before another send learns that it was rejected, so that one
  more POST may carry it; `RejectedJwtIsNotReused` is about `getJwt`.
- MCP: that a request whose secret was replaced after it arrived is judged by the
  old one is in the model; the body is read in the same step, as no other request
  can tell. Tokens are unforgeable by construction (`Garbled` stands for any other
  header).

- Gateway: a prefix of more than one segment, and what `decodeURI` does to a character: a
  segment that has percent-encoding stands for any name. A health check or a route of
  registration whose name or prefix is percent-encoded is guarded like any other route; with
  a prefix that is not ASCII these are all of them. No document speaks of such prefixes.
- Migration: flags, the schema version, time stamps, and the exit codes of wrangler.
  Two imports with one `-output` may both report success, or the one that fails last
  may remove the other's file (`main.go:143`, `main.go:157`): `ImportedIsThere` states this
  as the only way to lose an import. `docs/MIGRATION.md:73` says without this exception that
  existing files are not overwritten; it speaks of one import, for which that holds.
- UpstreamSync: a branch of upstream that is reset to an older commit, and an answer of the
  GitHub API that is older than one given before. The script compares commits for equality
  only and would lock such a commit; `LocksAdvance` holds as long as neither happens.
- UpstreamSync: the texts that are fetched; a file is the number of its commit.

Not modelled: `scripts/print-upstream-apns-key.mjs`, which fetches one file and
prints a part of it; `utils/objects.ts`, `utils/responses.ts` and the other formatting
helpers, which keep no state; of `config.ts` the spelling of the mode, the build
information and the limits that are parsed as `maxRequestBodyBytes` is; of the
requests the parameters that do not decide where a push goes.

Five hazards have no property. A second rejection of a JWT leaves it in the cache
(`cloudflare-apns-client.ts:321`), sends that start on an empty cache sign a JWT each
(`:192`) and store them in the order their signatures settle, an older one last (`:212`), and
a clock that is set back or jumps makes getJwt sign again (`:194`): all four are behaviours of
ApnsClient, and no document promises otherwise. A lock that is cut short
(`sync-upstream.mjs:122`) stays in its clone by the order of the steps.

## Plan

Modelled in the order of what carries the system's state: the table with
registration and push over it, the APNs client, the batch, the parameters and the
MCP server; then migration, synchronization, and the gateway with the body reader.
What could follow is a module that composes Push with ApnsClient in place of the
nondeterministic outcome of `send`, shown to implement "a device is notified at most
once per call". Today `ImplementsSender` shows that `ApnsClient` keeps what `pushOne` relies
on, and Push assumes no more than that.
