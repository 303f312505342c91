# Verification of duta-mcp-host

duta-mcp-host is one asyncio process (`gateway.py`) that mounts `geneco-mcp`, an
MCP server: operators register a tenant's credentials over admin endpoints, and
a chatbot orchestrator calls tools, which resolve those credentials and talk to
D365 (Dataverse), the tenant's Azure Key Vault or the custom cxchat API.  There
is little code in it and much that can interleave: every `await` of a handler
lets any other handler run.  This directory models the part where that matters,
checks it with TLC and proves the main results with TLAPS.

Paths below are relative to `src/geneco-mcp/` unless they start with `src/`.

## The system

| component | state | operations | hard about it |
|---|---|---|---|
| D365 credential store (`app/store/credentials.py`, `app/protocol/admin_router.py`) | table `d365_credentials`, one row per tenant | POST, GET, DELETE | an upsert is load, assign, commit, refresh, with awaits between; the commit writes the *changed* columns; conflicts and failures on either side of a commit |
| custom API credential store (`app/store/custom_api_credentials.py`) | table `custom_api_credentials` | the same three | the same, with no cache behind it |
| credential cache (`app/store/crm_resolver.py`) | dict tenant → (id, secret, expires_at), in memory | get, set, invalidate | lazy expiry; lost on restart |
| resolver (`app/store/crm_resolver.py`) | none of its own | get_connector: SELECT, cache, two vault reads, fill | a fill races an invalidate; the row and the cache are read at different times |
| Key Vault client (`app/clients/keyvault_client.py`) | none | get_secret, twice per fetch | two reads of one pair; blocking msal |
| tool handlers (`app/tools/`) | none | seven tools | an effect whose reply is lost; verify-then-act across a reconfiguration |
| D365 connector, custom API client (`app/clients/`) | none, one per call | three and four requests | which replies become errors, results, or escape |
| MCP router (`app/protocol/router.py`, `models.py`) | none | initialize, notifications/initialized, tools/list, tools/call | malformed requests; a DB connection held for the whole call |
| engine and pool (`app/db.py`), event loop | connections; who runs | checkout, wait, return; await | exhaustion; a call that blocks the loop |
| gateway (`src/gateway.py`) | the sub-apps' lifespans, an exit stack | lifespan, per-request tag | partial start; shutdown order |
| observability (`src/shared/duta_mcp_shared/observability/`) | the context of each task | bind, unbind, log_context, configure | nesting; interleaved requests; what is logged after the unbind |
| crypto, config, registry, migrations | constants after start; schema | decrypt; upgrade | a key that was rotated |

They interact by calls inside one event loop (router → tool → resolver → store,
cache, vault; tool → client → backend), by shared state (the two tables, the
cache, the connection pool and the loop itself), and by HTTP with three
external systems.  There is no retry, no background task and no lock.

What makes each correct: the store keeps whole posted records and answers with
what it did; the cache never serves one tenant's registration to another, never
mixes two configurations in an undisturbed call, and gets rid of what is stale;
a tool does at most one thing, for the account that was verified, and says what
it did; a slow backend delays others for a bounded time and loses no connection;
the gateway serves only while its sub-apps are up, stops what it started, and
tags each line with its sub-app.  `PROJECT.json` lists the hazards line by line.

## Modules

```
Tenancy                 the set of tenants
CredentialDirectory     abstract: a linearizable directory of whole records
CredentialStore         the tables and the admin handlers   --implements--> CredentialDirectory
CrmCredentialCache      the TTL cache: operators on one variable
CrmResolver             CredentialStore + CrmCredentialCache + vaults + tool calls resolving
CrmStaleness            CrmResolver + the clock, also while calls resolve
D365Incident            the body of a case as a function of the field map
ToolCalls               the POSTs: router and seven tools over backends that act and then answer, or do not
CrmToolCalls            CRM tool calls end to end: the handlers over CrmResolver   --implements--> ToolCalls
ServiceLoop             the event loop and the connection pool under all requests
Gateway                 lifespans of the sub-apps, service tag and log contexts of requests
*Proofs                 the theorems about CredentialStore, CrmResolver, CrmStaleness, ToolCalls, CrmToolCalls,
                        ServiceLoop, Gateway
MC*                     small instances; one .cfg per run
```

**CredentialStore.**  `row[t]` is the committed row of a tenant, a function from
columns to values; `req[a]` is where the handler of request `a` stands, with the
locals it still needs.  One action per stretch of code between awaits:

| action | code |
|---|---|
| `Reject` | `_require_admin_key`: 401 before a session exists |
| `Get` | the GET handler: one SELECT, answered from its result |
| `UpsertLoad` | `session.get` in `upsert` |
| `UpsertCommit`, `UpsertConflict` | assignments and `commit()`: INSERT if nothing was loaded, else UPDATE of `Dirty` columns; IntegrityError / StaleDataError |
| `UpsertRefresh`, `RefreshGone` | `refresh(row)`; the row is then in the identity map, and `get_redacted` shows it without another SELECT (`expire_on_commit=False`) |
| `UpsertRespond` | the session closes, the handler answers |
| `DeleteStart`, `DeleteRow`, `DeleteRespond` | the DELETE handler; `rowcount` becomes 204 or 404 |
| `FailBefore`, `FailAfter` | a database error before a commit took effect, or after it (the acknowledgement is lost, `refresh` fails) |
| `Restart` | the process dies with its requests; the table stays |

`Dirty` is SQLAlchemy's rule: an UPDATE names the columns whose value differs
from the loaded one.  The secret is always among them, because Fernet
ciphertexts are salted and never compare equal.  `enabled` is always set to
true and never to false, so it is not a column of the model; nor are the
timestamps, which no handler reads.  The custom API table has the same
handlers; `Columns` is a parameter.

`Spec` lets all requests overlap.  `SerialSpec` is the same system while no two
POSTs for *one* tenant overlap, an assumption about operators that the code
neither enforces nor documents: under it the store does what its documentation
says, without it it does not (run `store_torn`).

**CrmCredentialCache.**  `cache[t]` is an entry (registration, ticks left) or
none; `expires_at <= now` is `left = 0`.  `CacheTick` is the clock.

**CrmResolver.**  A call is split where `get_connector` awaits: `ReadRow` (the
SELECT), then in one step the cache lookup and what follows it (`Hit` or
`Miss`), `VaultAnswersId`, `VaultAnswersSecret`, `Land` (both secrets are here:
fill the cache, build the connector).  A call that fails at its SELECT changes
nothing and is a stutter.  An admin step is a step of `CredentialStore` together
with what it does to the cache: only `AdminRespond` invalidates, as in
`admin_router.py:90,122`, after the session has closed; an error after the commit
(`AdminLost`) skips it.  A registration is a vault and the generations of its id
and secret, so that a mixed pair can be told from a whole one.  Two history
variables state the properties: `excused` holds the tenants given a stale entry
by a late fill or a failed admin request, `calm` the calls whose tenant did not
change while they resolved.  An entry is `Stale` when a row is there and the entry is not
what the row's vault holds now, `Orphaned` when no row is there: calls answer "not configured"
before they ask the cache, so an orphan is served to nobody until its tenant is posted again.

**CrmStaleness.**  CrmResolver lets an entry age; here the same tick also ages the
calls that are in `get_connector`.  `Elapse` is the tick, every other action is one of
CrmResolver that takes no time.  Three histories measure: `fetch[c]`, the ticks
since call `c` read its row; `behind[c]`, those for which what it has read since is
`Outdated`: its vault has another id, or the tenant's row names another vault or is
gone; `lag[t]`, the same for the registration cached for a tenant.  `MaxFetch` bounds
one run of `get_connector` (the SELECT's return to the second secret, each request
answered or timed out).

**ToolCalls** (with **D365Incident**).  A POST whose body is not a `tools/call`
of a known tool with valid arguments is answered by the router at once
(`Serve`, with the table `Served`).  A call reads its tenant's configuration
(`ReadConfig`, `NotConfigured`, `StoreFails`, `DecryptFails`), and keeps what it read to
its end.  If its tool is a CRM one it gets a registration (`VaultFails`, `Connect`) and
looks the account up (`LookupReached`, then `LookupFails`, `NoMatch` or `Match`).
It makes at most one more request: `RequestReached` is the backend acting,
`RequestAnswered` the reply arriving.  Splitting effect from reply is what lets a
reply be lost after the effect.  Which reply makes which method raise, leak or
relay is in four small tables (`Raises`, `Leaks`, `Declines`, `Blank`), read off
the clients' `except` and `if` lines.  `Fruitless` is what may come back though nothing was
done, a 200 that declines or that lacks its keys among it; excluded is only that a backend
says in so many words that it did what it did not (the OData-EntityId of a case that was not
created, a SuccessCode or a Result of success without a mail or a reversal), for the service
has nothing else to go by.  The effect of `create_support_case` is the
body `IncidentBody` makes of the texts given, the account and the tenant's
field map: later writes to a column win, the account's last.  `done` and `read`
are histories of effects and lookups.  `Reconfigure` stands for the admin
endpoints, `Relink` for D365's own data changing; `Restart` cuts the calls in
progress, and what a backend was sent before stays done.  Where a registration comes
from is left open here: that is CrmResolver.

**CrmToolCalls.**  The two together: every CRM call of `Posts` (its tool, tenant and
texts) runs through the row, the cache, the vaults and D365, while operators post
and delete rows.  The handler's own steps are those of one instance of ToolCalls
(`Handlers`), the resolution's those of CrmResolver, and where they meet an action is
a step of both: `Resolve` reads the row, `NoCredentials` finds none, `ResolveFails`
answers for a vault that fails, `Connected` builds the connector when `Hit` or `Land`
gives a registration, from the row that was *read* (`crm_resolver.py:114`), `Crash` ends
the handlers with the process.  A second instance (`Tools`) is the abstract view:
a handler that awaits `get_connector` is at ToolCalls' stage "vault" as soon as the
resolver holds a row, with what that row says (`Progress`), and the abstract
configuration of a tenant is what its committed row says now (`Config`).

**ServiceLoop.**  What requests share besides data.  A request of one of six
kinds takes a connection at its first statement (`Checkout`) or waits for one
(`Queue`, `PoolTimesOut`), and keeps it to the end of its session, which for a
tool call is after its last request.  A POST of credentials gives it back at its
`commit()` (`CommitReturns`) and takes one again for `refresh()`, so it may wait twice
(`Checkouts`).  A cold CRM call makes four requests (two
secrets, account, cases), a warm one two, a custom API call one.  Before the
first request of each client msal asks for a token synchronously: `loop` is the
call inside msal, and no handler and no timer runs until `TokenReturns`.
`Replies`, `Drips` and `RequestTimesOut` are the outcomes of a request: a part of
a reply starts httpx's read timeout anew.  `Tick` is time; handlers and the
database take none; a backend that is well replies within `ReplyTime` ticks; a tenant in
`Silent` may have one that answers later or never, one in `Dripping` one that answers bit by bit, one in `SlowLogin` a slow
token endpoint.  `awake[c]` counts the ticks a request has seen with the loop
running.

**Gateway.**  `phase`, `sub` and `stack` are `lifespan`: `Configure` begins it,
`SubUp` pushes an exit as `enter_async_context` does, `SubFails` makes `gather`
raise, which unwinds the stack *while other sub-apps go on starting*, `SubDown`
runs the last exit.  A request is `BindService` (the middleware up to
`call_next`), `EnterContext`, `ExitContext` and `AppLogs` in the app's task, whose
context is a copy, `Leave`, `UnbindService`, and `ServerLogs`: the response is
sent, and uvicorn logs, only after the unbind.  `ServiceForPath` is the
first prefix that begins the path.  One sub-app is mounted today; the module is for
any list of them, as `gateway.py` is.

## Properties and runs

Deadlock checking is off only for `MCCredentialStore`, whose requests are made
once and then over; the other systems never stop (a clock or an environment
always has a step).

| run | instance | shows |
|---|---|---|
| `store_serial` | 2 tenants, 3 requests, 3 columns | `TypeOK`, `RowIsAPostedBody`, `NoStaleCopy` and the refinement `ImplementsDirectory`, under `SerialSpec` |
| `resolver_safety` | 2 tenants, 3 vaults rotating once, 2 requests, 2 calls, TTL 1 | `ResolverTypeOK`, `StaleEntryHasACause`, `CalmCallIsCoherent`, `TenantIsolation`, with any overlap of requests |
| `resolver_timed` | 1 tenant, 2 vaults rotating once, 2 requests, 1 call at a time, TTL 2, get_connector up to 1 tick | `StalenessBounded`, `Settles` |
| `tools_safety` | 1 tenant, 2 POSTs, 2 servers, 2 accounts, field maps that name the other text's column and the account's | `TypeOK`, `CaseForVerifiedAccount`, `TextsReachTheCase`, `AtMostOneEffect`, `AnswerMatchesEffect` |
| `crm_endtoend` | 1 tenant, 2 bodies with a server and a vault each, vaults rotating once, 2 requests, a call that opens a case, TTL 1 | `OneConfigurationPerCall` and the refinement `ImplementsToolCalls`, under `SerialCrmSpec` |
| `service` | 1 connection, 3 requests; one tenant whose backends answer within a tick, one silent with a slow login, one dripping | `LoopTypeOK`, `ConnectionsAccounted`, `LatencyBounded`, `EveryCallIsAnswered` |
| `gateway` | 2 sub-apps, 4 paths, 2 requests, log contexts two deep | `GatewayTypeOK`, `LinesAreTagged`, `BlocksNeverMislead`, `ServedWhenUp`, `UpIsStopped` |

* `RowIsAPostedBody`: a row is one posted body, not columns of two.
* `NoStaleCopy`: no handler writes from, or echoes, a copy of the row that is out of date.
* `ImplementsDirectory`: each request takes effect at most once, at one instant
  between call and answer, and the answer tells what it did; a failed one may or may not have taken effect.
* `StaleEntryHasACause`: an entry that is from a vault the row does not name, or whose
  row is gone, has one of three causes: an admin request still to invalidate, a fetch that landed late,
  an admin request that raised after its commit.
* `CalmCallIsCoherent`: a call that no change of its tenant overlapped, on an
  entry nobody spoilt, uses organisation and registration of one configuration.
* `TenantIsolation`: cache entries and connectors use vaults posted for their own tenant.
* `Settles`: when operators and vaults rest, what the cache serves becomes and
  stays the registration in the vault, however often it is used.
* `StalenessBounded`: a registration that its vault has replaced, or in whose place a
  committed POST or DELETE has put another vault's or none, is used for at most TTL
  plus the time of the `get_connector` that cached it: longer than the TTL alone, by just
  that, because `expires_at` is set when the fetch lands.  It is what remains of "takes
  effect immediately" (`crm_resolver.py:68`), which run `rotation` refutes.
* `CaseForVerifiedAccount`: a case is opened for the account D365 itself selected
  for this call, in the organisation that selected it, though the tenant is moved
  in between, and whatever columns the field map names.
* `TextsReachTheCase`: what the customer said is in the case, whatever a map overrides by
  the keys the code reads (subject and description), unless its column is the account's or
  the other text's.  Maps with the documented key "title" are the subject of run `overrides`.
* `AtMostOneEffect`: no reply pattern makes a call act twice.
* `AnswerMatchesEffect`: a reported case, reversal or mail has one behind it; a reversal
  reported as declined did not happen; and who is refused had nothing done.  Three answers say
  nothing either way: an error, the relayed `Stack` of a password reset (an outage after the
  mail looks the same), and a blank one, `"result": null` with isError false, which a 200
  without `Result` becomes (`custom_api_client.py:164`).
* `ImplementsToolCalls`: from the outside a call goes by one configuration, read at
  one instant.  That the row may change between the SELECT, the vault's two answers
  and the requests to D365 is as if it had changed before the call or after it.
* `OneConfigurationPerCall`: what a call reads or opens is in the organisation that one
  posted body names and by that body's field map, and if no change of the tenant overlapped
  the call and nobody spoilt the entry it met, with a registration from that same body's vault.
* `ConnectionsAccounted`: free connections and calls holding one are the pool,
  however sessions end.
* `LatencyBounded`: not counting the time the loop was blocked, a call is over
  within the pool's timeout for each connection it takes (two for a POST) and those of its
  own requests, whatever other tenants' backends do; only a dripping backend can prolong its
  own tenant's calls.
* `EveryCallIsAnswered`: such a call is answered in the end, if only with an
  error, though a dripping backend holds the last connection for ever.
* `LinesAreTagged`: what a sub-app logs for a request carries its name, however
  requests of several interleave and whatever log contexts are open.
* `BlocksNeverMislead`: a key that log_context adds to a line has the value of the innermost
  open block of that request which binds it; never a shadowed one's, nor that of a block which
  was left or is another request's.  It may be *missing*: an inner exit unbinds what an outer
  block bound too, although the docstring says otherwise (see below).
* `ServedWhenUp`, `UpIsStopped`: requests are handled only while every sub-app is
  up; what is up has exactly one exit on the stack, so that it is stopped, and only
  after a failed start can the gateway end with something still up.

### Where the code and its documentation differ

Each of these runs checks a sentence of a comment or a README, and TLC shows a
behaviour of the code that breaks it.

| run | property | behaviour |
|---|---|---|
| `store_torn` | `RowIsAPostedBody` | two POSTs load the same row; each commits the columns that differ from it; the row is a mixture, both answered 200 |
| `rotation` | `RotationTakesEffectNow` | a POST registers a vault and a call reads the row and asks it; a second POST puts another vault there, invalidates and answers; the old registration arrives and is cached, and served beside the new row, for a TTL |
| `pair` | `PairIsOneRegistration` | the vault rotates between the two GETs; the mixed pair is cached |
| `overrides` | `OverridesApply` | a tenant's field_map is `{"title": "urgent"}`, as `admin_router.py:55` documents; the case's title is in column `title`, and nothing in `urgent` |
| `outage` | `OutageIsLocal` | a vault answers its first secret late and is silent on the second, and its call holds the only connection; another tenant's call, whose registration is cached, waits for one and fails with a 500 |

Seen while modelling, without a run of their own: a backend whose reply is JSON but not an
object raises `AttributeError`, which nothing catches, an HTTP 500 (`keyvault_client.py:108`,
`d365_connector.py:167`, `custom_api_client.py:80`; `README.md:192` says "never a 5xx", and
`Leaks` has them all); `log_context` says that "outer context managers are unaffected when an
inner one exits" (`src/shared/duta_mcp_shared/observability/context.py:37`), but an inner block
that binds a key of an outer one unbinds it for the rest of the outer one (line 44; `ExitContext`
does so); a 200 of reverse_fee without `Result` is relayed as `"result": null` with isError
false; a POST of credentials whose second checkout times out answers a 500 although it has
committed, and skips the invalidate; two calls of a tenant that miss
together both read the vault (`crm_resolver.py:3` says once per TTL); an expired
entry stays in memory until its tenant is next called (`crm_resolver.py:9` says at
most the TTL); `params` that are not an object are an HTTP 500 (`models.py:3` says
an rpc_error); a Dataverse reply without `value` is told to the customer as an account that
does not match (`d365_connector.py:167`; `README.md:192` says "never fabricated data"); uvicorn's access lines and tracebacks are tagged `duta-mcp-host`
(`src/gateway.py:5` says every per-request line carries the sub-app).

### Bounds

* Two tenants suffice for isolation (one disturbs, one is disturbed).  In
  `store_serial` tenant `t1` is posted three bodies that differ in one, two or
  all columns, so that merges of two of them may be nobody's; three requests
  give two writers and a DELETE or GET between them.
* Two calls and two admin requests on one tenant give every race of the cache:
  fill against fill, fill against invalidate, hit against either.  More of them
  are covered by the proofs.  Call slots are used again, so the number of calls is not bounded.
* The two field maps of `tools_safety` are those that can lose a text or the account: one moves
  the description onto the title's column, one moves the title onto the account's and the
  description elsewhere; the proofs are for every map.
* TTL 1 separates a live entry from an expired one; the runs with the clock take 2,
  so that an entry can be used between two ticks of its life.
  `MaxGen` bounds rotations: one of each vault.  Two requests let a tenant be
  moved, moved back or deleted.  `resolver_timed` has one call slot: fetches that overlap each
  other are in `resolver_safety`, whose second slot makes a liveness check too long, and in
  the proof of `StalenessIsBounded`.
* `crm_endtoend` has one account (which one is picked is the subject of `tools_safety`) and
  one call, made once, so that its registration always comes from a vault.  To the handler
  one from the cache is no different (`Connected` is the same step for `Hit` and `Land`), and
  what hits can be is in `resolver_safety`; the proofs are for any number of calls.
* Two accounts and two servers: one looked up, one that takes its place.
* One connection and three requests give holding, waiting and giving up at once; more
  connections only postpone it, and the proofs hold for any number and any timeouts.  `service`
  takes the smallest that keep every order: a healthy reply takes as long as the pool waits (1
  tick), a silent one longer (2), so that healthy calls too make others wait and be refused.
  Its tenants send a part of the kinds each: the healthy one's a GET, a POST, a health check and a
  cold call, the silent one's a warm call, the dripping one's a custom call.
* `outage` has what its sentence needs to be fair: the pool waits 9 ticks and a request 5, as the
  30 s and 15 s of the code (9 and not 10, so that the refusal does not hang on two timers that
  are due at the same instant; in the code a call's token requests and statements take time as
  well), and a healthy request takes 1.  With no silent vault the same instance
  refuses nobody: three calls of healthy tenants are too few.  In the real pool of 15 enough
  healthy calls do make others wait 30 s, which is load, and the documents promise nothing of it.
* Two sub-apps are the fewest of which one can fail while another starts; a path
  that a prefix begins but that no sub-app serves, and one of the gateway's own, are
  among the four.  Contexts two deep can bind the same key twice.
* Requests, calls, servers, accounts and the two vaults of a tenant are interchangeable and declared
  symmetric in the safety runs; in `crm_endtoend` a server and its vault are exchanged
  together.  `ImplementsToolCalls` is a safety property (an initial condition and steps) that
  treats them alike too; the runs of a liveness property use no symmetry.

### Fairness

`TimedFairSpec` (`Settles`): weak fairness of `Elapse`, for `time.monotonic()`
advances whatever the program does, and of a call in `get_connector` going on: the
loop resumes it, and the request it waits for is answered or times out.  No handler is
assumed to begin anything, no operator to act, no vault to rotate or to answer well.  `Settles` needs operators and vaults to rest; in
the model they do because requests are made once and rotations are bounded.

`FairLoopSpec` (`EveryCallIsAnswered`): weak fairness of time, of each handler and
timer of the process (asyncio runs what is ready), of msal's return, and of the
replies of backends that are not `Silent`.  Nothing makes a silent backend reply: its calls
end by the timeout.  That msal returns is an assumption: it sets no timeout of its own, and
without it one login endpoint stops the service, which is what the model then says too.  So is
that the database answers: no statement has a timeout (`app/db.py`).  Calls are finitely
many, so nobody is overtaken for ever at the pool.

## Proofs

All proofs are for any tenants, columns, bodies, requests, calls, vaults, servers,
accounts, field maps, sub-apps, paths, log contexts, pool size, timeouts and TTL,
from the constants' named assumptions: the secret is a column, posted bodies are
bodies whose vault column names a vault, `NoRow`, `NoEntry`, `NoCall` and `None` are not values,
TTL, `MaxGen` and `MaxFetch` are naturals, timeouts and pool size positive naturals, calls finitely
many, a registration is a vault with two generations, "service" is bound by no log_context, no
sub-app's prefix begins the paths of one listed after it; and end to end, calls are of CRM tools,
and a posted body's "org" is a server and its "field_map" a map to columns of a case.

| theorem | statement |
|---|---|
| `TypeCorrect` | `Spec => []TypeOK` |
| `ProvenanceOfColumns` | `Spec => []ColumnsWerePosted`: each column of a row was posted for its own tenant |
| `RowsAreWhole` | `SerialSpec => []RowIsAPostedBody` |
| `CopiesAreCurrent` | `SerialSpec => []NoStaleCopy` |
| `StoreImplementsDirectory` | `SerialSpec => ImplementsDirectory` |
| `ResolverTypeCorrect` | `ResolverSpec => []ResolverTypeOK` |
| `TenantsAreIsolated` | `ResolverSpec => []TenantIsolation` |
| `StalenessIsCaused` | `ResolverSpec => []StaleEntryHasACause` |
| `CalmCallsAreCoherent` | `ResolverSpec => []CalmCallIsCoherent` |
| `CallsTypeCorrect` | `ToolCalls!Spec => []TypeOK` |
| `CasesAreForVerifiedAccounts` | `ToolCalls!Spec => []CaseForVerifiedAccount` |
| `NoTextIsLost` | `ToolCalls!Spec => []TextsReachTheCase` |
| `CallsActAtMostOnce` | `ToolCalls!Spec => []AtMostOneEffect` |
| `AnswersAreHonest` | `ToolCalls!Spec => []AnswerMatchesEffect` |
| `TimedIsAResolver` | `TimedSpec => ResolverSpec` |
| `StalenessIsBounded` | `TimedSpec => []StalenessBounded` |
| `CallsImplementTools` | `CrmSpec => ImplementsToolCalls` |
| `CallsKeepTheirPromises` | `CrmSpec => [](Tools!CaseForVerifiedAccount /\ Tools!TextsReachTheCase /\ Tools!AtMostOneEffect /\ Tools!AnswerMatchesEffect)` |
| `CallsGoByOneConfiguration` | `SerialCrmSpec => []OneConfigurationPerCall` |
| `LoopTypeCorrect` | `LoopSpec => []LoopTypeOK` |
| `NoConnectionIsLost` | `LoopSpec => []ConnectionsAccounted` |
| `CallsEndInTime` | `LoopSpec => []LatencyBounded` |
| `GatewayTypeCorrect` | `GatewaySpec => []GatewayTypeOK` |
| `LinesCarryTheirService` | `GatewaySpec => []LinesAreTagged` |
| `BlocksTellTheTruth` | `GatewaySpec => []BlocksNeverMislead` |
| `RequestsFindSubAppsUp` | `GatewaySpec => []ServedWhenUp` |
| `StartedIsStopped` | `GatewaySpec => []UpIsStopped` |

*The store.*  `RowIsAPostedBody` is not inductive: whether a commit keeps it
depends on the loaded copy.  `SerialInv` adds that bodies in flight were posted
for their tenant, that one POST per tenant is running, and `NoStaleCopy`.  The key
step (`CommitReplaces`): if the loaded copy is still the row, writing only the
columns that differ from it yields exactly the posted body (`MergeIntoLoaded`);
if a DELETE took the row, the commit conflicts.  `SerialInv` also gives the
refinement: a commit is the directory's `Apply`, `UpsertRefresh` is a stutter
because the row read back is the body, and every other step is matched one to one.

*The composition.*  `StepOfStore` shows that every step of `CrmResolver` is a step
of `CredentialStore` or leaves it alone, so the store's theorems under `Spec` hold
of the composed system.  `TenantIsolation` needs `Provenance`: every row snapshot
and every half-fetched registration of a call is from a vault posted for its
tenant, which follows from `ColumnsWerePosted`.  `StaleEntryHasACause` is
inductive with types: a row changes only in a step that makes the change
unannounced, an announcement drops the entry, a fill records itself.
`CalmCallIsCoherent` adds that the row snapshot of a calm call at the cache is
still the row and nothing is unannounced, so that a hit that is not excused is
not stale.

*The clock.*  `TimedIsAResolver` carries the theorems of CrmResolver over.
`ClockInv` counts an entry's age in two parts: while a call is in `get_connector`, what it
has read was outdated for no longer than it has had it (`behind <= fetch <= MaxFetch`);
from its landing on, what the entry has lost of its TTL is all the time that can be added.

*The tool calls.*  None of the properties is inductive: `done` is judged at
the end by what happened before.  `CallInv(c)` says for each control point what
the call has done and looked up: nothing before its request, exactly its own
request after it (`CaseOf`: for the account looked up, with its texts in it), and
`read[c]` equal to the server and account it carries from the lookup on.  A step
of a call concerns that call only (`OthersStep`), and `Reconfigure` and `Relink`
no call at all, so one call's invariant suffices.  `BodyOfACase` is the lemma
about `IncidentBody`, for every field map, and `FruitlessIsNoResult` the one about the tables:
no reply to an effectful request that was not carried out becomes a "result".

*End to end.*  `StepOfResolver` shows that every step of CrmToolCalls is one of CrmResolver
or leaves it alone, so the resolver's theorems hold here (`CrmIsAResolver`).  The
refinement needs the coupling of two program counters, the handler's and the
resolver's: `CallsCoupled` says that a call resolves only for a handler that awaits it, for
the tenant the handler was posted for, and that the row it holds makes a connector of the
right type (`RowClient`, from the posted bodies).  With it each action maps to one of
ToolCalls: reading a row is `ReadConfig`, `Connected` is `Connect`, the cache's and the vault's
own steps stutter, an admin commit is a `Reconfigure`, and a restart of the process is a
`Restart` (`CallStepRefines`, `AroundRefines`, `CrashRefines`).  ToolCallsProofs,
instantiated with the same mapping, then gives its theorems for the calls that really
resolve.  `CallsGoByOneConfiguration` joins this to the store: `GoesBy` carries, from the
SELECT to the last request, the posted body that the row was (`RowIsAPostedBody`, hence
`SerialCrmSpec`), and a calm call's registration is from that body's vault by `CalmCallIsCoherent`.

*The loop.*  `LoopInv` ties `loop` to the one call at its token request, each call
to as many checkouts and requests as its kind makes, and the time it has waited to the stages it
has been through (`OnTime`): at its n-th connection at most n - 1 of the pool's timeouts and this
wait; at its n-th request one of the pool's, those of n - 1 requests, and the silence of this one
(`VisitInTime`, `Connecting`).  The bound is lost if a tick could pass a timer that is due, which
`Tick`'s guard excludes while the loop runs.
`ConnectionsAccounted` needs the cardinality lemmas of `FiniteSetTheorems`: a step
adds or removes at most one holder, and moves `free` the other way.

*The gateway.*  `LinesAreTagged` needs `Tagged(r)`: the context of an app's task has
the service of the request's path, which no log_context binds or unbinds.
`BlocksNeverMislead` is inductive with the types: entering a block gives its keys its values, and
leaving one takes its keys from the context, so what is left was bound by a block further out and
by none after it (`EnteredIsTruthful`, `LeftIsTruthful`).  `LifeInv` says that the stack holds what is
up, once each, that everything is up while the gateway serves, and that a sub-app
still starting when the gateway has stopped trying has seen another one fail.

Model-checked only: `Settles` and `EveryCallIsAnswered` (liveness is beyond the
prover) and the violations.

## Not modelled

* Encryption: Fernet is taken at its word, but for salting and for a key that does not decrypt.
* Migrations: straight-line DDL that runs before the server starts.
* Registration of tools: at import, once, before any request.
* Statements that hang, pre-ping and connections broken while idle: the database answers or fails at once.
* The log pipeline but for the service tag: levels, formats, the stdlib bridge; texts of answers; URLs and headers.
* Validation of the admin bodies by pydantic (a 422 before the handler) and the HTML docs pages.

## Plan

Done: the modules above.  What is left, in order of worth:

1. Runs for what is only described above: the access lines (`ServerLogs`) against
   `src/gateway.py:5`, the docstring of `log_context`, and the replies that become a 500.
2. Several processes: each has a cache of its own, and an invalidate reaches one of them.  The
   repository starts one (`src/docker-entrypoint.sh`).
