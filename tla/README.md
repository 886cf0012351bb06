# Verification of helios-permissions

TLA+ specifications of the `helios-permissions` Python SDK, the TLC models that
check them and the TLAPS proofs about them. Paths below are relative to the
repository, whose package is `src/helios_permissions/`.

The SDK answers "may this user do this in this tenant?" inside every service
of the platform. It reads a list of permissions per (user, tenant) from a Redis
that all services share, asks Helios on a miss, and stores what Helios said. Helios
calls `write_through` after it changes a membership, and event consumers call
`invalidate` as a backup.

## 1. Inventory

| Component | State | Operations | Modelled |
|---|---|---|---|
| `permission_client.py`, `PermissionClient` | `_in_flight`: a future per `user_id:tenant_id` being fetched; the options `stale_on_error` and the cache and Helios client it was given | `caller_has_permission`, `get_user_permissions`, `explain`, `invalidate`, `invalidate_tenant`, `write_through` | all |
| `cache/redis.py`, `RedisPermissionCache` | none of its own; the keys `helios:perms:<user>:<tenant>` of the shared Redis, with an optional TTL | `get`, `set` (NX), `write_through`, `invalidate`, `invalidate_tenant` (SCAN and DEL page by page) | all |
| `cache/in_memory.py`, `InMemoryPermissionCache` | a dict of lists with `expires_at` | the same five, `clear`, `size` | all but `size`, a count for tests |
| `helios/client.py`, `HeliosClient` | an HTTP client, owned or given | `fetch_user_permissions` (sign, GET, status table), `aclose` | its three kinds of result, the secret it accepts, ownership and `aclose` |
| `factory.py` | Redis and Helios clients of a `PermissionClient` | `create_permission_client`, `close` | all but `in_memory=True` |
| `role_permissions.py` (generated) | constant tables `ROLE_PERMISSIONS`, `PERM_SCOPE` | `role_has_permission`, `resolve_permissions`, `is_self_scope`, `is_platform_grantable`, `is_tenant_grantable`, `is_permission`, `is_role` | all but `is_role` |
| `scripts/codegen-permissions.py`, `scripts/codegen-py.mjs` | the cached contract file, the generated module | fetch, validate, generate, write, check the version line | all but the layout, and the names in `roles[]` |
| `logger.py`, `__init__.py` files | none that the rest reads | | not modelled: output and re-exports |

### How they interact

* A service process has one event loop and one `PermissionClient`. Tasks of the
  process share `_in_flight`; processes share nothing but Redis and Helios.
* A call awaits, in this order, a Redis GET, then either another call's future
  or a Helios request followed by a Redis SET NX. Between two awaits it runs
  without interruption.
* Helios commits a change to `user_projects` and then calls `write_through`,
  which overwrites unconditionally. Event consumers call `invalidate`, which
  raises on failure so that the event is delivered again.

### What is hard here

* **Interleaving.** The miss test at line 246 and the registration at line 258
  of `permission_client.py` are separated by an await from the GET that
  justified them; the answer of Helios is stored one await after it was given.
* **Ordering at Redis.** SET NX, SET and DEL of different processes execute in any order;
  nothing carries a version. A SET whose sender saw an error, or was cancelled, may still be executed after the call returned.
* **Partial failure.** GET, populate and `write_through` swallow errors; `invalidate` raises;
  Helios errors become a denial or an exception; other exceptions leave
  `_fetch_and_populate` by no `except` clause.
* **Cancellation.** `Task.cancel()` of a joiner cancels the future it shares with others.
* **Liveness.** A joiner has no timeout; it depends on its fetcher settling the
  future on every path.

### What makes each component correct

* `PermissionClient`: one fetch per key and process at a time; no in-flight
  entry outlives its fetch; each call returns, with a list that Helios really
  held for that user and tenant or with a fail-closed denial; a cancellation
  reaches only the task that was cancelled.
* `RedisPermissionCache` with its writers: once the write-throughs and events
  of a key have been handled, the cache holds what Helios holds, or nothing; a
  denial made up during an outage is never stored.
* The whole: a caller is never answered with a list that was replaced, and
  written through, before its call began.
* `explain`: reports what Helios held while it ran, whatever the cache holds.
* `InMemoryPermissionCache`: keeps the protocol of `cache/cache.py`, and a list for exactly its TTL.
* Invalidation of a user or a tenant: drops the keys that exist throughout the
  scan, and only keys that match.
* Codegen: what validation forbids does not appear in tables that can be imported; a build that fails says why the module is
  what it then is.
* `HeliosClient`, factory: only documented exceptions; a `close()` that returns has closed the clients
  that are owned, and an injected Redis stays open.

`PROJECT.json` lists the hazards at their lines with the properties that
cover them, and for those not covered yet the reason.

## 2. Modules

| Module | What it is |
|---|---|
| `RedisCache` | Keys, entries and the effect of each command on the store (`Get`, `SetNX`, `WriteThrough`, `Delete`) |
| `PermissionClient` | `_resolve_perms`, `_fetch_and_populate` and `explain` as tasks of several processes, with an open environment |
| `PermissionSdk` | `PermissionClient` composed with `create_permission_client` and `close()` |
| `PermissionCache` | The abstract protocol of `cache/cache.py`, with the commands of `RedisCache` |
| `InMemoryCache` | `InMemoryPermissionCache` over string keys and a clock; its refinement mapping to `PermissionCache` |
| `ScanInvalidate` | `invalidate` and `invalidate_tenant` as loops of SCAN and DEL, several at a time, next to writers |
| `Codegen` | The build of `role_permissions.py`: validation, emission, the tables' queries |
| `PermissionService` | The abstract promise to callers: which lists a call may return |
| `PermissionSystem` | `PermissionClient` composed with Helios and the event consumers; its refinement mapping to `PermissionService` |
| `MCPermissionClient`, `MCPermissionSystem`, `MCInMemoryCache` | Symmetry, and ids as sequences, for TLC |
| `PermissionClientProofs`, `PermissionClientLiveness`, `PermissionSdkProofs`, `PermissionSystemProofs`, `ScanInvalidateProofs`, `InMemoryCacheProofs`, `CodegenProofs` | Theorems and proofs |

Definitions whose comment begins "Mutant" are faulty variants of the definition
after them. Nothing uses them; each replaces that definition once,
to see that a property fails on the fault.

### From the code to `PermissionClient`

One action is the code between two awaits that may suspend, or what a server
does with a request. `pc[c]` says where the call is:

| `pc` | The task | Leaves by |
|---|---|---|
| `idle` | not begun | `Start` (`_resolve_perms` up to the GET), or `Explain` for a call of `explain` |
| `get` | awaits the GET | `RedisGet`, `RedisGetFails` |
| `got` | the GET has its answer, the task has not resumed | `Hit`, `Join`, `Lead` |
| `join` | awaits another call's future | `Wake` |
| `fetch` | awaits Helios | `HeliosAnswers`, `HeliosFails` |
| `fetched` | Helios has answered, the task has not resumed | `FetchFailed` (HeliosUnreachableError), `FetchRaised` (any other exception), `Populate` |
| `set` | awaits the SET NX | `RedisSet`, `RedisSetFails` |
| `stored` | SET done, the task has not resumed | `Populated` |
| `ask` | `explain` awaits Helios | `HeliosAnswers`, `HeliosFails` |
| `asked` | Helios has answered `explain`, the task has not resumed | `Explained` |
| `done` | returned or raised: `outcome` | |

Splitting "the server acts" from "the task resumes" is what lets an answer be
stale when it is used. `Settle` joins `set_result`, the `finally` clause and the
`await future` of line 270 in one step, since nothing suspends between them: the
future is done when it is awaited. `Cancel` models `Task.cancel()`: the task is
doomed, and if it awaits a shared pending future, that future becomes
cancelled; `Cancelled` raises at the await and runs the `finally`. A fetcher
whose future a joiner has cancelled gets InvalidStateError from `set_result`.

The environment of `PermissionClient` is as free as its claims permit:
`RoleChange` changes a membership, `Overwrite` is a `write_through` of any list
Helios ever held, `Drop` is any DEL (also of a part of the keys that
`invalidate(user)` or `invalidate_tenant` match, and expiry), `ForeignWrite` leaves a value that
`get` cannot read, which is a miss to `get` and present to NX. `Overwrite` covers a SET NX that Redis executes
after its caller has given it up, too: it stores a list Helios held, where there was none.

`PermissionSystem` restricts this environment: `Commit`, then
`WriteThroughDone` or `WriteThroughFails`; `Deliver` is a consumer's DEL of the keys of
a pair, of a user's or of a tenant's (`OneOwner`), all of them or a page. It may come at any time and again; of the events
outstanding it may consume those of keys it has dropped, so the event of a user or a tenant is consumed page by page, and a
scan that fails leaves the rest to the redelivery. `stray` holds the SETs that were given up: the SET NX of a call that saw an error
or was cancelled while it awaited the answer (`GivesUpSet`), and the SET of a `write_through` that raised. Such a command may have
been lost, or is executed at any time afterwards (`StraySet`), more than once if equal ones were given up. Helios and the
consumers are not in the repository; they are modelled from
`permission_client.py` 15-21 and 223-233 and `cache/redis.py` 9-17.

`InOrderSpec` is the same system with one order excluded: an event's DEL does not come while a fetch of one of its keys is
running whose answer Helios has already changed, nor while such a list is on its way in a stray SET (`Overtakes`), as if a consumer
let the time of both pass before it invalidates. Nothing in the code or its documentation does this; the specification is there to say exactly what finding 3 costs.
To Redis a key that expires is a key deleted, so with a TTL the order
concerns expiry as well.

A member of `Explainers` may call `explain`; every call may want the list. `explain` answers with
a decision on one permission; the model keeps the whole list it decides from (`Explanation`), so that a
wrong decision on any permission shows. The role and the reason are a function of the same answer.

### From the code to `PermissionSdk`

`Create` is `create_permission_client` with the options that decide what is built; `Accepted` joins its
checks with the one of `HeliosClient`, which looks at `secret or alias`. `Close` is the call of the closer up
to the await of `helios.aclose()`, `HeliosClosed` the code after it (`if owns_redis`), `RedisClosed` the end
of `redis.aclose()`; `CloseRaises` is either of them raising, after which `close()` may be called again.
Calls go on meanwhile and begin afterwards: nothing in the client forbids it. What is known of the
libraries, which are not in the repository, is this: a closed httpx client refuses requests, which
`fetch_user_permissions` turns into HeliosUnreachableError; a Redis client connects again for the next
command; a connection that is cut fails the commands on it, whence `CloseAssumption`. A request that went out over an
open client (`sent`, set by `Send`) may still be answered while `close()` runs and after it. The history variable
`late` says that a command was executed since `close()` was last called.

### From the code to `InMemoryCache`

Keys are the strings of `_key`: an id is a sequence of characters, and `UserPrefix` and `TenantSuffix` are
compared with the key character by character, as `startswith` and `endswith` do. No method awaits, so each is
one action. `ttl` is chosen once among `Ttls`; `Inf` is `float("inf")`, the default. `Found(k)` is what a `get`
would find, and is what the refinement mapping shows to `PermissionCache`: an expired entry that is
still in the dict is an absent one. `PermissionCache` is the protocol as `RedisCache` has it, with the last
call and its result (`last`), so that an implementation cannot hand out another list than its state holds.

### From the code to `ScanInvalidate`

A job is a task that invalidates. `BeginScan` is the entry into `_scan_and_delete` with a user's or a
tenant's pattern, `BeginDelete` the single DEL of `invalidate(user_id, tenant_id)`; `Scan` and
`DeletePage` are the two commands of the loop, executed by Redis, and the code up to the next
await (`NextPhase`: `if keys`, `if cursor == 0`). `todo` stands for the cursor: the buckets it has still to
pass. SCAN returns the matching keys of the buckets it passes, and may return
a key a second time, as Redis does when its table is resized. `CommandFails` is the exception that the two
methods log and raise. `WriteKey` is any `set` or `write_through` of another task. The
history variable `old` holds the keys a job has to drop that still have the value from when it began.
The module is not composed with the read path: `Drop` of `PermissionClient` is any DEL of
keys of one user or tenant (`OneOwner`), and the theorem `ScansAreDrops` shows that scans and writes are nothing else to the store.

### From the code to `Codegen`

A contract keeps for each name the scopes of its entries in file order, since neither program compares entries of different
names. `Valid` is `validate_contract_in_memory`, with `Flat` for its dict of the last scope per name.
`Bucket` and `PermScope` are the four arrays of `codegen-py.mjs` and the dict that Python reads from the
lines it emits: the generator never sees `Flat`. For an empty bucket `literalBlock` prints `X = Literal[]`, as it does for an empty
`roles[]`, and Python cannot import such a module: `Emitted` has tables only for a contract that is `Importable`, though the build
reports success for the others as well.

`Load` and `LoadFails` are `main()` up to the end of validation. `NodeFails` is the generator ending with an error, `Generate` its output
and `write_text`, and `CheckVersion` the test of the version line. That test comes after the write and compares Python's form of
the version with JavaScript's, which differ for `null`, `true` and `2.0`; validation asks only that there is a version.
`contract.bare` holds the roles whose definition has no list of permissions, which validation reads as an empty one and the generator cannot.
The helpers of `role_permissions.py` keep their names.

### Abstractions

* A permission list is a set: the SDK only tests membership. "inactive" stands for an `inactive` and for a
  `not_a_member` resolution and for an active member whose role has no permissions: `_resolution_to_perms` makes each of them the
  empty list.
* A key is a pair. Ids are assumed free of `:` and glob characters, so that keys and patterns
  are unambiguous (the hazards name this). `InMemoryCache` has the strings, and assumes of the ids only that they hold no `:`.
* The clock of the in-memory cache never goes back. A `ttl_ms` of 0, which keeps nothing, is left out.
* `caller_has_permission` is `get_user_permissions` and a membership test, so a call is
  a `_resolve_perms`.
* Each member of `Calls` makes one call; a task that makes several is several members.
* TTL of Redis: an entry may disappear at any moment (`Drop`). With the default of 0
  it never expires, which is what `PermissionSystem` assumes.
* A value that `get` cannot read is one that parses to no list or is no JSON.
* A Redis command is executed or refused, while its task awaits it. A SET NX or a `write_through` that is executed although its
  sender saw an error, or had been cancelled, is in `stray`. A DEL that is executed although it raised is a `Drop`, or a `Deliver`
  that consumes no event.
* `Codegen`: that the module cannot be written, and names and roles that hold a quote, are left out.
* Helios has one uncommitted write-through per key at a time.

## 3. Model checking

All runs check for deadlock: the environment can always act (and `Codegen` says where it is finished), so a
stop of the whole system would be an error. The bounds are the sets below, of `Codegen` the sets of permissions a role may list (`Grants`),
the entries per name (`MaxListed`) and the names with several entries (`MaxTwice`), and `MaxNow` of
`InMemoryCache`, where the clock stops; no other variable grows.

| Run | Instance | Checks |
|---|---|---|
| `client_safety` | 2 calls of either kind, 1 process, 2 users, `stale_on_error` on (an outage is answered by a denial), everything may fail, be cancelled or overwritten | `TypeOK`, `AtMostOneFetch`, `NoLeakedEntry`, `WaiterHasFetcher`, `OnlyHeliosLists`, `AnswersAreReal`, `CancelledBySharer` |
| `sdk_life` | 2 calls, 1 process, any options, `close()` at any time, `stale_on_error` on, Redis and Helios fail, no cancellation, readable answers; fair | `SdkTypeOK`, `DocumentedOutcome`, `CloseReleases`, `InjectedRedisKept`, `CallsReturn` |
| `client_abandoned` | 2 calls, unreadable Helios answers; fair | `CallsReturn` is violated |
| `client_cancelled` | 3 calls, cancellation only | `DocumentedOutcome` is violated |
| `system_in_order` | 2 calls of either kind, 2 processes, `InOrderSpec` with events; SETs (stray ones included) and Helios fail, cancellation; GETs and write-throughs work | `FreshWhenWritten`, `ImplementsService` |
| `system_repair` | 2 calls of either kind, 1 process, `InOrderSpec` with events, `stale_on_error` off; GETs, SETs, Helios and write-throughs fail, the SETs may be executed later, cancellation | `SysTypeOK`, `FreshWhenSettled`, `ExplainIsFresh`, `AnswersAreReal` |
| `scan_invalidate` | 3 users of a tenant, 2 jobs, pages of any size, commands fail; fair | `ScanTypeOK`, `NothingOldSurvives`, `NoScanStuck`, `OnlyMatchingDropped`, `InvalidationEnds` |
| `in_memory` | 2 users and 2 tenants, one id inside the other, TTLs 1, 2 and none, a clock up to 2 | `MemTypeOK`, `ServedForTtl`, `ImplementsCache` |
| `codegen` | 4 names, each listed up to once and one of them up to twice, 2 roles, a version of either kind, `roles[]` empty or not, bare roles: all such contracts | `CodegenTypeOK`, `RolesAreSafe`, `TablesAgree`, `SwitchIsUniversal`, `OnlyVersionFailsLate` |
| `codegen_duplicates` | the same | `RolesNeverProject` is violated |
| `system_invalidate` | 2 calls, `SysSpec` with events, nothing fails | `FreshWhenSettled` is violated |
| `system_read_failure` | 2 calls, no events, GET may fail | `ImplementsService` is violated |

Why these bounds: two calls are a fetcher and a joiner, or two fetches of one key that race for the NX when
their processes differ, since processes share the Redis and not `_in_flight`; a third (`client_cancelled`) is a second joiner
of the same future. What needs more calls than TLC explores is left to the proofs, which hold for any number of
users, tenants, calls and processes. One permission makes two lists, granted and denied, which is what staleness is about. `client_safety` has two
keys, so that an answer for one could end up under the other; elsewhere one is enough, because calls for different keys share no
state but disjoint entries of functions. Three keys of one tenant
give the scan pages of no, one, two and three keys, and patterns that match one key or all (users and
tenants are interchangeable there). The ids of `in_memory` are the smallest in which a prefix or a suffix
without its colon matches another user or tenant; a TTL of 2 and a clock up to 2 have an entry stored late outlive
the clock, and one stored at once expire at the instant.

`ScanInvalidate` is fair to each job: the loop resumes it and Redis answers.
That a scan ends although others keep adding keys comes from the cursor, which passes each bucket once.

The calls are symmetric, as are users; this is used only in runs without liveness.
`ImplementsService` is a safety property, of the form `Init /\ [][Next]_vars`, whose formula treats all calls alike.

For `Codegen`, a module can be imported only if each of the four scopes has an entry. The names are the universal one, OWNER's and
two others, so that contracts with four and with five entries fill all buckets, the fifth being a name listed twice.

**Fairness.** `CallsReturn` assumes weak fairness of `Run(c)` and `Serve(c)` for
each call (`FairTo`; `RunSdk` and `ServeSdk` in `sdk_life`). The event loop runs every ready task. A Helios request ends by the timeout of the
HTTP client (`helios/client.py`). That Redis answers every command is an assumption
about the connection: the code sets no socket timeout (`factory.py` 83). Nothing
is assumed of the environment, of cancellation, of when calls begin or of `close()`.

### What the runs found

1. **A fetch that raises abandons its joiners** (`client_abandoned`). If
   `fetch_user_permissions` raises anything but HeliosUnreachableError, the
   `finally` pops the entry, the future is never settled, and the joiners wait
   for ever. A cancelled fetcher does the same; `WaiterHasFetcher` shows
   that these are the only two ways, the theorem `OnlyAbandonedHang` that nothing else hangs a call, and
   `AbandonedForGood` that such a joiner is never woken, unless it is cancelled itself.
2. **Cancelling a joiner cancels its peers** (`client_cancelled`). Line 254 awaits
   the shared future without `asyncio.shield`. Other joiners end in
   CancelledError, the fetcher in InvalidStateError. `CancelledBySharer`
   bounds the damage to the calls of one fetch.
3. **NX does not stop a slow read after an invalidation** (`system_invalidate`). The comment
   at `cache/redis.py` 136-138 says it does; after the DEL the key is absent, so
   the SET NX of a list fetched before the change succeeds. After a
   `write_through` the key is present and NX does refuse it: that is
   `FreshWhenWritten` in `system_in_order`. `system_repair`, and for all instances the theorem `EventsRepairAll`, show
   that the DEL must have overtaken a fetch or a SET on its way: with events in order the cache is repaired whatever else fails,
   write-throughs included.
4. **After a failed GET a call may get a replaced list** (`system_read_failure`): it joins a fetch
   that Helios answered before the change. With a GET that works, it would have hit the list written
   through. The theorem `NoAnswerOlderThanItsFetch` bounds the staleness: the list is one that the fetcher may be
   answered with. With GETs that work, `RevocationHolds` excludes that a revoked permission is still answered.
5. **A permission listed twice escapes the scope rule** (`codegen_duplicates`): validated with its last scope in the
   file, emitted with that of the last bucket. The contract of the run fills every bucket, so that its module can be imported. `RolesAreSafe` and `SwitchIsUniversal` show that self scope and the
   transfer are not affected, since the name decides those; `TablesAgree` that a contract without repetitions is emitted as validated.

Not in this list, because no line of the repository says otherwise, but worth knowing: a contract that leaves a scope empty passes
validation, the build reports success, and the module is a syntax error; and a build that fails at the version line has replaced the
module already. The hazards name both (`codegen-py.mjs` 119, `codegen-permissions.py` 173), and
`OnlyVersionFailsLate` says that the version line is the only failure of that kind.

## 4. Proofs

The seven proof modules prove, for all values of the constants that satisfy the ASSUMEs of the modules (no call
is `NoCall`, there is a key and a process, the switches are Booleans, ids hold no colon, `close()` may cut
connections, the names the contract is checked for are names):

| Theorem | States |
|---|---|
| `TypeCorrect` | `Spec => []TypeOK` |
| `ClientInvariant` | `Spec => []ClientInv`, the inductive invariant behind the next six |
| `CoalescingCorrect`, `EntriesReleased`, `WaitersServed` | `AtMostOneFetch`, `NoLeakedEntry`, `WaiterHasFetcher` |
| `CacheHoldsHeliosLists`, `CallersGetRealAnswers` | `OnlyHeliosLists`, `AnswersAreReal` |
| `CancellationContained` | `CancelledBySharer` |
| `OutcomesDocumented` | `DocumentedOutcome`, if nothing is cancelled and answers can be read |
| `WaitersNeverAbandoned` | under the same conditions, an unsettled future that a call awaits has a live fetcher |
| `EveryCallReturns` | `FairSpec /\ []NoCallStuck => CallsReturn`, under the same conditions |
| `OnlyAbandonedHang` | `FairSpec` and `[]NoCallStuck`, with every failure and cancellation: a call returns, or waits for a future that its fetcher left unsettled |
| `AbandonedForGood` | without cancellation, such a call waits for ever |
| `SystemTypeCorrect` | `SysSpec => []SysTypeOK` |
| `WrittenIsFresh` | `InOrderSpec => []FreshWhenWritten`, if no `write_through` fails: a change that is written through is what is cached, before and after its events |
| `EventsRepairAll` | `InOrderSpec => []FreshWhenSettled`, if events invalidate, whatever fails |
| `WriteThroughIsFresh` | `SysSpec => []FreshWhenSettled`, if events do not invalidate and no `write_through` fails |
| `SystemImplementsService` | `InOrderSpec => ImplementsService`, if no `write_through` and no GET fails |
| `RevocationHolds` | `InOrderSpec => RevokedIsDenied`, under the same conditions: a call whose GET has yet to be executed when no readable list grants a permission any more is not answered with it, unless it is granted again |
| `NoAnswerOlderThanItsFetch` | `InOrderSpec => []AnswersFitTheirFetch`, if no `write_through` fails, also while GETs do: a list is in the window of the call that fetched it, or denies because Helios was unreachable |
| `ExplainIsTrue` | `SysSpec => []ExplainIsFresh`, without any condition |
| `SdkTypeCorrect`, `CloseIsComplete`, `InjectedIsKept` | `SdkTypeOK`, `CloseReleases`, `InjectedRedisKept` |
| `SdkCallsReturn` | `FairSdkSpec /\ []NoCallStuckByClose => CallsReturn`, without cancellation and unreadable answers |
| `MemTypeCorrect`, `ServedForTtlCorrect` | `MemTypeOK`, `ServedForTtl` |
| `PrefixMatchesUser`, `SuffixMatchesTenant` | a key begins with a user's prefix, or ends with a tenant's suffix, exactly if it is one of theirs |
| `InMemoryImplementsCache` | `MemSpec => ImplementsCache` |
| `CodegenTypeCorrect`, `RolesSafe`, `SwitchUniversal`, `TablesCorrect`, `FailureIsLateForVersion` | `CodegenTypeOK`, `RolesAreSafe`, `SwitchIsUniversal`, `TablesAgree`, `OnlyVersionFailsLate`, for contracts of any length |
| `ScanTypeCorrect`, `OldEntriesDropped`, `OthersKept` | `ScanTypeOK`, `NothingOldSurvives`, `OnlyMatchingDropped` |
| `ScansAreDrops` | to the store, every step of `ScanInvalidate` is a write of one key or a DEL of keys with one owner |
| `ScanPassesBuckets` | with fairness and `[]NoScanStuck` a job ends or passes another bucket |

The lemmas `SystemIsClient` and `SdkIsClient` carry the client's theorems over to the system and to a client that may be closed; they
hold by the way the modules are composed, and say nothing of the code by themselves. So do `InOrderIsSystem` and `WithoutEventsInOrder`.

The theorems about `InOrderSpec` assume of the platform what finding 3 shows to be needed, that no DEL overtakes a fetch or a stray SET, and
where they exclude failing GETs or write-throughs, what finding 4 and a cache without expiry make necessary. They allow
everything else: events early, late, repeated and page by page, cancellation, unreachable Helios, unreadable answers, failing
populates and both values of `stale_on_error`.

**The inductive invariants.** `Typed` adds to `TypeOK` that a call at `join` awaits a call:
`TypeOK` alone is not inductive, since `Wake` looks up the future of
`waits[c]`. `ClientInv` is the conjunction of

* `FlightInv`: every entry belongs to a call that leads a fetch for that
  slot (`NoLeakedEntry`), and every such call is the one registered, from which
  `AtMostOneFetch` follows; `FutureInv` relates the state of a future to where its creator is, and
  `JoinInv` says what a joiner knows of the call it awaits.
* `ListInv`: wherever a list is kept on its way to a caller (a GET's reply, an answer of Helios, a
  settled future, an outcome, Redis), it is one that Helios held for that key, or
  the denial of an unreachable Helios. Each of these feeds the next one, so none is inductive alone.
* `CancelInv`: a cancelled future has a doomed joiner, and the fetcher's
  InvalidStateError comes from there.

`QuietInv`, for `OutcomesDocumented`, excludes what the documentation does not speak of: no call is doomed, no answer
unreadable, so that by `FlightInv` each future is settled by its own fetcher, with a list or the error of an unreachable Helios.

`FreshInv`, for `WrittenIsFresh`: a cached list is one that may be read, the current one or the one a pending
write-through is about to replace; and where a fetcher has an answer that may not be read any more, or a stray SET carries such a list,
the key is present, so that the NX has no effect. A DEL would take that protection away, which is what `~Overtakes(K)` excludes.

`RepairInv`, for `EventsRepairAll`, does without NX: where the cache, the answer of a fetch that has not ended, or a stray SET differs from
what Helios holds, an event for the key is outstanding. `Commit` makes both differ and adds the event in one step. A `Deliver` that
consumes it has dropped the key and, in order, leaves no such fetch and no such SET behind. A store puts into the cache what a fetch
was answered or what Helios is about to write. `StrayInv` says of what is given up that it is a list Helios held.

`MissInv`, for `SystemImplementsService`, speaks of a running call that has missed: every answered fetch of its key, and
the result of the future it awaits, is in its window. It holds at the miss because by `FreshInv` a fetch with an unreadable answer
would have left the key present, so that the call would have hit; from then on windows only grow (`WindowGrows`), and a
later fetch is answered with what Helios holds by then. The refinement (`ServiceStep`) then has one case per action: it answers a
call, begins one, changes the membership, completes a write-through, or is silent.

`FitInv`, for `NoAnswerOlderThanItsFetch`, speaks of the fetcher, since after a GET that failed what Helios held earlier may not
be in the window of the caller. The fetcher's window contains whatever may have been read since it
began, hence the answer it gets; a future settled with that answer carries it to all who joined (`FitFor(Fetcher(c), ...)`).

`OutOfReach`, for `RevocationHolds`: once the GET of the call has been executed, either it was a hit without the
permission, or it was a miss, and then, as for `MissInv`, no answered fetch of the key and no future the call awaits grants it.
After a GET that failed this does not follow: that is finding 4 again.

These invariants need to know of an action only what it does to fetches and to the store. `FetchStep` and `StoreStep` say
it once for all actions: an answered fetch was answered before the step or is answered now with what Helios holds; and a key that is
present afterwards was left alone, written through, or stored by a fetcher to whom it was absent.
`AnswerSource` says in the same way where an outcome comes from.

`ExplainInv`: the list Helios holds is in the window of a running `explain`, and so is the one it answered with.

`LifeInv`: once `close()` has been called the Helios client is closed for good, and the second half is reached only if the Redis
client is owned. `SdkIsClient` needs `CloseAssumption`: what a close does to a call is a failure the client expects.

The in-memory cache: `Splits` says that the only colon of a key stands between its ids. Hence a key determines its pair,
and a prefix that ends with a colon, or a suffix that begins with one, matches whole ids only. `Dated` relates each
deadline to the time of storing. `CodegenInv`: the module is what the tables of a valid contract are, or was
not written; the rest follows from the existence of a last entry per name (by well-founded choice on positions).

`Progress`, of the scan: a key still to drop is present, matches, and is either ahead of the cursor or on the
page to delete next; a page matches its pattern. `NothingOldSurvives` alone says nothing of a job
that is still running.

**Liveness.** The prover has rules for weak fairness and none for ENABLED. The theorems about `FairSpec`
therefore take `[]NoCallStuck` as an antecedent: whenever the task of a call can be resumed, `Run` of it is
enabled, and whenever a server has a request, `Serve` is; those about `FairSdkSpec` take `[]NoCallStuckByClose`. Both hold by the guards,
which split the cases of `Resumable` and `Requested` without a gap; they say something of asyncio and of the servers and nothing of this code, so
no run checks them, and TLC checks `CallsReturn` without them. `NoScanStuck`, the antecedent for the scan, does depend on the loop and is
checked by `scan_invalidate`.
From it and `FairTo(c)` follows `Prompt(c)`: a call that stays resumable runs. The rest is proved for any number of calls, processes and keys:

* Each step of a call takes it to a later point (`StaysOrMoves`, along `Onward`), and a prompt call leaves every point but `join`
  (`PromptCallsProceed`).
* A joiner stays with its future until it is settled (`StaysJoined`), and a settled future stays settled (`SettledStays`). Its fetcher does not
  join anyone (`JoinInv`), so that by the first step it ends, which settles the future or abandons it (`JoinerWoken`).
* Without cancellation and unreadable answers none is abandoned (`WaitersNeverAbandoned`).

For the scan only the step can be proved: each bucket is passed once, whatever others store. That a finite set can be
left behind only finitely often is induction over data, which the provers cannot instantiate.

**Only model-checked.** `InvalidationEnds`; `NoScanStuck`, which is about ENABLED; and the five violations. Conversely `RevokedIsDenied`, `AnswersFitTheirFetch` and the steps of `ScansAreDrops` are
proved and in no run.

## 5. Not modelled

* **The loop of a scan in the composition.** `ScanInvalidate` models it, and to the store it is a sequence of `Drop`s
  (`ScansAreDrops`), which is what `Deliver` allows; `EventsRepairAll` holds of it for any number of keys. The composition does
  not say when a scan ends. `system_repair` has a single key, to which a pair's, a user's and a tenant's event are the same.
* **The membership's expiry**, which changes what Helios answers without a write_through: with no TTL nothing removes the old list.
* **The signature of `HeliosClient`**, a pure function of its inputs; its HTTP timeout, which is one of the causes of
  HeliosUnreachableError; `fetch_impl`, which tests inject. The 404 answer is a `not_a_member` resolution.
* **The names in `roles[]`, and `is_role`**: validation looks neither at them nor at their relation to `role_permissions`. An empty `roles[]` is
  modelled. `explain` reports an unknown role as none.
* **A value in Redis that is not text**, on which `get` raises UnicodeDecodeError rather than missing. Writers of the platform store JSON.
* **`in_memory=True`** of the factory: one process, no Redis, and a `close()` that closes the Helios client alone.
* **`logger.py` and the `__init__.py` files**: output and re-exports. The layout of the generated text.

`PROJECT.json` lists the hazards among these that no property covers.

TLAPS cannot instantiate induction over data and has no SMT backend next to
RECURSIVE operators; all modules are written without recursion for that reason.

## 6. Running

    tlc -config ClientSafety.cfg MCPermissionClient
    tlapm PermissionClientProofs.tla

The runs and their configurations are listed in `PROJECT.json`; the largest has half a million
distinct states; each takes less than two minutes with two workers.
