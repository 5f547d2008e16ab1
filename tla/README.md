# Holo Web Conductor in TLA+

A verification project for the Holo Web Conductor, the browser extension that
runs Holochain hApps: it hosts the WASM zomes of a hApp, keeps the user's
source chains and keys, and publishes to the DHT through a linker. The TLA+
modules model the parts that keep state and meet concurrency or failure, and
the algorithms the DHT depends on; TLC checks them on small instances, and
TLAPS proves the safety of most of them for every value of the constants.
`PROJECT.json` lists the components, the runs, the mutants that every checked
property catches, the source lines each definition stands for, the hazards, and
what the runs found.

    tlc -workers 2 -config MCSourceChain_chain.cfg MCSourceChain.tla
    tlapm SourceChainProofs.tla          (one of eight proof modules, see "Proofs")

## The system

Four execution contexts talk by messages; all paths below are under
`src/packages/`.

| context | code | state it keeps |
|---|---|---|
| page | `client/`, `extension/src/inject`, `content` | the client's session with the joining service, the connection state shown to the app |
| background (service worker) | `extension/src/background`, `extension/src/lib`, `lair/` | contexts, keys, permissions, linker configuration: IndexedDB and `chrome.storage`, with caches that die with the service worker |
| offscreen document | `extension/src/offscreen/index.ts`, `core/src/network`, `core/src/dht` | the WebSocket to the linker, the publish queue (IndexedDB) |
| ribosome worker | `extension/src/offscreen/ribosome-worker.ts`, `core/src/ribosome`, `core/src/storage` | the source chains: one SQLite database on one connection, the WASM instances, the network caches |

A page asks to connect through its content script, and the user answers in the
popup.  The client then joins (a joining service may set challenges), installs
the hApp and monitors the linker.  A zome call goes page, content script,
background (`handleCallZome`), executor, offscreen document
(`executeZomeCall`), worker (`CALL_ZOME`); the worker blocks on shared memory
while offscreen fetches over HTTP or asks the background's Lair for a
signature.  The records the call wrote come back, are turned into DHT ops and
queued for publishing.  The linker's signals travel the other way.  The
browser may stop the service worker at any idle moment, and close the
offscreen document with its worker.  On Firefox the background page owns the
worker itself.

### Inventory

| component | state and operations | what is hard | what makes it correct |
|---|---|---|---|
| Source chain worker | rows and head of each cell, the transaction, the call queue; `CALL_ZOME`, `RUN_GENESIS`, `RECOVER_CHAIN`, `GET_ALL_RECORDS` | other messages run at a call's awaits, inside its transaction; failure between two writes; the worker dies | one gapless unforked chain; a call is all or nothing; what is published stays on the chain |
| Storage providers | the worker's SQL rows; the cached IndexedDB store with its session cache and pending lists | what rollbacks, aborted commits and other cells leave in the cache | both answer a running call alike; a call is a transaction |
| Op production, validation | the ops of an action, their addresses, the zomes that validate them | case analysis over action types; ops that cannot be built | other agents answer about an address as the author would; nothing unvalidated is queued |
| Publish pipeline | rows with status and retry count, the `processingQueue` flag; publish after a call, publish all, retry, reconnect | several triggers at once, lost answers, crash while in flight, bounded retries | no op is sent twice at once, or dropped before the linker has stored it and passed something on; each one is tried again until then |
| Linker WebSocket | socket, authentication, two maps of registrations, reconnect timer | signatures awaited while the socket is replaced; silent death; refused agents; the user's disconnects | the linker forwards for exactly the agents the client believes registered; one socket |
| Cascade, caches, reading host functions | own rows, LRU caches of records and links, details, the linker's answers | answers that lag, deletes, rollbacks, eviction and aliases | what a call deleted stays deleted, what never was does not appear, what is cached is found |
| Lair keystore and lock | lock record, master key, seeds (plain or encrypted) | awaits between deriving, saving and re-encrypting; restarts lose the key in memory | every seed stays readable with the current passphrase, is never replaced, and ciphertext is never taken for it |
| hApp contexts, recovery seal | contexts with status and seal, cache, agent keys; install, proofs, enable, call, recover, uninstall | check and use around awaits; cached objects shared by handlers; restart between two steps; calls that commit and are reported as errors; key tags chosen by pages | recovery never overwrites what a call was answered for; the chain is founded before a hApp is enabled; uninstall is final and takes no key but its own |
| Executor lifecycle | offscreen document, readiness, worker, WASM already sent, linker URL and session token | restarts, failed creation, close and recreate, tokens renewed while a call runs | a call reaches a worker that has its WASM and settings, or fails; nobody waits for ever |
| Synchronous bridge | shared buffers and a signal word for HTTP and signatures | a late answer after a timeout is read as the next one's | each request gets its own answer |
| Authorization | pending requests, callbacks, permissions, the popup | timeout races the popup's answer; restart; two tabs | every page is answered, and a denied origin does not get in by asking again |
| Background dispatcher | the linker's health, ports, pushes, the stored linker configuration | statuses written after an await overtake each other | the page learns what is so |
| Client library | `connect()` with the joining service; connection monitor and reconnection | answers in any order, OR groups, retry; timers, pushes and polls | only admitted agents install; the status settles |
| Chain recovery | discovery, fetching and verification, then rows and head | gaps, bad signatures, newer local writes | a device that lost its store gets the chain back; its steps beside other messages are in SourceChain, its gate in HappContexts |
| WASM runtime, serialization; bundles; legacy SQLite storage; popup pages; end-to-end tests | none that matters here, or not used by the product | | see "Not modelled" |

## Modules

| module | models | how |
|---|---|---|
| `SourceChain` | the worker | one action per stretch between two awaits; `db` is what the connection reads, `saved` what a crash would leave while a transaction is open |
| `ChainLog` | the promise of the source chain | an append-only log per cell that appears with four genesis records; refined by `SourceChain` (`ImplementsLog`) |
| `PublishQueue` | `PublishTracker`, `PublishService.processQueue`, the four jobs that trigger it | one action per IndexedDB transaction and per request |
| `LinkerSocket` | `WebSocketNetworkService` with an external linker and network | handlers are chains of operators on a record of client, sockets, messages, sessions |
| `KeyVault` | `LairLock`, `EncryptedKeyStorage`, the `LAIR_*` handlers, the agent keys | one action per stretch between two awaits of a handler |
| `HappContexts` | `HappContextManager`, `HappContextStorage` and the background's handlers on contexts | the same; the worker's chain reduced to how it was founded, recovered and written since |
| `SyncBridge` | the two blocking requests of the worker | one signal and one buffer of each kind; an answer is the number of its request |
| `ExecutorLifecycle` | both executors, the offscreen document and the worker's start and settings, composed with `SyncBridge` | message queues and promises; a call is the blocking requests it makes |
| `SiteAccess` | `connect()` from page to verdict, permissions, popup | one action per message, timer or click |
| `JoinFlow` | `WebConductorAppClient.connect()`, `rejoin()` with an external joining service | the position in the code and what the client holds at it |
| `LinkStatus` | connection status in the background, ports, the client's monitor and reconnection | one action per message, timer or continuation |
| `DhtView` | cascade, caches, the host functions that read links and records | LRU lists as sequences; a copy of a link is the hash it carries |
| `ChainActions` | actions, rows and what an action says | shared vocabulary of the four modules below |
| `RowStore` | `DirectSQLiteStorage`: the promise of a storage provider | rows and the committed rows |
| `CachedStore` | `SourceChainStorage` on IndexedDB | refines `RowStore` (`ImplementsRows`) |
| `ChainOps` | `produce-ops.ts`, `validation-op.ts` | pure operators |
| `Authoring` | a call's records, validated, committed and turned into queued ops | composes `RowStore` and `ChainOps` |
| `Storage` | the two stores of a worker's host functions | `CachedStore` and `Authoring` side by side, one of them in each behaviour |
| `Session` | a page's way in | `SiteAccess` and `JoinFlow` side by side, one of them in each behaviour |
| `SourceChainProofs`, `PublishQueueProofs`, `LinkerSocketProofs`, `KeyVaultProofs`, `HappContextsProofs`, `ExecutorLifecycleProofs`, `DhtViewProofs`, `StorageProofs` | theorems | each extends its module, `HappContextsProofs` also `Session`; see "Proofs" |
| `MC*` | instances | model values, symmetry, job tables; several have *parts*, see below |

Several instances share a run. A variable that Init chooses and nothing changes
says which one a behaviour is of (`part` in `MCProgress`, `Session` and
`Storage`, the scenario `sc` in `KeyVault`, `HappContexts` and
`ExecutorLifecycle`), so the instances add up and do not multiply. A scenario
says which requests there are, how many, whether they overlap, and what may
fail. `InTurnX` is the property `X` for the scenarios in which requests come
one after the other, `AllX` for all that the module calls safe; both are
defined in the modules and hold of any scenario, not of the MC module's only.

### SourceChain

`db[c]` holds the rows and the chain head of cell `c` as the worker's one
connection reads them; `inTx` is `DirectSQLiteStorage.inTransaction`.  An
action record is abstracted to its signer, its sequence number and its
predecessor; its hash is the pair of the signing message and a counter, so
hashes are fresh by construction, as signatures over a timestamped action
are.  `waiting` and `running` are `zomeCallChain`.  A call goes
`queued, headcheck, genesis, begin, load, exec, validate, post, ..., done` or
`failed`; `RUN_GENESIS` has its own labels; `Recover` and `Republish` are
atomic, because they never await between their first and last access.
`Crash` forgets the open transaction.  The host functions `create`, `update`,
`delete`, `create_link` and `delete_link` are one action: the same rows and
head, with different content.

### PublishQueue

`rows` are the rows of `PENDING_PUBLISHES`; `busy` is `processingQueue`;
`run` are the invocations of `processQueue` past their first test; `job` are
the callers.  The linker may store any of the ops of a request and pass any of
those on to peers.  Its answer says of each op whether it was stored, but only
how many were passed on: `PublishedOf` is all that was stored, or nothing if
nothing was passed on.  So two histories are kept: `accepted` (stored, in a
request of which a peer got something) and `reached` (a peer got this op).  The
answer may be lost whatever the linker did.  Real time is left out: the waits
between retries are only fairness.

### LinkerSocket

`client` has the fields of the service; `sock` the sockets; `up` and `down`
the messages in flight; `sess` the linker's sessions.  A loss closes a socket
with an event, or leaves it dead until the heartbeat notices (`Timers`).
`upset` remembers what the client's picture does not survive: `crossed`, a
`reconnect()` by hand that leaves the reconnection timer armed; `kept`, a
`disconnect()` or `triggerReauth()` that leaves agents counted as registered
which the linker forgets; `refused`, an agent refused on a session that had
accepted one, because the signature for an old challenge answered the new one.
The linker is external: it forgets a session with its socket, and answers a
second response to a challenge with `auth_error`.

### KeyVault

A master key is the number of the salt it was derived with.  `seeds[t]` is
the identity of the seed and the key it is encrypted with (0: plain).  `mk`
is the buffer of `LairLock`, `enc` the `EncryptedKeyStorage`.
`HappContextManager` has a `LairClient` on the plain storage, which is why
`agentkey` and `uninstall` never ask the lock.  Simplifications: making the
client in `getLairClient` is one step; a passphrase is right or wrong;
migration is one step per tag.

### HappContexts

`disk` is the IndexedDB store, `obj` the context objects (a change is seen at
once by every handler that has the object), `cached` and `dom` the two caches
of `HappContextStorage`.  Writing the row and updating the caches is one
step, deletion two: requests of one store run in order, so a row put while a
deletion is under way is put behind it.

`keys` are Lair's keys under their tags.  The tag of a context is derived from
its domain (`OwnTag`) unless its page names another, so two contexts may share
a key; `agent` is the key a context was made with.  `NewKey` and `DeleteEntry`
are the Lair messages that make and delete a key with no context involved.
`Alone(i)` says that no other context has or had the key of `i`, `OwnKeys` that
this is so of all: what one page does with another's key is a limit of what can
be promised, and the properties name it.

`chain[k]` says what matters of the worker's chain of a key: founded without or
with a proof; recovered, and whether `RECOVER_CHAIN` could say so (its answer may
come after the executor's timeout); and the writes since.  A call may commit
and still be an error (a timeout, a closed document, a value of the form
`{Err: ...}`): its write is `unanswered` and seals nothing.  `answered` are
writes of calls whose answer came back after a recovery that was reported.
`forked[k]` are the writes a recovery ran over.

### SyncBridge and ExecutorLifecycle

The worker resets the signal of a kind, posts, and waits with a timeout; the
main thread writes the buffer and raises the signal, for whichever request its
answer is.  `OwnAnswer` can only promise the right answer until a request of
that kind has timed out; `late` remembers that.  An HTTP answer is what became
of the request (`found`, `big` for one beyond the buffer, `missing`, `denied`
for a 401, `broken`, `cut`).

`ExecutorLifecycle` puts both sides around it.  `at` is where a request of the
background is, `task` where it is in the host (the offscreen document on
Chrome, the background page on Firefox), `wk.q` the worker's message queue and
`wk.chain` its chain of calls.  `host.sent` is `sentWasm`, `wk.cache` the
worker's modules.  Session tokens are numbered; the linker honours the last it
issued, and a 401 makes the host authenticate again.  Each scenario of the MC
module fixes the platform, what four callers do, and the bounds.

### SiteAccess, JoinFlow

In `SiteAccess` a request is known by the call that made it, so AuthManager's
two maps are sets of calls. `promise` is the page's, `call` the handler's,
`popup` the window's. `tries` counts deliveries that found no background. In
`JoinFlow`, `at` is the position in `connect()`; the joining service answers
anything its interface allows, and forgets sessions. It may complete challenges
by itself: from the claims it gets with `join()`, or by the time of a
`verify()` or a poll. `completed` are the challenges it calls completed,
`answered` those whose answer by this client `verify()` took, and `satisfied`
is the client's `satisfiedGroups`, which only the latter enter. Any request of
a session may also find the agent already joined. `troubled` remembers that the
service could not give a linker address. `Session` is their composition; they
share no state. Its specification is `SessionSpec`, so that
`HappContextsProofs` can extend it beside `HappContexts`.

### LinkStatus

`healthy` and `ws` are the world, `status` what the background believes, `mon`
what the client does.  `check`, `restoring` and `poll` hold what their functions
have read before an await.  Simplification: the background checks one thing at
a time, although the interval does not wait for the last check.

### DhtView

One base address. `disk` are the agent's committed rows, `rows` those the
running call sees, `published` what a linker may know. `links`, `details` and
`records` are the worker's `NetworkCache`; an operation on them that a write
queues is applied after the commit. `Callers` says who writes: the called zome
function; one it calls in another zome, which works on a copy of its context,
so that what it queues is lost unless the caller has queued something before;
or `post_commit`, which writes without a transaction, after the queue was
applied. `direct` are the links that a called zome function has deleted itself.
`Formats` are the two forms in which a linker sends links: with hashes, or as
wire ops, from which the worker makes a surrogate hash. The operations that a
call queues for the caches are a set, because of their order only one thing
matters: a link is deleted after it was created.

### RowStore, CachedStore, ChainOps, Authoring

`RowStore` has the statements of the worker's SQL store as operators on rows,
and a call as begin, writes, commit or rollback. `CachedStore` has the object
stores, the lists of the open transaction and the session cache of
`SourceChainStorage`; the order of its Maps is abstracted, so a read that takes
the first match answers with any. Its rows are the object stores with the lists
applied to them, and with this mapping it implements `RowStore`. `ChainOps` has
the table of ops and their basis addresses and which zomes validate an op;
`Authoring` runs a call's records through it. The host functions look an
original up by its hash alone, so an action may refer to one of another cell;
what a property says of a record is meant of its own cell's part.
`AuthorityAgrees` is the reference definition of the op table: what an agent
that holds the ops of one address answers is what the author's own storage
answers. `RECOVER_CHAIN` reads the same ops back: `recoverChainFromDHT` and
`storeRecoveredRecords` are operators on them, and `RecoveryRestores` says that
a store which is empty, or was left with a gap by an attempt that missed a
record, ends with the author's rows and head. What is not restored is said
there too: rows of links, the link of a `DeleteLink` and the proof of an
`AgentValidationPkg` (`chain-recovery.ts:584`), so their ops are not published
again as they were signed.

## What the runs show

Every action, and every disjunct of the next-state relations, fires in the
passing runs:

| run | parts | shows |
|---|---|---|
| `chain` | | calls with failed genesis and aborts, `RUN_GENESIS` and `RECOVER_CHAIN` of other cells inside their transactions, a crash: `BEGIN` is never nested, and a cell only calls write keeps a sound chain that holds all that was handed out, and of each call all or nothing; it implements `ChainLog`, so it only grows |
| `progress` | calls, queue, button, loss, auth, user | two calls end, whatever two crashes leave; a call of two ops with reconnects, or of one with the retry button as well: every op arrives; after any three losses client and linker agree and agents get registered; a linker that challenges and refuses one agent, or losses among all of the user's requests: one socket, no stale authentication, a disconnect is final, no agent left untried |
| `publish` | | with two invocations, an IndexedDB failure and a crash: an op leaves the states that are shown or retried only once the linker has stored it in a request of which a peer got something, only the crash or the failure leaves one marked as in flight with nobody at work on it, no op is sent twice at once, retries are bounded |
| `vault` | `Turns`, `Overlaps`, `Restarts` | every seed stays readable, whatever overlaps (see below for what may not) and wherever the service worker restarts; in turn, seeds keep their tags, and storage and lock agree |
| `happ` | `Turns`, `Troubles`, `Overlaps` | in turn, with pages that name tags, and with signals, deleted keys, a failing Lair and a restart: recovery runs over no answered write, a hApp goes live only after genesis with its proof, keys of one's own stay, what is uninstalled or disabled stays so; two handlers with a failing Lair and a restart: a seal on disk never opens, the caches come to agree |
| `calls` | seven scenarios | no call runs without its WASM, a ready worker has the host's URL and token, answers are not exchanged before a timeout, every request ends, a refused token is replaced |
| `session` | access, local, join | every `connect()` is answered through timeouts, closed windows and a restart; a denial stands; only agents the joining service admitted install, and of one group the client answers one challenge |
| `monitor` | | through losses of ports, health and WebSocket, a restart and throwing executors: the client's status settles with the world |
| `view` | | a link that a called zome function deleted itself does not come back from a cache, whatever nested calls and `post_commit` write beside it; link details only grow, no alias hides or swaps a record |
| `storage` | cached, ops | `SourceChainStorage` answers a running call as the row store does and implements it through rollbacks, aborted commits and reloads; the ops of a call are validated, let others answer as the author would, and let a device that lost its store recover |

Two runs end in a violation, a disagreement of the code with its own words,
quoted under `findings`: `misread`, where after a restart with an unlocked
record ciphertext is taken for the seed, although "once enabled, encryption
stays enabled"; and `phantom`, where links of a rolled-back call stay in the
details cache, although cache merges are "applied after transaction commits
successfully".

### What the properties leave out

Several promises of the code are kept in part only.  The passing runs check the
part that is kept, a further configuration shows the rest violated:

| property of a run | what it is of | the whole promise |
|---|---|---|
| `KeptUntilAccepted` | ops stored in a request of which a peer got something | `PublishedReached`: each op reached a peer itself |
| `InTurnRecoveryKeepsWrites` | writes of calls that were answered after a recovery that was reported | `RecoveryKeepsWrites`: all writes since a recovery |
| `DeletedStaysHidden` | deletions made by the called zome function itself | `CommittedDeletesHidden`: all deletions that are committed |
| `OneWayAGroup` | challenges this client has answered | `AskedOnlyIfNeeded`: those the service completed by itself as well |
| `InTurnSeedsStable` | requests in turn | `SeedsStable`: requests that overlap |

`QueueServed` is of a part without crashes and failures of IndexedDB: an op
such a crash leaves in flight is read by nothing again, as `KeptUntilAccepted`
says.  `InTurnLockAgrees` and `InTurnSeedsStable` speak of requests in turn
without restarts, `InTurnGenesisFirst` of requests in turn without signals (a
remote signal founds a chain without the proof).  Of `ContextsStay` only the
seal holds over overlapping handlers; the rest is of requests in turn, with
restarts and, but for the deletion of contexts whose key cannot be read, with a
failing Lair.  `InTurnInstalledHasKey` is stated as long as each context got a
key of its own: who shares one loses it when the other is uninstalled.

### Further configurations

The configurations below, two of them named `_beyond`, take away what a property
assumes.  TLC reports each property as violated (checked one at a time; paths
are under `src/packages/`):

| configuration | property | what it shows |
|---|---|---|
| `MCSourceChain_beyond` | `GenesisHonest` | a genesis that answered valid is rolled back with another cell's call (`ribosome-worker.ts:1828`) |
| | `RepublishedStored` | `GET_ALL_RECORDS` hands out uncommitted records (`ribosome-worker.ts:1694`) |
| `MCPublishQueue_partial` | `PublishedReached` | an op no peer got loses its row, with one of its batch that was passed on (`publish-service.ts:258`; "Op was stored AND published to at least one peer", line 280) |
| the same under `ReconnectingSpec` | `QueuedIsAttempted` | a record stored as `processQueue` ends is attempted by nobody (`publish-service.ts:125`) |
| | `EveryDnaRetried` | a reconnect processes only the first DNA (`publish-retry.ts:55`) |
| `MCProgress_beyond` | `ResentInTheEnd` | the signature of an old challenge answers the new one (`websocket-service.ts:569`) |
| | `SingleSocket` | `reconnect()` by hand leaves the reconnection timer armed, which opens a second socket (`websocket-service.ts:794`) |
| | `RegisteredKnown` | registrations are not sent again after `disconnect()` or `triggerReauth()` (`offscreen/index.ts:861`) |
| `MCKeyVault_seeds` | `SeedsStable` | of two first requests each makes an agent key, and the second replaces the first (`happ-context-manager.ts:102`; "Idempotent: reuses existing key if one was already created for this domain", line 95) |
| | `SeedsReadable` | two ways to seeds under a key nobody has (`lair-lock.ts:263`, scenario `Halfway`; `background/index.ts:1336`, where another `LAIR_LOCK` or `LAIR_UNLOCK` wipes the buffer an unlock is about to copy, `Zeroed`); a third, overlapping re-encryption (`encrypted-storage.ts:200`), is why scenarios with overlap are `Safe` only with one passphrase |
| `MCHappContexts_fork` | `RecoveryKeepsWrites` | a call commits and is reported as an error, or a recovery is not reported: nothing is sealed, and the next recovery runs over the write (`background/index.ts:890`; "Recovery sealing prevents chain forks from re-running recovery", `STEPS/13_PLAN.md:280`) |
| the same with `Scenarios <- Beyond` | `OnlyStaleDeleted` | an unreadable key counts as a missing one (`happ-context-manager.ts:371`) |
| | `DisabledStays` | a second proof enables a disabled hApp (`happ-context-manager.ts:482`) |
| | `UninstalledStaysGone` | a handler with the cached context puts a deleted row back (`happ-context-storage.ts:406`) |
| `MCExecutorLifecycle_unreachable` | `ServerErrorOnly` | an answer beyond the shared buffer counts as a server error (`offscreen/index.ts:304`) |
| `MCSession_joins` | `AskedOnlyIfNeeded` | the other challenge of a group the service completed by itself is signed or put to the user (`WebConductorAppClient.ts:329`; "Skip challenges whose OR group is already satisfied", line 343) |
| | `InstalledOpens` | a hApp that is installed is treated as not installed when its linker cannot be configured (`WebConductorAppClient.ts:216`) |
| `MCLinkStatus_rearmed` | `AlwaysSettles` | a `reconnect()` by hand arms automatic reconnection, and the status alternates (`reconnect.ts:85`) |
| `MCDhtView_lost` | `CommittedDeletesHidden` | a deletion by a zome function that another one calls never reaches the caches (`host-fn/call.ts:116`; "applied after transaction commits successfully", `delete_link.ts:89`) |
| the same with `Callers = {"zome", "post"}` | | nor does one of `post_commit` (`ribosome/index.ts:372`) |
| `MCDhtView_phantom`, with these invariants | `LinksOfOwnDna`, `EachLinkOnce` | cache keys do not name the DNA; a surrogate hash never equals the agent's own, so a link appears twice (`cache.ts:361`, `ribosome-worker.ts:1200`) |
| `MCStorage_storage` with it | `UpdateKeepsType` | an update is recorded under another zome than its original (`update.ts:38`) |

### Bounds

A bound is a constant named in its module and tested in a guard.  They are
small because the hazards are: two calls are enough to nest a transaction and
to queue one behind a failed one; two crashes reach each label, the second on
what the first left; a recovered chain of sequence number 0 or 1 is already
one the local chain can disagree with.  Two invocations of `processQueue` and
one op per job let any two requests overlap, and two retries distinguish a
bound from one attempt.  Three losses on four sockets reach each handler in
each state with a stale socket behind it; part `auth` has no losses, part
`user` no challenges (a lost connection with a signature under way is what
`MCProgress_beyond` shows; the theorems hold with both).
Two handlers give every pair of requests; a third would have to disturb two
that already disturb each other.  Requests (5 to 9) allow install, recover,
write, uninstall and install again, and set, lock, unlock, make, export.  Two
tags, domains, agents, tabs and cells tell mine from other.

Two blocking requests let a late answer meet its successor; three tokens, a
token refused twice.  Two closed documents and a restart reach a document that
was created by a service worker that is gone.  Two cache entries are the least
in which eviction picks one of two; three calls let one delete what the first
made and a third read it back.  Three challenges are two alternatives and one
that stands alone; three runs of `connect()` are fail, retry and rejoin.  Two
events of any kinds suffice to have one answered while the other's handler
waits.  In the storage run two calls, one rollback, one aborted commit and one
reload put every kind of remainder behind a second call.

`CHECK_DEADLOCK FALSE` stands in every configuration: the counters of the
bounds run out, and messages may simply stop coming.

### Fairness

A JavaScript handler that is not waiting for the outside runs to its next
await, so actions of running handlers are weakly fair: `CallStep` and
`GenesisStep` in `SourceChain`, `Process` and the jobs in `PublishQueue`,
`Start`, timers and message delivery in `LinkerSocket`; the callers, the
document's and worker's message loops and the bridge in `ExecutorLifecycle`;
handlers, the popup's continuations and the request timeout in `SiteAccess`;
intervals, timers, pushes and continuations in `LinkStatus`.  Starting a call,
a crash, a loss, a click, a user's request, the closing of a document are not
fair.  `Reconnecting` (in `QueueServed`) also assumes that reconnects keep
coming and that the linker answers infinitely often (strong fairness of the
answer that passes ops on): without either nothing could be promised.
`EventuallyRegistered` says nothing once the user has disconnected,
`TokenRecovers` nothing once the linker issues no more tokens, and
`SettlesWithLinker` nothing while the page's own reconnection is armed.  In
run `progress` each liveness property has its module's fairness as its
antecedent, because the run's specification has several modules and no
fairness of its own.

## Proofs

The theorems hold for every value of the constants: any sets of cells, calls,
ops, agents, sockets, tags, pages, links, any bounds, and any number of
crashes, losses and restarts.  They use only the assumptions named in the
modules, which TLC evaluates on the instances.  Each proof module begins with
lemmas about the operators of its module, then has one lemma (or one step) per
action, and ends each theorem with a `QED` by `PTL`.  The inductive invariants
stand in the modules themselves, where TLC checked them first.

**`SourceChainProofs`**: `TypeCorrect`; `TransactionsAreSerial`,
`ChainsAreWellFormed`, `HandedStaysOnChain` as consequences of
`Invariance: Spec => []Inv`; then
`CallsAreAtomic` and `ChainsAreLogs`, the refinement of `ChainLog`.
`ChainWellFormed` is not inductive.  `Inv` adds: `Serial` (who is active is
`running`, and a transaction belongs to it), `HashesFresh` (no stored record
has the hash a message signs next, in the database or in the saved copy),
`PostSigned`; for each plain cell `CellInv` (both copies sound, the saved
chain inside the present one, what was handed out on the durable one); for
each call `CallInv`, what its handler may rely on at each label: the genesis
records stored so far are linked, the chain is founded from `begin` on, its
records are on the chain, and a `post_commit` write between its two statements
leaves exactly one row beyond the head.  `LogInv` stands on top: what each
transaction may hold of the calls' records, and what the durable chain holds
of a call at each of its places (`Outcome`).  For the refinement, `LogOf` maps
a sound chain to the sequence of its records; a lemma shows that one chain
inside another is a prefix of it, and each action is a step of the log or
leaves it alone.

**`PublishQueueProofs`**: `SentOnceAtATime`, `RetriesBounded`,
`NothingForgotten`.  The invariant says that one invocation at a time is past
its first test (`OneAtATime`), that an op is stored once, that its failures
count its sends since the last reset, and for an invocation at each place what
it knows of the ops in its batch (`BatchInv`): before `mark` they wait, until
the answer they are marked and nobody else's, after it they are settled.
`NothingForgotten` has two halves: a row is given up only for an op the linker
has stored and answered well for, and only a crash or a failure of the store
leaves a row in flight that no invocation has.
`MaxRetries > 0` is assumed because a pending op is sent whatever the bound.

**`LinkerSocketProofs`**: `SocketIsTruthful` and `EveryAgentTried`.  A handler
is a chain of operators on a record, the *world*; lemmas say what each of them
does to it.  `Sound` relates the client's fields to the sockets: at most one
socket lives, it is the client's, a timer is armed only without one, and a
client that calls itself authenticated has a session that is, with nothing
else under way.  `Known` says that replaying the messages under way makes the
linker's session hold exactly the agents the client counts as registered; the
last message about an agent decides (`Agree`).  `Sound` does not
survive `crossed` in `upset`, `Known` none of the three, and the theorem says
so.  `EveryAgentTried` follows from what `_tryNextAuth` does (`NextAuthTries`)
and from no other handler ending an attempt.

**`KeyVaultProofs`**: `SeedsAreReadable` for all `Safe` scenarios;
`StorageFollowsLock` and `TagsKeepTheirSeed` for requests in turn.  The type
invariant includes what is asked for (`AskedInv`: in turn, one handler).
`SafeInv` excludes that a wiped buffer is taken for a key; `TurnInv` says what
the handler relies on at each await: the key it holds, the state of the
storage, the entries it has still to write.  Restarts are left out of
`InTurn`: a restarted storage does not have the record's key (run `misread`).

**`HappContextsProofs`**: `SealsNeverOpen` and `CachesComeToAgree` for any
overlap, with a failing Lair and restarts: ids are fresh, a durable row is what
its shared object says, and it is in both caches and alone in its domain
(`CacheInv`).  `RecoveryLosesNothing`, `GenesisComesFirst`, `KeysStay` and the
rest of `ContextsStay` are for requests in turn, with restarts at any step, a
Lair that fails, keys made and deleted, and any tags.  `TurnInv` says what the
one handler relies on at each await; `ChainsInv`, for a context that is alone with
its key, that its chain is founded as its status says, and that its seal is
closed when there are answered writes a recovery could run over; `KeysInv`, that
the tag of a context still holds its key as long as `OwnKeys` and neither a
restart nor a deletion from outside has come between.

**`ExecutorLifecycleProofs`**: `AnswersMatch`, for the bridge alone: until a
request of a kind has timed out, at most one is under way, and it is in one
place (`BridgeInv`).  `WasmComesFirst`: whatever counts as sent is in the
worker's cache, its call chain, or its queue before what needs it (`WasmInv`).
`SettingsReachWorker`: the last settings on their way to a started worker, or
else the worker's own, are the host's (`ConfigInv`, on `HostInv` and
`InitOnce`: a worker is started once).  The proof needed the answer of a closed
document to be gone with it, which is what the browser does.

**`DhtViewProofs`**: `DeletionsStand`, `DetailsOnlyGrow`,
`WhatIsCachedIsFound`.  Lemmas about the LRU Map come first (`WithoutFacts`,
`PutFacts`, `TouchFacts`: keys are held once, and of the other keys at most the
oldest goes).  `CallInv` says that whatever the called zome function itself has
deleted it has also queued for the caches, whatever nested calls and
`post_commit` lose; `RecordsInv` that a record and its alias stand under
hashes of that record, which survives eviction because an evicted record takes
its aliases with it.

The second half of the module is about `Session`: `NeverAnsweredTwice`,
`OnlyAdmittedInstall`, `DenialsStand` and `NobodyForgotten` (a handler that
waits for the user has the request and the callback that will answer it).

**`StorageProofs`**, of both parts of `Storage`.  The part `ops`:
`AuthorInvariant`, that rows are numbered without doubles, closed and in step
with their links (`RowsInv`, one lemma for what the host functions write and
one for genesis), that a call only adds to what is committed (`CallAdds`), that
the queue holds exactly the ops of what is committed (`QueuedInStep`), and that
of committed records and of those already validated every op was checked
(`AllValidated`).  From it `AuthoritiesAgree`, `PublishedIsValidated` and
`RecoveryWorks`.  The last is by induction over the list that is stored: every
state in between is part of the author's chain (`Partial`), whatever a first
attempt left, and the list ends with the last action because it is in the
order of the sequence numbers (`RankFacts`).
The part `cached`: `CachedInvariant`, that what is cached is true of the rows
(`CacheTrue`), and whole for the cell of a running call (`CacheWhole`); then
`CachedStoreImplementsRows`, the refinement, step by step, and
`CacheAnswersLikeRows`.  `SessionWrite` and `AppliedWrite` are its heart: the
statements of a host function, put to the lists and applied after what is
already in them, are the row store's write.

Constants are assumed to be what the modules' `ASSUME`s say: a chain is founded
by actions of its cell, an update keeps its original's zome in what it says
(not in how it is recorded), and `None` is none of the values it stands
beside.

The library's induction theorems take an operator as a parameter, which no
installed prover can instantiate.  Where a fold has to be followed, two lemmas
of `StorageProofs` replace them: `SetInduction` (a set of numbers with 0 and
all successors is `Nat`; if it missed x, adding one would map its finite part
below x injectively into itself without reaching 0) and, by it, `StoredExists`
(a function that satisfies the recursive definition exists).

Every safety and action property of the passing runs is stated by a theorem.
Only model-checked are the liveness properties, which are out of the prover's
reach, as is anything with `ENABLED`: `CallsEnd`, `QueueServed`,
`RegisteredInTheEnd`, `RequestsEnd`, `TokenRecovers`, `CallsAnswered`,
`SettlesWithLinker`.  Of `CallsAnswered` the safety half is
`NobodyForgotten`.  `InTurn` and `Safe` in the names of properties say of which
scenarios they, and their theorems, speak.

The type invariants (`TypeOK`) are no properties of the runs; they are part of
the theorems.

## Not modelled

* The WASM runtime, serialization, bundle decoding: no state, byte formats.
* `SQLiteStorage` with `sqlite-worker.ts`: nothing but its tests makes one.
* The popup's pages other than authorization and permissions: their messages
  are inputs.  The end-to-end harness.
* Of chain recovery: progress messages, and a request for several DNAs, of
  which one that the network does not know ends the others.
* `query`, `get_details`, agent activity: they read rows or pass on one answer.
* Within modelled parts: signals, `sign_agent_info` and peer counts of the
  WebSocket; `lastUsed` and the WASM table of contexts (`getDnaWasm` has no
  caller); imported and derived keys as agent keys; keys preloaded in the Firefox worker;
  a session token that arrives by the linker configuration; the cache of record
  details with its TTL; `post_commit` in `Authoring` (it is in `SourceChain`); sizes
  and clock times.
* Reads of `SourceChainStorage` outside a call go to IndexedDB and differ from
  the row store's in ways only tests see: `queryActions` is not filtered by
  cell, a cached `getLinks` also returns deleted links, an entry row belongs to
  the cell that wrote it last, and a genesis that was half done cannot be
  repeated.  The properties of run `storage` say exactly what is left equal.
* Of `HappContexts`: writes before the first recovery of a chain are not counted
  as recovered over (that recovery is what the user asks for); what a request
  that timed out does in the worker it does before the worker's next one.
* Assumed of the browser: `getContexts` and
  `closeDocument` answer before another document loads.

## Plan

1. A composition of `PublishQueue` and `LinkerSocket`: retries on the events of
   the socket.
2. `LairLock` on Firefox: the keys preloaded in the worker.
