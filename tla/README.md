# Verification of code-mcp-gateway

TLA+ models of the gateway (a Cloudflare Worker with Durable Objects) and of its
command line client, the TLC runs that check them, and the TLAPS proofs about
them. Paths below are relative to the repository; `PROJECT.json` maps every
definition to the lines it stands for.

A device opens a WebSocket *tunnel* to the gateway. MCP clients send JSON-RPC
requests to the gateway, which relays them over the tunnel and hands back the
answers. The gateway also stores temporary files and relays file downloads from
the device.

## The system

| Part | State | Operations | What makes it correct |
| --- | --- | --- | --- |
| **Device object** `worker/src/device-do.ts`, one Durable Object per device | attached socket `ws`, pending requests, SSE sessions, `lastSeen` in the socket's attachment, storage alarm, time of the last registry call | upgrade, frame, close/error, alarm, `POST /mcp`, `GET /sse`, `POST /messages`, timers | one tunnel at a time and always watched; every request settled exactly once, on the tunnel it was sent on; streams do not outlive the tunnel; the registry follows the tunnel |
| **Download relay** `worker/src/download-relay.ts`, inside the device object | map of transfers: head, length, received, outstanding pull, step timer, overall timer | start, head, chunk, bad frame, pull, cancel, timers, failAll | a body ends complete only with exactly the announced bytes; no queue; everybody gets an answer |
| **Registry object** `worker/src/registry-do.ts`, one for the gateway | online map with an age, device tokens, disabled set, file id index, R2 budget | register, unregister, sweep, upsert, remove, setstate, file index, budget | online entries follow the tunnels; the budget covers what is stored |
| **Files object** `worker/src/files-do.ts`, one per device | records, their copy in storage, alarm | reserve, complete, abort, list, get, delete, set-key, alarm, reap | quotas; a record that is served has its object; expired records go |
| **File routes** `worker/src/files-routes.ts` | a cache of file owners; otherwise the places of its handlers' awaits | upload, download, delete, list | every reservation of slot, bytes, id and object is undone when the upload fails |
| **Entry** `worker/src/index.ts` | two per-isolate caches (tokens, disabled) with a TTL | routing, authorization, admin mutations | a mutation is seen soon; unknown and disabled devices stay out |
| **Rate limiter** `worker/src/rate-limit.ts`, per isolate | a counter and a reset time per client IP | allow, sweep | limits hold; forgetting counters changes nothing |
| **Configuration, protocol** `worker/src/config.ts`, `protocol.ts` | none | parse the environment, the price of a month; types | - |
| **Cloud device, sandbox** `worker/src/cloud-device.ts`, `coding-sandbox.ts` | none in the Worker; a job and its log in the container | tools of a virtual device | - |
| **Pages** `worker/src/*-ui.ts`, `ui-css.ts` | none | HTML | - |
| **CLI client** `cli/src/client.ts` | `handshaken`, `lastAttempts` shared by the calls of a batch | rpc with attempts and deadline, handshake, callTool | a tool never runs twice; a reported refusal is true |
| **CLI batches** `cli/src/pool.ts`, `tools.ts` | the pool's counter | pool, sequential, toolsCall | every call gets an outcome |
| **CLI updates** `cli/src/update.ts`, `version.ts` | the installed program | list, choose, fetch, check, rename | the highest release is chosen; only whole, verified and newer programs are installed |
| **CLI configuration** `cli/src/config.ts`, `devices.ts`, `target.ts`, `context.ts` | the configuration file, temporary files | load, change, replace | the file is always whole; a command keeps what it was not given |
| **CLI front end, scripts** | none | arguments, help, output, builds | - |

How they interact:

- The entry checks credentials against the registry (through its caches) and
  passes requests to device and files objects. A device object calls the
  registry (`register`, `unregister`) without waiting for each other's order.
- The upload handler calls files object, registry (budget and index) and R2 one
  after the other; the files object calls R2 and the registry from its reaps.
- The files API has a copy of the tokens of its own and never asks for the disabled
  set. Downloads by id go from the registry's index, or from the isolate's cache of
  owners, to the owner's files object, to the credentials and to the bucket.
- Administrators change the registry through the entry, which first drops the
  copies of the isolate that serves them; other isolates wait for their TTL.
- The CLI sees the gateway through HTTP statuses only. Its processes meet each other
  in two files: the configuration and the installed program.

What is hard here: a Durable Object runs one event at a time but yields at every
await, so a handler that awaits a body, the registry or R2 comes back to
different state; calls to other objects may be lost, fail or be overtaken;
hibernation drops the memory and keeps the sockets, eviction drops memory and
timers; handlers are cancelled when their client goes; timers race answers; every
isolate caches what the registry may meanwhile change; processes of the CLI read,
change and replace files without a lock, and may be killed at any call.
`PROJECT.json` lists these hazards line by line with the properties aimed at them.

## Modules

| Module | Models | Checked by runs |
| --- | --- | --- |
| `DeviceDO` (`MCDeviceDO`) | device object, with its entry in the registry's online map | device_relay, device_live, device_roster |
| `RelayedDownload` | what a client is promised of a download (abstract) | through download |
| `DownloadRelay` (`MCDownloadRelay`) | download relay, implements `RelayedDownload` | download |
| `FileStore` (`MCFileStore`) | files object, upload and DELETE handlers, bucket, budget, id index | files_quota, files_live, files_budget |
| `FileDownloads` (`MCEntry`) | downloads by id, cache of owners, protection keys | entry |
| `DeviceAccess` (`MCEntry`) | the gates of the entry and of the files API, their copies, the registry's tokens and disabled set, administration, restarts | entry, entry_shared, entry_disabled |
| `R2Budget` (`MCEntry`) | the registry's monthly budget | entry |
| `RateLimiter` (`MCEntry`) | rate limiter | entry |
| `ToolCalls` (`MCCli`) | CLI client and pool, against gateway and device | cli, calls_complaint |
| `ConfigData` | a configuration and what a command makes of it | through cli |
| `AtomicConfig` | what the users of the configuration file are promised (abstract) | through cli |
| `ConfigCommands` (`MCCli`) | processes that change the file, implements `AtomicConfig` | cli |
| `Versions` | the order of versions | through cli |
| `UpdateCommands` (`MCCli`) | processes that run `mcp update` | cli |
| `DeviceDO_proofs`, `DownloadRelay_proofs`, `FileStore_proofs`, `FileDownloads_proofs`, `ToolCalls_proofs` | theorems about the module of that name | proof checker |
| `Entry_proofs` | theorems about `DeviceAccess`, `RateLimiter`, `R2Budget` and their composition `MCEntry` | proof checker |
| `Cli_proofs` | theorems about `ConfigCommands`, `Versions`, `UpdateCommands` and, with `ToolCalls`, their composition `MCCli` | proof checker |
| `SumTheorems` | sums over finite sets, for the proofs | proof checker |

`MCEntry` and `MCCli` put components that share no state into one run: a behaviour
is about one of them, which is chosen at the start, so the state spaces add up
instead of multiplying.

### DeviceDO

One action is the code between two awaits. The upgrade is `Upgrade` (up to the
registry call, with the socket attached and the old one detached, failed and
closed) and `UpgradeAnswered` (alarm and 101). `POST /mcp` is `McpArrives` (the
checks before `request.text()`) and `McpBody`; `POST /messages` is
`MessageArrives` and `MessageBody`. A socket goes unused, accepted, open,
closing or ended, gone: *ended* is the time between the peer's end and the
runtime's close event, which is why a late close of a replaced socket
(`SocketClosed`) can be told from the close of the tunnel. `calls` holds
registry calls under way; they are applied in any order (`RegistryApplies`) or
lost (`RegistryFails`). `roster` is the age of the device's entry in the registry's
online map: an entry past its TTL stays there until a listing sweeps it
(`RegistryLists`), an administrator may remove it (`RegistryRemoves`), and the
registry, which stores the ids of the map without their times, makes it fresh
whenever it is rebuilt (`RegistryRestarts`); a device is `Listed` when a listing
would report it. `Tick` moves ages, the alarm and the registry's clock together. `Wake` is hibernation: all memory is lost, sockets stay, and the
constructor attaches any of the sockets the runtime returns. `Restart` loses the
sockets too. Bodies are awaited although the entry buffers them: the object
still awaits `request.text()`.

`AwakeSpec` leaves `Wake` out. `SocketsCared` and `FreshTunnelKept`
are stated there: after hibernation the constructor takes
`ctx.getWebSockets()[0]` whatever its state, so a live socket may stay
unattached (see *Divergences*). Safety of requests and streams is checked and
proved with hibernation.

The properties of requests and streams do not tell which socket the constructor
finds after hibernation, since the object sleeps only when nothing is pending.

Left out: the recent-clients list, the token check at the upgrade (a refused
upgrade changes nothing), and storage of the registry that fails.

### DownloadRelay

Every frame the device may send at any moment, valid or not, every pull and
cancel of the stream, both timers and `failAll`. The platform's ReadableStream
(with `highWaterMark: 0`) is the variables `body`, `reading` and `queued`.
`RelayedDownload` says what a client may observe: one answer, bytes up to the
announced length, and an end that is complete only with exactly that length.
The refinement maps the transfer's entry and stream to that view.

### FileStore

Uploads are identified with the record they reserve. `pc` is the await an upload
stands at: reserve, index, put, complete and the undo paths. Whatever removes
records is a *job* (a reap of an alarm, a list or a reserve, or a DELETE) that
takes a record out of the map, deletes the object, releases its bytes and goes
on with its snapshot. The object's storage closes its input gate, so a change and
the persist that follows are one step; the awaits on R2 and on the registry are
not. `Faults` says what may go wrong: `cancel` (the handler's client goes away),
`evict` (the object loses its memory; `saved` is read back), `hiccup` (a call to
the registry or R2 fails). Sizes are checked twice, declared and as R2 reports
them; the reported size is arbitrary. The limit of files, which the object
reads from its environment, is any of `Limits`.

Two simplifications that allow more behaviour than the code: a reap visits the
records of its snapshot in any order, and a reap with nothing to remove ends in a
step of its own. The byte count here is the one figure of the budget that uploads
and removals share; prices, operations and months are in `R2Budget`, set-key and
downloads in `FileDownloads`.

### FileDownloads

One isolate, the ids it is asked for, and what `FileStore` shows of a file to a
download: reserved, indexed (`pending`), ready, gone, its object, its key and its
expiry. A download is at `lookup` (the registry's index), `remember`, `record` (the
owner's object, which first reaps what expired before the call came), `decide` (the
credentials) or `fetch` (the bucket); a cached owner skips the first two. `seen`
collects, while a download is under way, every answer that the state of its file
called for (`Right`), so `DownloadsLinearize` says that the answer was right at some
moment between arrival and answer. `RememberOwner` leaves open which entries the
cache drops; their age is not modelled because `lookupRecord` does not look at it.
Calls that fail, ranges and the page's layout are left out.

### DeviceAccess

A request is a step from await to await: `Arrive` (the isolate's copy of the tokens
or a call), `AnswerMap` at the registry, `MapArrives` (the copy is kept, also of a
failed call, which reads as an empty map), `AskFresh` (`resolveDeviceMap` does not
trust a copy that lacks the device), `Unauthorized`, and the disabled set in the same
way. One request is of one of two APIs: `relay` stands for the routes of `index.ts`,
which repeat the same gates (`Outcomes` has what each does behind them), `files` for
`authorizeDevice`. `AdminSends` drops the copies and sends the change, `AdminApplied`
is the registry's call with its writes to storage, `RemoveInterrupted` a restart
between the writes of `/remove` (it writes the tokens, the online map, which is in
`DeviceDO`, and the disabled set), `Restart` an eviction with the constructor's
rebuild. Time is discrete: a call takes at most `Latency`, a copy is dropped at `Ttl`,
and steps that wait for nothing happen before the clock moves.

`calm` counts the ticks since the registry changed or a call failed, `known` says
what the registry has held of a device (nothing yet, its first token, a later one, or
one that was removed; a restart that seeds a device counts as a later one, because it
may bring back a device that was removed): two history variables in terms of which
`SettledDecision` and `NewDeviceKnown` are stated. `Settling` is one TTL and two
calls, the time after which no copy and no answer under way can be older than the
last change. Administrators work one at a time. `SettledDecision` says of both gates
what they decide from then on: the relay's by tokens and disabled set, the files
API's by the tokens alone, so a disabled device is still authorized there.
`DisabledTurnedAway` is what a comment of the registry says of it instead.
`RegistryKept` compares states without an administrator's change between them, a
removal that is cut short included.

### R2Budget

`admit`, `release`, `ops`, status, the change of the month and evictions, for
whole-number prices (the code's are decimal fractions) and any allowances.
`standing` and `uploads` are the history of what was admitted: `HardCeiling` compares
them, and not the object's own count, with the budget. A release names no more bytes
than stand, which is what `FileStore` assures except in the behaviours of
files_budget. The operations of an upload are one number; those of the parts of a
multipart upload are not counted one by one.

### RateLimiter

`allow` and the sweep over a clock. `unswept` and `admitted` are history
variables that no action reads except to state properties.

### ConfigData, AtomicConfig, ConfigCommands

A process is `loaded` (the file is read when the command starts), `writing` (the
temporary file is open and torn), `written`, and stopped. Temporary files are named
after pids; a killed process leaves its own behind and a later one with the same pid
overwrites it. A field is gateway or token (the gateway token is like the token):
`parseConfig` reads an empty string as no field, `entryFromOverrides` stores what was
given, `connect` merges. `AtomicConfig` is the promise: the file changes only in one
step, to what one command makes of a configuration that was read, and whoever gives
up or dies has no effect. The refinement maps a process that has loaded to a reader
and its rename to the change. Lost updates of overlapping commands are part of the
promise, because nothing in the code or its docs excludes them; `OthersKept` says
what is kept when nobody overtook.

### Versions, UpdateCommands

`Versions` translates the comparison: numbers before words in prereleases, builds as
a tiebreak, by value when both are numbers and by text otherwise. An identifier is
its value and its rank among strings. `SelectLatest` is the loop over the list: a
release replaces the best so far when it is higher, and prereleases take part only
when the list holds nothing else. A process of `UpdateCommands` runs the version
that was installed when it started, lists what is published then, chooses, downloads
(intact or damaged), verifies, and installs in three calls, or stages on Windows.
`program` is the installed file; releases are published at any time, two processes
update the same file. `fetchReleases` reads one page of 50 releases; the model lists
all of them.

### ToolCalls

One batch on one shared `GatewayClient`. `step` is the rpc a call is at: `try`
(the direct call of mode auto), `initialize`, `initialized`, `final`; `wire` says
whether it waits for an answer or for its backoff. Requests live on after the
client abandons them: `travelling` to the gateway, `forwarded` over the tunnel.
The gateway refuses a request before forwarding it (429, 502, 503 busy), fails
it before (401, 413, 503 offline) or after (504, device lost); the device
complains, runs the tool, or restarts and forgets. These are modelled from how
`client.ts` tells answers apart. Handshake mode and number of workers are chosen
at the start, as the options are. No clock: a signal may fire at any time.
An error of a tool may read like the initialization complaint (`lookalike`), which
`isInitializationComplaint` takes it for; `misled` remembers the calls that were
repeated after one, and the properties say what holds of them.

## Runs

All bounds are constants of the configurations; requests, sockets, files and
calls are finite because each is used once (the requests of `DeviceAccess` and the
downloads of `FileDownloads` may be used again).

| Run | Question | Bounds, and why they suffice |
| --- | --- | --- |
| device_relay | Do pending requests and streams follow the tunnel, through replacement, late closes, hibernation and restarts, and is each settled once? | Two connections (one replaces the other), one HTTP and two SSE requests on one stream; limits of 1 so every limit is reached |
| device_live | Is the tunnel always attached, watched and fairly replaced; does everything end and does the registry follow? | Two connections, one request, one download, grace 1 < keepalive 2, so there are instants on both sides of each comparison |
| download | Does the relay implement the promise, without queueing, and does each transfer end? | Two transfers for one slot, length up to 3 in chunks of up to 2: first, middle, last, short, long and empty chunks |
| files_quota | Do the number of files, the total, slots, objects, ids, the alarm and acknowledged files survive concurrent uploads, a concurrent visit, cancellation and eviction? | Two uploads that may both be stored, sizes 1 and 2 under a total of 2, so a reap may have two records to remove and complete may refuse; one file or two per device, so the uploads also race for one place; one visit |
| files_live | Do expired files and abandoned reservations go away, under every fault? | One upload, two visits |
| entry | Do decisions follow the registry, does it survive restarts, does the limiter limit, is every download answered rightly, does the budget hold? | *Gates*: a tunnel device and a virtual one, two tokens, two requests in one isolate and both APIs, and an administrator who also works through an isolate outside the model (that is what another isolate's copy amounts to); one change, TTL and latency of one tick; failing calls and restarts; no shared token, so a failed call leaves the gates open; storage empty, with the seed, or with the virtual device only. *Limiter*: two clients, limit 2, two and a half windows, so two windows touch. *Downloads*: one id, one key, two downloads, a cache for one owner. *Budget*: three months, calls of up to 2 bytes, four operations, a budget that refuses both for bytes and for operations |
| cli | Is the configuration always whole and kept, is the program always genuine and newer; does no tool run twice, are reported outcomes true, does a batch end? | Two processes, two devices, two fields, three commands; two updates over four releases: two builds of one day, a prerelease, one without checksums; two calls of a batch, one or two workers, two attempts, all handshake modes, errors that read like the complaint. Processes and devices are symmetric; in a behaviour about a batch none of them is in a variable that changes, so its liveness is not touched by that |

Every property of these runs has a mutant: a plausible bug in a mapped definition
that makes TLC find the property violated.

Five runs show disagreements between the code and what it says of itself:

- **files_budget** (`BudgetCovers`): overlapping reaps, or a reap and a DELETE,
  release the bytes of one file twice, and the budget falls below what is
  stored. The run uses a narrower next-state relation (`PlainSpec`: uploads one
  after the other, none fails) to reach the long behaviour.
- **device_roster** (`SweptStaysSwept`): the registry gives every stored entry of its
  online map the time of its own restart (`registry-do.ts:71`), so a device that died
  without an unregister is listed again after its TTL has run out, and once more after
  every restart; lines 10-11 say that the set is swept by its TTL.
- **entry_disabled** (`DisabledTurnedAway`): the files API never asks for the disabled
  set (`files-routes.ts:98-116`), so a disabled device goes on using its files, though
  `registry-do.ts:271-272` says that disabled devices are "rejected with 403 by the
  gateway entry before any request reaches a tunnel/DO". Line 54 of the same file names
  `/mcp` and `/ws` only, and `cloud-device.ts:569` promises that "Deactivating the
  device stops all requests".
- **calls_complaint** (`ComplaintRetried`): `withHandshake` does not retry a
  complaint when another call of the batch has completed a handshake meanwhile.
- **entry_shared** (`NewDeviceKnown`): `resolveDeviceMap` reads the registry afresh
  only when its copy already holds another real device (`index.ts:166-167`). On a
  gateway with `DEVICE_TOKEN`, a copy from before the first registration holds none,
  so the first device is checked against the shared token and turned away with its
  own until the copy is dropped, which is what the comment above says a fresh read
  prevents. The same property holds in the run entry, which has no shared token, and
  is proved for every gateway without one.

## Fairness

- DeviceDO: the runtime delivers alarms and close events, awaited bodies and
  registry calls end (with an answer or an error), request timers fire, and time
  passes; a registry that is called again and again is reached again and again
  (strong fairness of the refresh, the call that a live tunnel repeats). Nothing is
  assumed of devices and clients. `LiveTunnelListed` speaks of a device that keeps
  sending frames; `LostTunnelForgotten` excepts a registry that restarts for ever, and
  assumes of listings nothing, because an entry past its TTL is not reported.
- DownloadRelay: only the overall timer fires.
- FileStore: jobs and handlers that are not cut off go on, the alarm is delivered,
  reservations grow old. Nothing is assumed of clients, and faults may strike
  again and again.
- ToolCalls: a free worker takes the next call, and the abort signal of a fetch
  fires. Nothing is assumed of gateway or device.
- The run entry, and of the run cli what is about files, check safety only and assume
  no fairness. What could be said
  of progress there (a call ends, a process goes on) would be the assumption itself;
  that decisions become right in bounded time is the safety property
  `SettledDecision`.

## Proofs

The proofs hold for every value of the constants under the assumptions the modules
name (finite sets where sums or cardinalities are taken, disjoint request sets,
`Grace <= Keepalive`, positive limits where the code has them).

**DeviceDO.** `TypeCorrect`; then `TunnelHeld` (the attached socket is in a state
the runtime holds) and `RelayInvariant`. None of the request properties is
inductive alone. That only the loss of its tunnel fails a request needs that a
pending request was sent on the *attached* tunnel, which needs that every path
that detaches a tunnel fails the pending requests first, and that streams and
downloads exist only with a tunnel. From it follow `PendingOnTunnelHolds`,
`StreamsServedHolds`, `FailedOnlyByLossHolds` and `SettledForGood`. Without
hibernation, `TunnelSafety` (open sockets are attached, attached tunnels have an alarm
or an upgrade about to set it) and from it `FreshTunnelSafe`, which needs that an alarm never finds a tunnel younger than
the grace period overdue.

**DownloadRelay.** `Invariant` ties the relay's entry to the client's view
(`Coherent`): a pull stands for a waiting reader, the reader for an open body, the
open body for an open entry with a head. `TypeCorrect`, `NobodyWaitsHolds` and
`PullBasedHolds` follow, and `Refinement`: initial states map to initial states and every step to a step of
`RelayedDownload` or to a stutter.

**Sums and folds.** The provers cannot instantiate an induction theorem that takes an
operator. `SumTheorems` does without one: a fold over a set is a recursive function on
its subsets, and both that this function exists and what is said of its values are
shown by taking a minimal subset for which it fails, since the proper subsets of a
finite set are well founded. From there come the lemmas the
other proofs cite: the type of a sum, adding an element, disjoint unions, subsets,
sums that differ at one element.

**RateLimiter.** `LimiterTypeCorrect` bounds the counters; `SweepInvisible` compares the
map with the one never swept, key by key. `SpansHold` says that no client gets more
than twice the limit through in any span as long as a window. It needs, of every
counter that was never swept (`WindowsKept`), that it is the number of requests that
passed since its window began, that nothing passed after now, and that the instants
before it meet only one other window, hence hold at most the limit; a span meets at
most two windows because a new one begins strictly after the old one's end.

**FileStore.** The invariant has named parts: types, what storage remembers
(`SavedCovers`: what storage still holds and the map does not is past a deadline, so an
eviction brings back only records that the constructor reaps again), what each
job holds, what each place of an upload implies. From it `QuotaCountHolds`,
`StoredFilesSafe`, `AlarmAlwaysArmed` and `AcknowledgedSafe`. `TypeCorrect` includes the
range of the budget, and `QuotaBytesHolds` that the records never exceed the total:
only `reserve` adds a record and only `complete` changes a size, both after
comparing the sum with it, and everything else leaves a part of the records.

**ToolCalls.** The invariant follows the one request that may run a call's tool:
there is at most one under way, and none once the tool ran (`Once`); the client is
in a state that may send another only when nothing ran and nothing is under way
(`Clean`); an answer that leads there was given by somebody who knew (`Honest`).
Both count from `Before`, the one run of a call whose tool ended with an error that
reads like the complaint: it is repeated although it ran. `CallsRunOnce`,
`OutcomesTrue` and `BatchTypeCorrect` have no hypothesis about the errors of tools; the
first two state that exception (see *Divergences*).

**Registry** (`DeviceAccess`). What is stored is what is in memory (`StorageAgrees`):
every call writes before it ends and the constructor writes what it adds, so a
restart, also one between the two writes of a removal, changes no token of a registry
that held something; `RestartKeepsRegistry` follows because the seed is for an empty
registry and the virtual tokens are the only ones overlaid.

**Gates** (`DeviceAccess`). `SettledHolds` is the claim that an administrator's change is
known everywhere after one TTL and two calls, and says what each gate makes of it. Its invariant (`GatesInv`) follows
whatever is still old: a copy that differs from the registry was asked for before the
change, so `calm` is at most the copy's age and a call; an answer under way that
differs, at most the time it has travelled; what a request decided from a copy, and
would be refused now, at most a TTL, a call and its wait. Each of these is smaller than
`Settling`, so after that time nothing old is left. It rests on copies being dropped at
the TTL, on calls ending within `Latency`, and on the clock waiting for steps that wait
for nothing. `NewDeviceHolds` is about one device: until it is removed or replaced,
every map anybody holds either lacks it or has its token (`NewsInv`), so the gate that
finds it missing asks, and a request that presents the right token and has asked since
(`DueInv`) finds it unless the registry was not reached. It assumes that there is no
shared token, and entry_shared shows that it is false with one. `GatesTypeCorrect` is
of the module, `EntryTypeCorrect` and `EntrySpansLimited` carry the results of the parts
to the composition, whose behaviours are those of one part.

**R2Budget.** `Covers` says of both the count in memory and the one in storage that the
bytes are those that stand, that the month is not ahead of the clock, and that a
count of this month has at least its uploads. Both are needed: a refused call rolls
the month in memory only, and an eviction brings the stored one back. With the
monotonicity of the price, `CeilingHolds` follows.

**FileDownloads.** A download's snapshot is paired with what it has seen: once its
record was read as complete, the verdict of the key that was read has been right at
that moment (`DecideInv`), and a record that was complete can only have gone since,
so an object that is missing means a file that is deleted (`FetchInv`). Known owners
are of files that were indexed, so a cached owner never answers for a file that is not
there yet. `AnswersLinearize` follows, and `OwnersStayBounded` from the loop that
makes room.

**ConfigCommands.** A written temporary file holds what the command makes of what the
process read (`ProcInv`), so the rename is one step of `AtomicConfig` and everything
else is a read, a stutter or a giving up: `Refinement`. As long as nobody renamed,
what a process read is what a reader still finds, and a merge changes only the
fields it was given: `OthersAreKept`, which uses that reading strings twice changes
nothing.

**Versions, UpdateCommands.** `VersionsOrdered`: `compareVersions` is a linear order,
antisymmetric and transitive, and equal versions are the same. Two lists of
identifiers are compared at the first place where they differ, or by length, so any
order of identifiers gives an order of lists; the three orders (numbers, identifiers
of prereleases, builds) are orders of that kind. The hypotheses are that an identifier is
known by its text, that a number is written in one way, and that builds are all
numbers or all words: without the last the relation has cycles (see *Divergences*).
`SelectsLatest`: if the versions of the list have an order (`InOrder`, which
`VersionsOrdered` gives), the fold over it returns the release that counts and that no
other one that counts is higher than, shown over the sets of places of the list as for
sums. For any list whatever `SelectsKept` says only that it returns one that counts,
when there is one. `UpdateInvariant` keeps of an update that has chosen that its release is
published, has an asset, and is newer than the program unless that was replaced
meanwhile or `--force` is given, and of one that writes that the bytes are intact and
were checked. `InstalledIsGenuineHolds`, `OnlyNewerHolds` and, for releases whose versions
have an order, `LatestChosenHolds` follow. The releases of the run cli are such.
`TypeCorrect` is of the composition.

Only model-checked: the liveness properties `RequestsSettled`, `SilentTunnelDropped`,
`LiveTunnelListed`, `LostTunnelForgotten`, `TransferEnds`, `NothingStays` and `BatchEnds`, because fairness and
ENABLED are out of the prover's reach. Every safety invariant and action property of the
passing runs is a theorem. Where a theorem has a hypothesis (`NewDeviceHolds`,
`SelectsLatest`, `LatestChosenHolds`) it is one that the run satisfies, and what is
false without it is shown by a run or listed below.

## Divergences noted without a run

- A named release that is older than the installed program is not installed without
  `--force`, and the command reports "already up to date" (`update.ts:318`, `:374`),
  though `cli/README.md:413` says that `--release-version <v>` "installs one specific
  version".
- `rate-limit.ts:1` says "sliding-window", the code counts fixed windows: twice the
  limit can pass in one window's span. `SpansLimited` states what does hold.
- `worker/README.md:110` promises a limit of concurrent in-flight requests per device;
  `handleMcp` compares (`device-do.ts:400`) before it awaits the body and not after, so
  requests whose bodies arrive together exceed it.
- `device-do.ts:89` restores `getWebSockets()[0]`; line 85 says "a live WebSocket".
- `device-do.ts:560` asserts that the session looked up before the await is still
  there; when it was closed meanwhile the handler throws.
- An upload that outlives its reservation is answered 404 and leaves its object
  in the bucket (`files-routes.ts:451`). Whenever `complete` refuses, its bytes stay
  counted for good: the handler returns without `budgetRelease`, and `deleteObject`
  releases only ready records (`files-do.ts:287`), though `files-routes.ts:698` says
  "Give reserved bytes back when an upload does not become a stored file".
- `client.ts:296` takes any JSON-RPC error whose message matches `/initiali[sz]/i` for
  the complaint, also one of a tool that ran; the call is then made again, though
  `client.ts:24` restricts retries to failures before the tool was reached.
  `AtMostOnce` and `ToldTrue` name it as their one exception.
- `version.ts:84`: builds that mix forms have no order ("9" < "10" < "1a" < "9"), nor
  have "01" and "1", each of which is higher than the other; the choice of the highest release (`update.ts:107`) then
  depends on the order of the list. The releases of the run do not mix forms, and
  `SelectsLatest` and `LatestChosenHolds` have it as their hypothesis.
- Removing the last device makes the registry empty, so a restart seeds
  `DEVICE_TOKENS` again (`registry-do.ts:79`), though line 64-65 says "the first time
  the object is created". `RegistryKept` speaks of a registry that stores something.
- A release of bytes does not roll the month (`registry-do.ts:253-260`), so the
  Class A operation of a deletion at the start of a month is dropped with the old one.
- An index entry whose upload was aborted or whose file expired stays in the registry
  until it is looked up after its expiry or the registry restarts
  (`registry-do.ts:163-167` says it is dropped "rather than leaking it forever").
- `devices connect --timeout 0 --set-default` stores 0, which `target.ts:98` would not
  accept from the command line; `connect --token ""` stores an empty token that
  reads as no token afterwards.
- `files-do.ts:302` says a failed release under-counts usage; it over-counts.
- A registry that fails during an upload lets it through unadmitted, and its bytes
  are released later all the same.
- The alarm drops a silent tunnel without unregistering it; only the registry's
  sweep removes the entry. The keepalive comparison is strict, so a silent tunnel
  may live one more period.
- `cli/README.md:377` says the timeout is the budget for the whole call; each rpc of
  a handshake has its own, and `handshake()` is called without the options.
- A request that was forwarded and failed with the tunnel is reported as "device is
  offline", which reads as if it had never been sent.

## Not modelled

- The sandbox and the cloud device: each call of the Worker runs one command in a
  container, or a request elsewhere, and keeps nothing. The one thing that lives on,
  a background job and the log file all jobs share, is in the container's shell.
- Pages, help texts, output, argument parsing and build scripts: formatting and
  input/output without state.
- Of modelled parts: the recent clients of a device, notes and listings of the
  registry, the rewriting of forwarded requests, the gateway token and the origin
  check, ranges of downloads, the quota report, `resolveTarget`, listTools, the
  length of timeouts in the CLI (each rpc of a handshake has its own, so a clock would
  only restate the divergence above).

Worth adding with more time: `ToolCalls` with `DeviceDO` in the place of its gateway;
the refinement of `DeviceAccess` to a gate that reads the registry of at most one TTL
and two calls ago; `BudgetCovers` for removals that do not overlap.
