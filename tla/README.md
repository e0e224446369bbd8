# A verification development for the agent platform

TLA+ specifications of the platform's Go services, the TLC runs that check
them on small instances, and proofs of their central properties in TLAPS.
Paths are relative to `src/go/` unless they start with `docs/` (for
`src/docs/`); `PROJECT.json` maps every definition to the lines it models.

## 1. The system and its parts

A message of a chat platform reaches the **gateway** as a webhook; the gateway
writes a job to a Redis stream, its consumer runs a **runtime daemon** for the
job and sends the reply back through the channel adapter. The daemon runs one
turn of a **provider's CLI** (claude, codex, gemini), with a chain of fallback
providers. Before the turn the **skill loader** picks the agent's skills; a
per-turn **MCP bridge** serves their tools to the CLI. Skills come from the
**registry**, whose command line installs them. The **orchestrator** keeps one
cloud sandbox per user. Nothing but Postgres, Redis, the file system and the
sandbox provider survives its process.

| Component | State | Operations | Interacts with | Modelled |
|---|---|---|---|---|
| Provider client (`internal/orchestrator/daytona_client*.go`) | the sandboxes, held by Daytona or by the fake | create, get, find by label, start, stop, delete | called by the orchestrator over HTTP; may fail before or after taking effect | `DaytonaClient` |
| Orchestrator core (`sandbox.go`) | store: user to sandbox | GetOrResume, Hibernate, Destroy | provider; called by pool and handlers | `Orchestrator` |
| Pool and single flight (`pool.go`, `single_flight.go`) | LRU list, map, last activity, pins, calls in flight | GetOrResume, Touch, Hibernate, evict | orchestrator core | `SandboxPool` |
| Service and idle scan (`api.go`, `hibernate.go`, `cmd/orchestrator`) | a goroutine per request, the scan's snapshot | five endpoints, ScanOnce | pool (provision, scan), core (resume, hibernate, delete) | `OrchestratorService` |
| Daemon handles (`exec.go`) | pending calls, reader, stopped flag, the spawner's map | StartDaemon, RPC, Stop, readerLoop | the daemon's process over pipes | `DaemonHandle` |
| Gateway repositories (`internal/gateway/dal.go`, `pg_repos.go`) | agents, channels, routing index | create, register, delete | user routes, webhook, consumer | `GatewayRepos` |
| Gateway ingress (`routes/webhooks.go`, `idempotency.go`, `queue.go`) | keys and stream in Redis | claim, route, enqueue | platform, Redis | `GatewayIngress` |
| Gateway consumer (`consumer.go`) | group and pending entries in Redis, batch in hand | read pending, read new, job, reply, ack | Redis, runtime daemon, adapters | `AgentRunConsumer`, `Gateway` |
| Runtime daemon (`internal/runtime/daemon.go`, `pkg/jsonrpc`, `cmd/runtime-daemon`) | wait group, shutdown and cancel flags | Serve, run, shutdown, drain, exit | its client over stdin/stdout | `RuntimeDaemon` |
| Agent loop, breaker, sessions (`agent_loop.go`, `fallback.go`, `session_dal.go`) | session cache, place in the chain, entry per provider | Run on one provider or the chain | sessions, CLI | `AgentLoop`, `CircuitBreaker` |
| CLI backends (`internal/clibackend`) | temporary files, a process group, its pipes | Turn | the CLI and what it starts | `CliOutput`, `CliTurn` |
| Skill loading (`internal/skills`, `agent_loop.go`) | the roots on disk, a plugin directory per run | load, resolve, copy, clean up | agent loop, CLI | `SkillTurn` |
| MCP bridge (`internal/mcpbridge`) | pool of child processes, request numbers, audit trail | initialize, tools/list, tools/call, Stop | CLI over HTTP, skill processes over pipes | `McpBridge` |
| Skill registry (`internal/registry`) | blobs, package rows, publishers | publish, change key, download; search is left out | Postgres or memory, file system or memory | `SkillRegistry` |
| Platform command line (`cmd/platform/skills.go`) | a directory per skill with its receipt | install, update, check | registry | `SkillInstall` |
| Zalo token refresher (`adapters/zalo`) | token pair, failures, the send switch | Start, Stop, RefreshNow, the loop | Zalo's token endpoint | `ZaloTokens` |
| Provider health (`internal/telemetry/health.go`) | window of samples | record, snapshot, reset | agent loop | `ProviderHealth` |
| Migrations (`internal/persistence/migrate.go`) | ledger, schema | Up | Postgres | `Migration` |
| Health probe, warm pool, presence; administration, authentication; Telegram and Zalo adapters; repositories of runs and sessions; demo pipeline | | | | no, see section 7 |

What is hard in it: orchestrator goroutines share a pool whose critical
sections end before the provider is called, so every decision is stale by the
time it takes effect; provider calls can fail after taking effect; the gateway
spreads one message over three stores (key, stream, group) and may die between
any two; runs of one daemon share a breaker, and the daemon's end races its
handlers; a CLI's children hold pipes that the turn waits for; a reply that
came too late stays in a pipe that the next call reads; a release is a blob and
a row, an installed skill many files and a receipt; a refresh token works once.
What makes each part correct:

* Orchestrator: one sandbox per user, a user's requests only ever meet the
  user's own sandbox, one flight per user and no request that waits for ever,
  list and map of the pool agree, capacity holds but for pending evictions,
  idle sandboxes are stopped. A stopped handle leaves no RPC it knew of waiting.
* Gateway: a message is queued at most once per life of its key, a queued job
  is handled at least once and in order, a reply is repeated only for a crash,
  and a job never runs with another tenant's agent, unless an administrator
  registered that pair.
* Runtime: a breaker opens at its threshold and always gets out of its trial,
  the chain keeps its order and stops at a terminal error, a session is resumed
  only by its provider, and a request taken from the input is answered.
* A turn of a CLI: the answer is the whole of what was said, an error is not taken
  for an answer, the session is kept, no writer is left and no file but in the one
  case of section 6, and the turn ends. Its skills are what was resolved, and no
  lower tier displaces a higher one.
* Bridge: a caller gets the reply to its own request, a lock is held only by a
  call at work (whose write may have no end, section 6), Stop reaps the processes it can know of.
* Registry and installer: a release has a blob and its publisher's signature; a
  blob that is torn is completed by its writers, unless a write was broken off;
  releases are never changed; and a directory with a receipt holds what the
  receipt names, and nothing else unless a removal failed.
* The others: the stored token is the newest but for a lost reply and one that is
  put back (section 6), sends stop only after a window of failures; a snapshot
  counts its window; versions are applied in order.

## 2. Modules

An arrow reads "is extended by"; each module adds its variables, and a
composing module says with `UNCHANGED` what its actions leave alone.

* `DaytonaClient` ← `Orchestrator` ← `SandboxPool` ← `OrchestratorService` ←
  `MCOrchestratorService`, `OrchestratorServiceProofs`. `UserSandbox` is the
  abstract specification the service implements; `OrchestratorRefinement`, on top
  of `OrchestratorServiceProofs`, proves it.
* `GatewayRepos` ← `GatewayIngress` ← `AgentRunConsumer` ← `Gateway` ←
  `MCGateway`, `GatewayProofs`.
* `CircuitBreaker` ← `AgentLoop` ← `RuntimeDaemon` ← `MCRuntimeDaemon`,
  `RuntimeDaemonProofs`.
* `CliOutput` ← `CliTurn` ← `MCCliTurn`, `CliTurnProofs`.
* `SkillRegistry` ← `SkillInstall` ← `MCSkillInstall`, `SkillRegistryProofs`.
* `DaemonHandle`, `McpBridge`, `SkillTurn`, `ZaloTokens`, `ProviderHealth`,
  `Migration` ← `MCSideServices`. These six share no state: the instance runs
  one of them at a time, as its variable `part` says. `McpBridgeProofs` is about
  the bridge, `SideServicesProofs` about the other five.

**Orchestrator.** `state` and `owner` are the provider's sandboxes; `store` is
the in-memory store; `active`, `byUser`, `lastActive`, `pinned` the pool;
`inflight` and `waitOn` the single flight. Each thread has a program counter
`pc` and the locals that survive a provider call (`box`, `seen`); `onOk` and
`onErr` say where the current call returns to, so `GetOrResume` is one set of
actions whether the pool or a handler calls it. One action is one critical
section or one provider call: `Fetch`, `Find`, `Create`, `Record`, `Start`,
`Enter`, `TouchInternal`, `MaybeEvict`, `Forget`, `ScanItem` and so on.
`Live` picks the REST or the fake client; they differ in what they report after
a start and in whether stop and delete check the state. `Faults` holds
"request_lost" and "reply_lost"; a cancelled request context is the same to the
caller as a lost one. Sandbox ids are unique and never reused.
The clock is reduced to whether a sandbox is "fresh" or "idle"; `Age` is the
passing of the threshold. It does not happen to a sandbox a flight holds:
thresholds are at least two minutes, a provider call times out after 60 seconds.
`Restart` empties store, pool and threads; a request that was in a provider call
is dropped after the call took effect or before.

**Daemon handles.** An RPC registers in `handle[d].pending`, writes, and waits
for its channel, its timer or its context; `ensureReader` starts the one reader
of the handle. `Stop` swaps the pending map and answers what it took, an entry
a step. The daemon answers in any order, writes lines that are no reply, or
dies. `spawned` is the spawner's map, one process per sandbox.

**Gateway.** `repo` is the pair of repositories chosen at each start (Postgres
when reachable, else memory). API handlers are two steps, the check of the
owner and the write. In-memory re-registration updates the row but keeps the
old user and agent in the routing index; Postgres hands the row to the new
user. Postgres cannot delete channels (an error) or agents (501). A webhook is
`Claim`, `Route`, `Enqueue`, each of which may fail, Redis writes also after
taking effect. `AdminRegister` is `POST /admin/channels`, which checks neither user
nor owner; `granted` remembers the pairs it made of a user and another user's
agent. `stream` is the whole stream; `last` and `pending` are the
consumer group; `self` is the consumer's name, its process id. The consumer goes
through `ProcessPending`, then `ReadGroup`, and per entry `LookupChannel`,
`SpawnDaemon`, `SendReply`, `Ack`. `Crash` loses handlers and batch and, with
memory repositories, the rows. SIGTERM is covered by it, because the cancelled
context makes what is left of the batch fail without an acknowledgement.

**Runtime.** The breaker's methods are functions of an entry; each call is one
step, as the comment at `internal/runtime/fallback.go:116-123` asks callers to
serialise (nothing in the daemon does). A run is a handler goroutine whose
`step` names the next call; `pos` is its place in the chain. `mode` is "chain"
where a provider chain was passed to `NewAgentLoop`, "single" otherwise;
`BuildDaemon` passes none, so the shipped daemon is "single". A CLI turn ends "ok",
"failover" or "terminal" at any time; a cancelled one does not end "ok".
`Serve` reads, drains, returns, exits; `inflight` is the wait group. The client
may write, close stdin or signal at any time. A read error of the scanner is the
same as the end of the input.

**CLI turn.** `CliOutput` has the three parsers and the error classification as
operators over lines; a text is a sequence of phrases, one representative per
pattern of a classifier, and a line is a JSON value or raw text. `Values` are the
values that may be printed, with their parts: what recurses over a value
(`Dump`, `CollectText`) is a function on them. `CliTurn` is
the goroutine of `Turn` (`pc`), the CLI's leader and its helper, the two pipes,
the context and the timer. Claude and Codex copy the pipes while they wait and
signal the group; Gemini reads stdout, then stderr, then waits, and os/exec
signals the leader. A stderr longer than `PipeSize` fills the pipe.

**Skills of a turn.** `Load` reads one root, `Resolve` picks by precedence,
pin and environment, `Copy` writes one skill into the directory that the run's
id names; another delivery of the run, a daemon that dies, and an installer
that rewrites a skill come between.

**Bridge.** `call[c]` is the handler of a request, `children` the skillChild
records in the order of their creation, `processes` the spawned processes with
their unread requests and unread lines. A child's lock is `mu`. A call that
times out leaves its goroutine in `ReadBytes`: `readers` counts them, and either
reader gets the next line. The append to the audit trail is a read and a write.
A process may stop reading (`Stall`), and a write to its full pipe waits without
a limit, with the lock held. `late` marks a process spawned after `stopAll` took
the pool.

**Registry and installer.** A tarball stands for its digest, a key for its PEM
text. A publish goes through its checks, the blob (with the filesystem store a
`.part` file that two requests share, then a rename) and the row. A file is
"torn" while a writer has it open, "cut" when the writing was broken off; a
writer keeps its open file when another moves it over the blob. Postgres refuses
a manifest without a list of tools, whose tags are NULL. The installer
is one command at a time; each of its requests may fail, so may the removal of the
old directory, whose error it ignores, and it may be killed before any file
operation.

**Tokens, health, migrations.** A token pair is the number of its issue; Zalo takes
one once, and may answer with an access token alone: `Reread` and `OnSuccess` are
then two critical sections, and `putBack` remembers that the second wrote an older
token over a newer one. A health caller reads the clock before it takes the lock. A
migration runner reads the ledger once, then commits file by file; two open
transactions that create the same objects exclude each other.

## 3. Runs

| Run | Question and outcome |
|---|---|
| `pool_live_faults` | All endpoints, two users, capacity one, REST client, lost requests and replies, restart (3.6 million states): the proofs' invariant `IInv`, `OwnSandbox` and `ActiveSetBounded` hold. |
| `service_fair` | Two users, idle scan, fairness: `OneFlightPerUser`, `WaitersHaveLeader`, `AnsweredRunning`, every request answered, tracked idle sandboxes hibernated. |
| `one_sandbox_restart` | Three sandboxes, REST client without faults: with deletes, the scan and restarts, none of them after a delete (section 6), the service implements `UserSandbox` (2 million states). |
| `find_error_creates` | **Violated**: when the requests of both lookups, GetSandbox and FindByLabel, are lost, a second sandbox is created. |
| `idle_scan_forgets` | **Violated**: a sandbox resumed between the scan's stop and its removal from the pool runs idle for ever. |
| `gateway_delivery` | A message posted twice with faults of claim, enqueue, send and ack, a crash, an expired key, registrations by users and one by an administrator (1.4 million states): five safety properties and `EveryEntryEnds` hold. |
| `gateway_claim_lost` | **Violated**: a message answered 200 without a stream entry. |
| `daemon_runs` | Two runs and a shutdown request, or three runs of the chain (763 thousand states): `NoOrphanTrial`, `OpensAtThreshold`, `ChainInOrder`, `SessionIsolation`, `DrainIsComplete` hold. |
| `daemon_eof` | **Violated**: stdin closes behind a request, the drain times out, the turn is killed without a reply. |
| `cli_turns` | Every short output and every ending of the three CLIs (84 thousand states): `NothingLeftBehind`, `AnswerIsWhole`, `ErrorsAreReported`, `SessionKept` and `TurnEnds` hold. |
| `skills` | Two publishes at once over three pairs of stores, key changes, a restart; installs and updates with failures and kills (635 thousand states): `ReleaseHasBlob`, `TornBlobsMend`, `ReleaseIsGenuine`, `InstalledIsSigned`, `ReleasesKept` hold. |
| `side_services` | The six parts around a turn, each alone (3 million states): `StopAnswersPending` (handles), `ReplyIsOwn`, `StopReaps`, `LockHasHolder` (bridge), `LowerTiersYield`, `PluginDirIsSelection` (skills), `TokenIsLatest`, `DisabledOnlyAfterWindow` (tokens), `WindowIsCounted` (health), `MigratedInOrder` (migrations) hold. |

Bounds and why they are enough. Two handlers (and one scanner) give every pair of
operations a race; the third request of a user only joins the flight the second
joins. Capacity one makes every second user evict. Two sandboxes let a second one be
created or a deleted one be replaced; the refinement has three, so that a
replacement may itself be doubled. In the gateway `MaxAttempts` bounds deliveries
per message (2: a message and its retry), `MaxExpiries` the expirations of a key
(1), `MaxCrashes` the crashes (1); `BatchSize` is 2, two entries being what one
message, its retry and an expired key produce; the `Count` of 100 in processPending
is never reached. In the daemon `MaxTime` (2 ticks) with window and cooldown of 1
lets a breaker open, half-open and open again; threshold 1 makes one failure count,
so that the pruning of older failures is left to `BreakerOpens`, proved for every
threshold and window. Each run tries a provider once: one that opens a breaker, one
that holds its trial and one whose older attempt fails late are three, and the
scenario "trial" of `MCRuntimeDaemon` has them, on the chain and without a shutdown;
the scenario "shutdown" has two. `AdminPairs` has one pair of a user and another
user's agent. A CLI prints up to two lines of a catalogue with one line of every
kind its parser tells apart: two let a later line overwrite or follow an earlier
one. A publish races one other publish (`MaxPublishes` 2, two requests), one key
change, one restart; two installs make an update and its retry; a fifth tarball
lists no tools. Bridge: two calls, of which one lists or calls any skill, two
children or two processes of one child, or one notification. Tokens: two loops (a
stopped and its successor) and a manual refresh, three clock ticks for a validity of
3 and a window of 2, two issued pairs. Health: two callers and three samples with a
window of one tick are what it takes to have them out of order. Migrations: an older
and a newer release. The proofs cover the other values of all these constants, for
the modules that have them.

`CHECK_DEADLOCK FALSE` stands in the gateway, daemon, CLI, skills and side
services runs: clients and platform may stop, bounds are reached, a turn that is
done and a daemon that has exited do nothing more. Symmetry is used in safety
runs only.

Every property of a passing run has a mutant in `PROJECT.json`: a plausible bug
(a dropped guard, an off-by-one, a swapped order) under which the same run
finds the property violated. Mutated forms stand before the definition they
replace and are used nowhere else.

## 4. Fairness

* `OrchestratorService`: weak fairness of every request and of the scan (the Go
  scheduler), of provider transitions and of the clock. None for clients. No
  strong fairness: a waiter stays enabled once its flight has ended.
* `Gateway`: weak fairness of the consumer and of the restart (a supervisor starts a
  dead process). None for webhooks, of which the property asks nothing, for the
  platform, for API clients or for crashes. `EveryEntryEnds` is checked with one
  process id, as in a container; see section 6 for more than one.
* `RuntimeDaemon`: weak fairness of Serve, of the cancelling goroutine and of
  every handler, which includes that a CLI process ends; nothing in the code
  bounds it but its own timeout. The drain timeout may fire at any time and is
  not fair.
* `CliTurn`: weak fairness of the turn's goroutine and of the processes, none of
  the cancellation and the timer. A CLI that is stuck takes no step until it is
  killed; `TurnEnds` promises an end where the CLI ends by itself (for Gemini,
  with a stderr that fits in the pipe), or where a timer or a cancellation
  arrives and no helper survives the signal that the backend sends.
* The other modules state safety only.

## 5. Proofs

Eight modules, for all values of the constants that the modules' `ASSUME`s
admit. Each theorem that names a property of a run proves what the run shows on
its instance. The properties are hardly ever inductive: what makes them true was
read or written many steps before, by another actor. Each proof therefore rests
on a strengthening, checked by TLC before it was proved, with one lemma for each
action or group of actions; what an action does to the state it does not
own is a lemma of its own, so that the other proofs need not open the action.

**`OrchestratorServiceProofs`.** `Spec => []IInv`, for either client and any
fault set, and from it `TypeOK`, `OwnSandbox`, `OneFlightPerUser` and
`WaitersHaveLeader`: that a request is answered with its user's own
sandbox depends on what it held many steps before, and on where the call it is
in returns to. `IInv` adds `OwnersKnown` (a sandbox that exists has an owner),
`CachesOwned` (store and pool), `HeldOwned` (what a thread holds is its user's),
`ReturnsMatch` (return points by caller) and `FlightsLed` (a user's entry in
the in-flight map is a thread that leads it). Two threads that lead for one user
are then equal because the map has one value per user.

`ActiveSetBounded`, from `PoolInv`: list, map and times agree, nobody is listed
twice, and every call that has added a user and has not evicted is counted.
It uses that the set of threads is finite (`ServiceAssumption`) and that nothing
pins a user, since no process runs the warm pool. `AnsweredRunning` is
proved for the in-memory client (`~Live`) and is false for the other one: a REST
start answers with a sandbox that is still provisioning. `AnswerInv` follows
what was last seen through the return points of a call.

**`OrchestratorRefinement`.** `OneSandboxPerUser` and `ImplementsUserSandbox`, under
four hypotheses: the REST client, no transport faults, no resume endpoint, no
restart after a delete (`SpecBeforeDelete`). Without the second or third the code
does create second sandboxes (section 6), and without the last too; the in-memory
client brings destroyed ones back. `HomeInv` consists of the property itself, of
`HomesKnown` (a user's live sandbox is in the store, or in the hands of a thread
about to put it there, or the store has lost it and the label search can find no
other) and of `Decides` (where a thread decides whether to create, it knows all the
sandboxes its user has; who creates, that there are none). A step of the service is
then a step of `UserSandbox` or leaves the user's sandbox as it is, by cases on the
action.

**`GatewayProofs`.** `JobsOfOneTenant`, `NothingLost`, `OneEntryPerWindow`,
`InStreamOrder`, `RepliesBounded` and the types. A job's user and agent were read
many steps ago from a routing index that may be older than the rows; `TenantInv`
says of every copy of the pair, in an API call's check, a row, the index, a
webhook's route and a stream entry, that its agent belongs to its user or was
granted by an administrator. The in-memory rows need not agree with the index, and
the invariant does not say so. `QueueInv` adds to `NothingLost` that an entry in the
consumer's hand whose acknowledgement is due has had its job end. `KeyInv`, for
`OneEntryPerWindow`: a life of a message's idempotency key pays for one entry and is
spent by the handler that claimed it or by the entry it added. The number of lives
never falls below what is spent; that the sets counted are finite is part of the
invariant. `BatchInv`, for the order and the replies: the batch is pending, in the
consumer's name and increasing; in the first life nothing later than its first entry
has ended; an entry in hand has been replied to no more often than there were
crashes, unless its acknowledgement is next.

**`RuntimeDaemonProofs`.** `NoOrphanTrial`, `OpensAtThreshold`,
`DrainIsComplete`, `ChainInOrder` and `SessionIsolation`, for any number of
runs, providers and requests and every threshold, window, cooldown and clock
bound. `IInv` has `EntriesValid` (the
shape of breaker entries, and that a full record means not closed), `Placed`
(only a chain makes attempts) and `Counted` (the wait group is the number of
live handlers, lines that wait are of requests without one, and who has ended
has replied). The lemma `LoopEffect` states what one step of
a run does to breaker and steps, so that the daemon's proof never opens the agent
loop again. `Counted` carries the drain: a count of zero means that no handler
is left between its line and its reply. `RunsInv` says what a run has tried: the
entries of the chain up to its place, each attempt with the provider that stands
there; `SessionsOwn` says whose the cached sessions are. That the chain puts the
fallback-only entries last is a lemma about `OrderedForDispatch`: the place of an
entry is the number of entries ahead of it, two entries never share a place, and as
many places as entries are therefore all taken. A configuration may name one
provider twice, once as a fallback, and nothing refuses it; `ChainInOrder` says
"fallback-only" of a provider of which every entry says so.

**`McpBridgeProofs`.** `LockHasHolder`, `StopReaps` and `ReplyIsOwn`. `BridgeInv`
says that a call at work has a child (`Working`), that it holds the lock while it
sends and awaits (`Holding`), that until `stopAll` every child is the one its slug
has in the pool (`Pooled`), and that afterwards a live process of a child is late or
its child still to be stopped (`Reaped`). The lemmas `HoldKeeps`, `ReleaseKeeps` and
`FreeKeeps` are the three ways a step may treat a lock; each action is then one of
them.

**`SkillRegistryProofs`.** `ReleaseHasBlob`, `ReleaseIsGenuine`, `ReleasesKept`,
`TornBlobsMend` and the installer's `InstalledIsSigned`. A row is written long after
the checks that justify it; the invariant carries them in what a handler holds
(`Holds`: a submission without a publish error under the key that was read with the
publisher's row and, past the blob store, a blob). Writers of one tarball disturb
each other only in the file they have open, which is `Alone`; `Catalogue` says that
a package without an owner has no releases, so the first publisher's releases are
all its own. `TornFiles` gives the shared `.part` file the same as `TornBlobsMend`
gives the blob, a writer for what is torn: a rename carries the writers over with
the file (`MoveCarries`), a failed write leaves a torn file "cut" only when it was
the last (`WriteMends`). `InstallInv` says what an installer holds at each step: the
digest of a release made for the slug and version it asked for; past the checks, a
body that is the whole of that tarball; then a directory with the files of the
members extracted so far and no receipt.

**`SideServicesProofs`**, five components.

* `StopAnswersPending`, from `NobodyForgotten`: an RPC with an empty channel is
  in the pending map, in the map Stop swapped out, or came after the swap.
* `TokenIsLatest` and `DisabledOnlyAfterWindow`, from `OneReply` (a pair that is
  issued and neither stored nor lost is in exactly one reply, whose token nobody
  else holds any more; nobody carries a token newer than the stored one unless that
  was put back) and `FailedSince`.
* `MigratedInOrder`, from `PassedInLedger`: what a runner has passed is in the
  ledger, which never loses a version, so what it commits next extends a prefix.
* `WindowIsCounted`, an action property, from `HealthInv`: no clock that a
  goroutine holds is ahead of the time, a sample was recorded no earlier than
  it says, later samples were recorded later, and what eviction has dropped is
  older than the window. Eviction cuts a prefix although samples are not in the
  order of their clocks: it stops at the first young one, so it keeps
  some that are old (hence "recorded before the window" and not "read before").
* `PluginDirIsSelection`, from `PluginInv`: while a turn copies, its directory
  holds exactly what it has copied, whatever a killed delivery left there, unless
  another turn of the run wrote to it.
* `LowerTiersYield`, from `YieldInv` (once resolved, a turn's selection is what
  `Selected` takes of what it has loaded, and every loaded skill has a tier of a
  root). The skills of the higher tiers are a list without the others; it is an
  increasing enumeration (`ThoseInOrder`, by counting), so the first of its name
  in a tier is the same in both lists (`GroupHigher`), and a candidate of a lower
  tier neither beats nor keeps out a higher one (`PickHigher`). `SkillAssumption`
  says that the roots are lists and have one of the five tiers.

**`CliTurnProofs`.** The four invariants of `CliTurn`, for any set of turns, outputs
and children. `NothingLeftBehind` names the one file that may stay (`PromptLeft`, a
fresh Codex turn with a system prompt whose MCP block is then refused, section 6).
`TurnInv` says that from the collection on nobody is left who could print, and that
a leader that has ended by itself has printed all its lines: an answer is therefore
the parse of all of them, whatever interleaved. What a parse says of each line is in
the lemmas before: `FirstText` and `LastText` are blank only if all their texts are
(`FirstTextFinds`, `LastTextFinds`), an error that a line reports makes the parse's
error (`NoErrorUnseen`), and its session is the first, for Codex, or the last that a
line named (`SessionIsNamed`). Nothing is proved about what `Dump` and `CollectText`
make of a value.

Every invariant and every step property that a passing run checks is stated by a
theorem. Model-checked only is liveness (`RequestsAnswered`, `TrackedIdleIsHibernated`,
`EveryEntryEnds`, `TurnEnds`): fairness and `ENABLED` are out of the provers' reach.

## 6. Divergences met

The four violated runs are the findings of `PROJECT.json`. Further ones seen
while modelling and not kept as runs:

Orchestrator and gateway:

* `POST .../resume` bypasses pool and single flight (`api.go:175`): it can create
  a second sandbox next to a provision, and what it resumes is not in the
  active set. After a restart running sandboxes are in no active set either,
  though `docs/features/F15-sandbox-pool-autoscale.md:83` asks for a replay.
* `GetOrResume` through the REST client answers with a sandbox that is still
  provisioning, or that the scan has just stopped. With the fake client a stop
  brings a destroyed sandbox back. The REST label search takes the
  first match, which after a restart may be a sandbox under destruction although
  the user has since been given another; GetOrResume then creates a second live
  one. `SpecBeforeDelete` leaves this case out.
* `DaemonHandle`: a blank line ends the reader for good; an RPC that registers
  after Stop's swap waits for its timer; a second daemon in a sandbox takes over
  the spawner's entry, so stopping the first kills the second (against the
  comment at `exec.go:282`); a daemon's death does not fail the pending RPCs.
* `POST /admin/channels` registers any user with any agent, of whoever it is
  (`routes/admin.go:62-95`): such a channel's messages run another tenant's agent.
  `JobsOfOneTenant` says that nothing else brings this about.
* Entries pending under another process id are never read again
  (`consumer.go:68`), against the comment at `consumer.go:122-123`.

Runtime and CLIs:

* The half-open trial is not exclusive: IsOpen and AttemptStarted are two calls,
  and two runs may pass the first (`fallback.go:190-191` says otherwise).
* After a fallback has answered, the bootstrap files are injected again: the
  session is stored for the provider that answered, the decision looks at the
  primary. So does a fresh daemon per job, whose sessions start empty (F05 AC4).
* `BuildDaemon` wires neither a provider chain nor skill roots. Shutdown cancels
  in-flight runs, F05 AC6 lets them drain. F16 wants `auth_expired` to open a
  breaker at once; it counts as one failure. A failed session lookup counts as a
  failure of the provider.
* A signal before Serve has set the server uses up `shutdownOnce`
  (`daemon.go:81-87`). Serve blocked in Scan does not see a shutdown
  (`jsonrpc.go:142` against the comment at `daemon.go:71-72`).
* Codex leaves its system prompt's file when the TOML block holds a null
  (`codex.go:179-189`), against `base.go:163-165`, which wants tempfiles cleaned up;
  `NothingLeftBehind` makes this one exception. Claude's `writeMCPConfig` leaves a
  file it could not write. Gemini with an empty stdout and exit code 0 succeeds
  (`gemini.go:418-421`), and with more stderr than the pipe holds it hangs until its
  timeout. A helper that outlives a cancelled Gemini leader keeps the turn waiting
  for its pipes (`gemini.go:807`), where the base backend kills the group
  (`base.go:163-164`); `terminateProcess` returns as soon as the leader is dead.
* Claude gets its plugin directory only when a bridge runs
  (`agent_loop.go:635-648`); `runWithFallback` resolves no skills. A failed
  `GeneratePluginDir` leaves part of the tree. Turns with one run id share a
  directory. A skill that is updated between load and copy is copied in its new
  version; a slug requested twice is selected twice.

Bridge, registry, the others:

* Two appends to the audit trail at once lose one (`bridge.go:374`; `bridge.go:7`
  promises an entry per call). A respawn after a failed start orphans the process
  (`skillpool.go:50`, `:97`); a request that outlives the grace period spawns one
  after Stop. Stop needs a child's lock (`skillpool.go:225`), which a start holds
  for two RPCs, each with a timeout of its own, and which any call holds during
  `stdin.Write` (`skillpool.go:167`), which has none: a child that stops reading
  holds Stop for good, where `bridge.go:14` says 1 s. After a timeout a child can
  stay one reply behind, so that later calls fail; a notification without an id is
  accepted as a reply.
* Two publishes of one tarball share the `.part` file, and one can rename what
  the other has truncated (`blob.go:138-142`; `blob.go:125` says "atomically"). The
  blob is torn until the other has written, and stays so when that write fails or
  the server restarts, since a later Put takes the file for stored.
  A manifest without `allowed_tools` has nil tags, which Postgres's column refuses:
  the publish fails there (`metadata.go:568-584`) and succeeds in memory.
  With Postgres a version published twice is answered 400 invalid_tarball
  (`publish.go:125-134`). Postgres rows with memory blobs answer 410 after a
  restart. A publisher update without a token keeps the old one in Postgres and
  drops it in memory. The two searches differ: Postgres takes `%`, `_` and the
  backslash of a query for LIKE's (`metadata.go:428-438`), memory compares literally
  (`metadata.go:357`). Releases are
  ordered by the time they began, not by version.
* A forced update loses the installed skill when the extraction fails
  (`skills.go:367-377`); two installers at once can mix versions; an interrupted
  RemoveAll can leave a receipt over missing files, and one that fails is ignored
  (`skills.go:367`), so that a receipt can stand over files of two versions.
* Zalo: an `expires_in` below the lead makes the loop refresh without a wait
  (`token_refresher.go:182-186`); a lost reply leaves a dead token; a response
  without a refresh token reads the stored one (`:178`) and writes it back (`:189`)
  in two critical sections, and a refresh that stores a newer one in between is
  undone.
  Nothing in `cmd/` starts the refresher (`docs/features/F08-channel-zalo.md:14`).
* Migrations take no lock: a slower runner may execute an older file again after
  newer ones, which the policy of idempotent SQL allows, and concurrent
  `CREATE ... IF NOT EXISTS` may fail.

## 7. Not modelled

* Health probe and warm pool: no deployed process runs them against real
  sandboxes (`cmd/orchestrator` wires no warm pool, and only the fake client
  implements the probe's ping). Pins go with them. Presence debounce, volumes and
  one-shot exec keep no sandbox state.
* Administration, authentication, agent configuration, listings; the Telegram and
  Zalo parsers and senders: single calls and computations that nothing
  interleaves with. Repositories of runs and sessions: single statements that
  no process of `cmd/` calls. The demo pipeline is a script over the other parts.
* A failed creation of the consumer group at start-up; health requests,
  notifications and malformed lines of the JSON-RPC server; read handlers of the
  registry beyond download, the searches among them, which change nothing and rank by
  LIKE patterns and text; the cosign command itself; telemetry's
  set-up and spans.
* Unsynchronised access to the breaker's map: the model makes each call a step.

Modelled from their use, as external: the provider's service, Redis, Postgres,
the CLIs and the skills' processes, Zalo.

## 8. Where to extend it

1. `DaemonHandle` as the client of `RuntimeDaemon` instead of an abstract
   process; `SkillTurn` and `McpBridge` inside `AgentLoop`.
2. The gateway with two process ids and two channels; the creation of the group.
3. `HealthProbe` and `WarmPool` as threads over `SandboxPool`, once a process
   runs them.
