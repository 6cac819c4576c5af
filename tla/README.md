# A TLA+ model of token-station

token-station is a local proxy for language-model APIs. A command-line client
(`apps/cli`) serves requests of coding Agents on a loopback port and sends each
one to one of several configured upstreams; a desktop program
(`apps/desktop/src-tauri`) edits the configuration, runs the same proxy inside
itself and connects Agents to it. Routing, health and quota decisions live in
`crates/router-core`, formats in WASM adapters under `plugins/`.

This directory holds the specification of the parts whose correctness depends on
the order of steps: TLA+ modules translated from the source, TLC configurations
that check them on small instances, and TLAPS proofs of what matters most.

## 1. Inventory

| Component | State | Operations | Talks to |
|---|---|---|---|
| request pipeline (`gateway.rs`, `gateway/attempt_machine.rs`, `gateway/provider_call.rs`, `gateway/anthropic_native.rs`, `gateway/responses_native.rs`) | per request: decision, remaining targets, attempt budget, last error, parked native body, output flag, record | admit, route, dispatch, one attempt, settle | admission, health, quota, cancellation, upstreams, the client through `emit` |
| admission (`admission.rs`) | three levels of `AtomicU32` counters | `enter_global`, `enter_agent`, `enter_provider`, `Permit::drop` | every request thread |
| health (`router-core/health.rs`) | per target: a failure count or the end of an ejection | `observe_success`, `observe_failure`, `health_of` | pipeline (writes), routing (reads) |
| routing kernel (`router-core/route.rs`, `quota.rs`, `decision.rs`) | none (pure) | `decide`, `rank`, `extend_with_backups`, quota-first | reads snapshots of health and quota |
| cancellation (`cancel.rs`, `request_context.rs`, `server.rs`) | one reason per request and one per server, an absolute deadline | disconnect, drain, deadline, `send_reply` | pipeline polls it between reads |
| quota (`quota_ledger.rs`, `quota_lease.rs`, `quota_tracker.rs`) | sliding windows, leases, cooldowns, provider readings, SQLite shared by gateways | `record_settled`, `grant_for`, `release`, `note_rate_limited`, `note_authoritative` | pipeline, routing |
| configuration state (`config_state.rs`, `config_draft.rs`, the `*_commands.rs`) | draft, saved content, revisions; `token-station.json`, its sidecar, `secrets.json` | edits, saves, rollbacks, startup | supervisor, CLI (same files) |
| serve supervisor (`serve_supervisor.rs`, `serve_lifecycle.rs`) | `ServerLifecycle`, one start task per generation, drain tasks, sockets | start, apply, stop, `ensure_serve_running`, capability refresh | configuration state, running servers |
| Agent integration (`agent_integration/`: `plan.rs`, `transaction.rs`, `snapshot.rs`, `ownership.rs`, `commands.rs`) | Agents' own configuration files, prepared plans, encrypted snapshots, ownership records | plan, connect, disconnect, restore, refresh, recover, force-forget, prune | foreign files, the user who edits them too |
| Agent discovery and connectors (`discovery.rs`, `config_codec.rs`, `registry.rs`, ...) | none | probe files, parse and render formats | Agent integration |
| the life of a provider (`provider_commands.rs`, `provider_tombstones.rs`, `free_provider_catalog.rs`) | the provider in the draft and on disk, the recycle bin, the purge journal, its key | add, extend, edit, migrate a legacy channel, remove, restore, purge, validate a free one | configuration state, the secrets store, the CLI |
| discovery and probes (`provider_discovery.rs`, `vision_probe.rs`, `model_catalog.rs`) | one task at a time, epochs of upstreams, the cached catalog, evidence in the draft | ask over the network, look at the target again, keep or drop | the life of a provider |
| prices (`price_sync.rs`, `pricing_catalog.rs`) | the price table in the configuration | fetch, merge, save | configuration state |
| metrics, stats, body log | SQLite, rotated files | insert, aggregate | pipeline (after the answer) |
| backup (`backup.rs`) | live files, `.pre-restore` copies, a backup directory | export, import, backup, restore | configuration and metrics files |
| Cursor connection (`cursor_tunnel.rs`) | a bridge and a `cloudflared` process, `active.json`, `settings-backup.json`, Cursor's database | connect, restore, status | Cursor, its user, a public address |
| upgrade, release, shell, frontend | files, windows | one-shot commands | - |

What is hard here, and where it is treated:

* **Concurrency.** Request threads share counters, health and cooldowns
  (`Admission`, `AttemptMachine`); start, drain and command threads share one
  lifecycle whose mutex is let go around every slow step (`ServeSupervisor`,
  `EnsureRunning`).
* **Cancellation.** A client, the server and the clock may each end a request
  between any two steps, and the code looks at it at some points only.
* **Failure in the middle.** Two or three files make one save; each write may
  fail before or after it took effect, and the process may die between them
  (`ConfigState`, `ProviderLifecycle`, `AgentTransaction`, `BackupRestore`,
  `CursorConnection`).
* **What was read is old when it is used.** A plan is made for one revision of
  the user's files and applied later (`AgentTransaction`); a discovery answers
  after its provider was replaced (`ProviderLifecycle`); a route is made from
  quota figures that other requests change (`QuotaAccount`).
* **Retry and output.** A request may be tried again elsewhere only before its
  caller has seen anything; one attempt may be judged by two functions.
* **Late completion.** Start tasks finish after the user changed his mind.

`PROJECT.json` lists every component and, under `hazards`, each of these at the
line where it bites, with the property that would notice.

What makes each component correct:

* pipeline: one answer per request; no second attempt after output; one health
  verdict per attempt; no target left untried without a reason; every request
  settles; a cancellation is nobody's fault and is recorded as what it was.
* admission: the counter is the number of permits; a refusal means the gate was
  full; every exit path returns what it took.
* configuration: a revision names one content; unsaved work never looks saved; a
  committed save survives a crash; nobody's key is rolled back over.
* supervisor: a stop sticks; one server accepts; no server and no socket is left
  without an owner; starts, stops and callers that wait come to an end.
* quota: a settlement is counted once in the bucket it belongs to whoever else
  settles, the clock cannot free what was consumed, and a Gateway that knows of a
  gap spends no quota.
* quota accounts: load that may still be under way is visible, a refusal outlives
  every later report, the order given to a request has the documented
  priorities, and a reading is replaced by a newer one only (but see 5).
* Agent transactions: what the user wrote outside our paths is never lost, a
  value of his is only overwritten when a snapshot holds it, a disconnect gives
  back what was there before the connection, and what is reported is on disk.
* a provider: a purge ends with the key gone and takes the key of nobody else; a
  key that is about to be committed is not queued for removal (but see 5);
  what was learned of one account is never shown of another; a removed provider
  comes back by being restored (but see 5).
* the Cursor connection: no public address outlives its purpose, and as long as
  Cursor's settings are ours the user's own can be given back.
* backup: both files are restored or neither is, and a restore can be undone.

## 2. Modules

| Module | Models | Role |
|---|---|---|
| `HealthTracker` | `health.rs` | failure counting, used by the pipeline |
| `AttemptMachine` | `chat_scoped_inner` to `settle`, with cancellation | the core |
| `MCAttempt` | - | instances of the core for TLC |
| `AttemptMachineProofs` | - | theorems about the core |
| `PermitGate` | what `Admission` promises | abstract specification |
| `Admission` | `try_take`, `Permit::drop` | detailed specification |
| `ConfigState`, `MCConfig`, `ConfigProofs` | revisions, saves and keys | with instances and theorems |
| `ProviderLifecycle`, `ProviderProofs` | one provider name, its key, its bin entry, what is learned of it | with its theorems |
| `ServeSupervisor` | the lifecycle and its tasks | |
| `EnsureRunning` | `ensure_serve_running` | extends the supervisor |
| `SupervisorProofs` | - | theorems about the supervisor, alone and with that caller |
| `AgentTransaction`, `AgentProofs` | one Agent's files, plans, snapshots and ownership record | with its theorems |
| `BackupRestore` | `token-station restore` | |
| `CursorConnection` | connect and restore of Cursor, threads that overlap | |
| `ProcedureProofs` | - | theorems about the restore and the Cursor connection |
| `QuotaWindow` | `SlidingWindow` | operators on a window, and what it stands for |
| `QuotaStore` | one account's rows in `quota.sqlite`, several Gateways | extends the window |
| `QuotaProofs` | - | lemmas about the window, theorems about the store and about the admission gate with its refinement |
| `QuotaAccount`, `MCAccount` | `quota_tracker.rs` and `quota_lease.rs` between requests, the quota-first order | extends the window, with instances |
| `AccountProofs` | - | theorems about the accounts and about their order |
| `MCMetering` | - | `Admission`, `QuotaStore` or `QuotaAccount` (with `MCAccount`) |
| `MCDesktop` | - | `ConfigState` or `ProviderLifecycle` |
| `MCTasks` | - | `AgentTransaction`, `CursorConnection` or `BackupRestore` |

The last three are sums: no part reads or writes the state of another, so a
behaviour is one of one part, which `subject` names, while the others stay in
their initial state. What such a run checks of a part is exactly what a run of
its own would check; the sum only shares the start of the checker.
The parts that do interact are composed properly:
`AttemptMachine` uses `HealthTracker` and the atomic gate that `Admission`
implements, `QuotaStore` and `QuotaAccount` use `QuotaWindow`, `EnsureRunning`
runs beside all of `ServeSupervisor`.

### AttemptMachine

A request is a worker thread; `pc` is the point it has reached:

    arrive -> agent -> route -> loop -> begin -> send -> errbody | body
           -> render -> stream -> result -> wait -> loop ... -> settle -> done

* `arrive`, `agent`: the global and the Agent permit (`EnterGlobal`,
  `RefuseAgent`, ...). `route`: `Route` reads health and cooldowns once and fixes
  the `order`; which targets are capable, are backups or are known to see images
  is chosen freely, the order among them is `rank` and `extend_with_backups`, or
  any order of the quota-first route.
* `loop`, `begin`: `dispatch` - the cancellation check, the provider permit (a
  full provider is skipped at no cost), the attempt budget.
* `send` .. `stream`: one attempt. `kind` tells the Canonical payload, which is
  translated, from a native Anthropic body, which is relayed verbatim: they look
  at the cancellation at different points, and a native 5xx or 429 body is
  `parked` to be relayed if nothing better comes.
* `result`, `wait`: `dispatch` again - a drain or deadline returns before any
  verdict; otherwise the failure is observed, and the loop ends, goes on, or
  waits out a `Retry-After` with the permit still in hand.
* `settle`: the terminal verdict of `settle`, or an error rendered by
  `chat_scoped`.

Error codes are kept to what the code distinguishes: `unwell` (counts for
ejection, retriable), `rate` and `payment` (cool the account), `capacity`,
`image` (another channel may do it), `timeout_final` (the South stream deadline,
which forbids fallback), `lifecycle` (a drain or deadline), `refused`,
`internal`. `blame` is a history variable: who caused the attempt's error.
`begins`, `early` and `obs` count what was handed to `emit` and to the tracker.

### HealthTracker

The instant an ejection ends becomes two states, `cooling` and `probation`, with
a step of the clock between them; everything the code compares is the side of
that instant it is on.

### Admission and PermitGate

`Admission` has one action per atomic access: the load, the exchange, which may
fail spuriously, and the decrement. `PermitGate` grants or refuses in one step.
The refinement maps a caller that has seen a full counter to one already
refused: that is the instant at which the refusal is justified.

### ConfigState

Commands run one at a time under the app mutex, so a command is a sequence of
steps (`edited`, `prepared`, `keyed`, `renamed`, `undo`) between which only the
crash, an edit of the file by another program and a key rotation by the CLI may
come. Every durable write ends `ok`, `failed` (nothing replaced) or `late`
(replaced, then an error). A fingerprint is the content itself. `undo` is what
the command at hand does with its state when the save fails: keep it
(`save_config`), restore a clone (most commands), or observe the old draft
(`save_synced_table`). `savedAs`, `survivor`, `lastKey`, `torn` are history.

### ServeSupervisor and EnsureRunning

A generation names a start task, the candidate it prepares and the server it
publishes. Only `Stage`, `Handoff` and the `Commit...` steps of a task take the
mutex; the bind and the reservation of the old address do not. `holder` is the
socket bound to each address: a published server, a candidate, a reserved
listener or another program. `EnsureRunning` adds one caller that looks under
the mutex, starts or waits, and probes without it.

### ProviderLifecycle

One name, of which `drafted` is what the draft says, `onDisk` what
`token-station.json` says, `tomb` the entry in the recycle bin and `purging`
whether the journal of a purge names it. A command holds the app mutex
throughout and is one action, with every state the failures of its writes can
leave; that the process ends between two writes leaves what a failure of the
next write and `Restart` leave. Network operations are two or three actions, with
everything else in between: `ValidationStarts`/`ValidationEnds` (the free
preset), `DiscoveryStarts`/`CandidateDiscovery`/`DiscoveryEnds`, and
`ProbeStarts`/`ProbeReads`/`ProbeEnds`, where the probe reads its key a second
time. `task.fresh` stands for the epoch of the upstream: `Draft` clears it when
the definition changes. `RecoverPurge` is what each command runs first.

The first enterprise channel under an id of ours (`modern`) replaces a legacy one:
`add_provider` for the other name takes this name out of the draft and into
`pending_provider_key_removals` (`Migrate`, `removing`). Every save that commits
then deletes the stored key of the name (`Saved`); a removal that fails stays
queued for the next save, and `Restart` forgets it. Adding the name with a key
(`AddKey`), extending it, the free preset and a purge take it off the queue,
`EditProvider` does not. A behaviour may start with a legacy channel in the file.

`catalog` and `drafted.seen` are the account (address and key) the cached
catalog and the evidence were obtained from, which the code does not store but
must have right. `rekeyed` and `purged` are history; the first marks the cases
where the code knowingly keeps what it learned over a change of key (section 6).

### AgentTransaction

A document is what is at the owned paths (`own`) and the rest of the text
(`rest`); a revision hash is the document. `plan` holds the prepared plans: the
files as they were seen, as they are to be, and the ownership they are for.
`Begin` takes one under `operation_lock`; then one action per durable step:
`TakeSnapshots`, `WriteFile` for each file, `VerifyFiles`, `CommitOwnership`, and
`Release`, or `UndoFile` for each file, newest first, and `UnpinFailed`. Each
write ends `ok`, `failed` or `late`, as in `ConfigState`. `force_forget` is a
second procedure without that lock (`ForgetLooks`, `ForgetStrips`,
`ForgetRemoves`, `ForgetRollsBack`, `ForgetUnpins`), and the user, retention and
the end of the process come at any point. `mine`, `touched` and `lost` are
history: which files are as the transaction wrote them, which others wrote since,
and that retention took a snapshot of the transaction under way. Retention goes by
the wall clock, so after the clock was set back it can take the snapshot that was
just made, when no pin protects it; `UserValueKept` is not claimed of that case,
and the others hold in it too.

### BackupRestore

`restore` copies each live file, moves it aside and renames the staged one into
place; `pc` is the next of these operations and its file. Each may fail, a
failed copy leaves any copy, and the process may end between any two. `before`
and `wanted` are history, and `unmended` says that putting a file back failed
too. A second restore overwrites the copies of the first. `Undo` is the user who
takes the copies back.

### CursorConnection

A thread runs one command, `connect` or `restore`, and `click` says how far it is
and what it has in hand: the tunnel it opened and the settings it will write back.
No lock is held over a command, so several run at once; each looks at the record
and at whether Cursor runs where the code does, and every step ends well or badly
as its error path says. What is in Cursor's database is `own`, the version of the
user's choices, and `ours`, the tunnel the endpoint names. Cursor reads it when it
is opened and writes all of it when it pleases. `disturbed` is history: two
commands overlapped, or Cursor was opened beside one (section 6).

### QuotaAccount

A worker is a request thread: `RouteByQuota` ranks the usable accounts once,
`GrantLease` takes a lease on the first for at least the rest of the deadline,
`HeadersArrive` records what the answer says of the quota, or that it says
nothing, `SettleAttempt` counts the attempt, `CoolAccount` notes a refusal,
`DropLease` gives the lease back and `RememberAccount` keeps the conversation's
account. Each is one section under the quota mutex, so the others run in
between. `PollAnswers` records a balance dated when the pass began; `Clock`
moves the wall clock, backwards too. `Score`, `Preferred` and `Ranked` are
`quota_rank`, `QuotaRank::cmp` and `route_quota_first` with the default weights.
`latest` (the latest instant there ever was) and `refusals` are history.

### QuotaWindow and QuotaStore

`QuotaWindow` has one operator per function of `SlidingWindow`: `Advanced`,
`Recorded`, `EffectiveUsed`, `RemainingPermille`. `Estimate` is the reference:
the documented two-bucket estimate computed from all that was ever consumed.

In `QuotaStore` a Gateway is `opening` (marker looked at, nothing prepared),
`up`, `writing` (in its transaction, row read) or `failing` (transaction rolled
back, `persistence_error` still to come); the quota mutex of a Gateway makes the
rest of its work atomic. A write transaction holds SQLite's lock from BEGIN
IMMEDIATE on; any statement may fail; a Gateway may end anywhere; another
program may damage a row. The instant of a settlement is any instant, since the
wall clock may be corrected both ways. `total` is the history of what was
committed, `gap` says a settlement of this Gateway is not in the store.

## 3. Runs

| Run | Question | Bounds | Result |
|---|---|---|---|
| `attempt` | one request, everything that can happen to it | 1 request, 3 targets on 2 upstreams, 2 attempts, ejection after 2 failures, all payloads, all causes | 66 thousand states |
| `contention` | permits among requests | 3 requests of 2 Agents, limits 2/1/1, 2 upstreams, no cancellation | 1.6 million states |
| `metering` | the lock-free counter, and that it is the atomic gate; settlements of several Gateways, and what the router is told; quota accounts among requests | 4 callers, limits 0 to 3; 2 Gateways, 2 plans, 3 settlements of 3 units, 3 buckets of 2 instants, saturation at 5, 1 row; 2 workers, 1 conversation, 2 accounts, 1 of them polled, 2 leases, 2 clock steps or readings | 0.88 million states |
| `desktop` | revisions and keys; the life of a provider | 3 contents, 2 keys, 3 revisions, all write outcomes; 2 addresses, 2 keys, a new or a legacy name, 5 commands, 3 failures, restarts or rotations | 1.5 million states, up to the names of the keys |
| `tasks` | Agent transactions; restores; the Cursor connection | 2 files, 3 operations, 2 events (a failure, an edit, a crash, a prune or a force-forget each); 2 restores of 2 versions; 2 threads, 3 commands, 1 change in Cursor | 2.1 million states |
| `ensure_running` | the lifecycle of the proxy, a caller that waits for it, and liveness | 2 addresses, 2 starts, one caller | 0.26 million states |
| `cancel_charged`, `drain_recorded_499`, `supervisor_restore`, `provider_bin`, `legacy_key`, `balance_lost` | statements of the repository that the code does not keep | as above or smaller | violated, see 5 |

Why these bounds are enough to be interesting.

* `attempt`: two attempts and three targets give every way an attempt can follow
  another, a skipped target in between, and a pool that outlives the budget; two
  targets share an upstream, so a skip at the provider ceiling and a cooldown hit
  another target.
* `contention`: two of the three requests share an Agent and all three the two
  global permits, so each ceiling is reached while another is not, and with one
  permit per upstream requests meet on a target; the other half of the permit
  story, every cause of cancellation at every point, is `PermitsBalanced` in
  `attempt`. The ejection threshold is 1, so one request changes the order the
  next one gets.
* `metering`: four callers and a limit of three are the first instance where a
  loser of a race may still find room. Three buckets are the fewest with a gap of
  more than one window and with an event that has aged out, an odd amount in a
  period of two makes the decay round, and two settlements saturate the count. With one
  row for two plans, the second plan finds the table full.
  Of the quota accounts, two workers are enough to hold two leases of one
  account, to be refused with different cooldowns and to settle in any order; the
  default lease is shorter than a deadline and one cooldown above the ceiling; the
  clock steps are one that ends a lease, a cooldown and a bucket, and a correction
  backwards. The two accounts have equal windows; the first has no rate, so that a
  lease costs it less room than the second; the answers of the first may say that
  it is spent and until when, the second is polled. Pressure, room and the reset
  each decide an order.
* `desktop`: one content is the template and another what
  `prepare_desktop_draft` makes of a third; three revisions allow a save, a failed
  save and an edit after it. Five commands allow add, save, remove, purge and add
  again with a discovery or a probe between, or migrate, add by reference, edit and
  save; three troubles are a purge that fails, fails again and is cut off by a
  restart.
* `tasks`: one companion makes a second file that can fail after the first was
  written; three operations are a connection, a refresh or restore, and a
  disconnect; two events are a failure and a user who edits during the recovery,
  or two failures. The second of two restores
  overwrites the copies of the first. Two threads are the fewest that overlap, and
  three commands allow a connect that fails, one that finds its record, and a
  restore.

* `ensure_running`: two starts are an apply on a running server, on the same or
  another address, with a stop, a refresh, a crash and the caller racing with it.
  More starts add nothing the theorems of section 4 do not cover.

`CHECK_DEADLOCK FALSE` is set where the system really stops: a request that is
done stays done, once the failure marker exists no Gateway opens before somebody
repairs the store, and where a bound on commands, starts, operations, leases or
restores has been used up and everything under way has ended. `ensure_running`
checks deadlock: nobody in the supervisor waits for ever on anybody.

The types of every component are theorems; `TypeOK` of the pipeline is also
checked. The runs' properties are kept for what could be wrong.

### Fairness

* `AttemptMachine`: weak fairness of each worker's steps. A worker is a thread
  of the blocking pool, and every upstream call and every wait has a timeout. No
  fairness of clients, drains, the deadline or the clock: a request settles
  without them.
* `ServeSupervisor`: weak fairness of each start task and each drain task; the
  bind retries for about a second and the drain waits five.
* `EnsureRunning`: the same, weak fairness of the caller's turns, and strong
  fairness of its timeout, which the loop looks at once per turn.
* The other modules: none, they have safety properties only.

## 4. Proofs

All theorems hold for every value of the constants allowed by the named
assumptions: any finite set of requests, targets and callers, any contents, keys,
addresses and files, any number of operations, failures and restarts. Every safety
property and every action property of the passing runs is a theorem. The
inductive invariants were checked with TLC on the instances of the runs first.

**The pipeline** (`AttemptMachineProofs`). `IInv` is `TypeOK`, `PermitsBalanced`
and, for every request, `Shown` (how many replies were handed out at each point,
and that nothing was where another attempt may start) and `Judged` (how many
verdicts its attempt has had). The properties alone are not inductive: that a
request at `loop` has shown nothing follows only from what the result of its last
attempt allowed. `WorkTypes`, `WorkPermits` and `WorkKeeps` have one step per
action; the permits rest on what a single move of one worker does to the
cardinality of the three sets of holders (`GlobalMove`, `AgentsMove`,
`ProvidersMove`). For `NobodyGivesUpEarly`, `GivenUp` follows a failure from the
attempt to its settlement: an error with output already out came with a headless
chunk, and dispatch ends with a failure worth another target only when it has
none, no attempt or no time left.

**The admission gate** (`QuotaProofs`). `GateInv` is `AdmissionTypeOK` and
`CounterExact`: the set of holders gains or loses one caller exactly when the
counter moves (`HoldersAdd`, `HoldersRemove`). For `TryTakeIsAtomic`, `NextGate`
maps each step under the invariant to a step of `PermitGate` or a stutter: a load
or a failed exchange that sees a full counter maps to the refusal, and the exact
counter says the gate is full then.

**The quota store** (`QuotaProofs`). Lemmas about the window, which the accounts
share, say that what is recorded, decayed and estimated stays a window and a count.
`RecordIsExact` is the heart: `CountsExact` says both counts are the totals of
their buckets and that nothing newer was consumed, and a record, however late,
keeps it. `UsedFromExactCounts` derives that `effective_used` is the documented
estimate, `UsedFalls` that it only falls as the clock advances; both rest on lemmas
about quotients by an arbitrary period. `IInv` adds `WriterIsCurrent` (who is
between reading a row and writing it holds the lock, and the row is unchanged),
without which a commit could not be known to add one settlement to what everybody
sees, `AbsentIsEmpty`, and `GapIsKnown` (a gap is in `persistence_failed` or in
the marker).

**The quota accounts** (`AccountProofs`). `CooldownsLast` (the stored cooldown
reaches as far as every refusal under way) makes `RefusalRemembered` inductive.
`LeaseOwned` (a lease in the table belongs to one worker that is calling) and
`LeaseHeld` (such a worker's lease is in the table unless its time is over) are an
injection between leases and calls, from which `LoadIsVisible` follows by
cardinality. For the order, `HeadroomInRange` bounds the integer quotients and
`PreferredComesFirst` compares the weights of `quota_rank`. That theorem assumes at
most 200 accounts in insertion order: one permille of headroom weighs 200, so with
more accounts a later one with a little more room may come after an earlier one
with less. The code sets no such limit.

**The supervisor** (`SupervisorProofs`). `SupervisorInv` says which generations may have
a server or a drain task yet (`GenerationsInOrder`), that the owned server was published
and nobody drains it, that a stop waits for exactly one drain task and that task
completes this stop and no later one (`StopsBelong`), whose every socket is
(`SocketsHeld`), and that a quiet server is Running only with its apply error noted
(`QuietNoted`). `OneAcceptingServer` follows: a server that accepts is owned, or has the
one stop. `TransitionAwaited` is proved with it, so a start or stop can only hang if a
scheduled task does not run, which is what fairness excludes in `TransitionsEnd`.
`EnsureIsSupervisor` shows that the composition with the caller implements the
supervisor, so the results carry over; `OkIsTrue` then rests on `QuietNoted`.

**Configuration state** (`ConfigProofs`). The difficulty is that revisions *are*
given out twice (section 6), and that memory, the clone for a rollback, the
sidecar and the file each name some. `DraftInv` says that whatever state may be
live next covers every revision that was ever saved (`LedgerSound`), that two
contents under one revision are nowhere in sight (`StateSound`, pairwise through
`Agree`), that from `prepare_save` to `finish_save` the sidecar announces the save
(`Journalled`) and that the sidecar can always recover the save that is in the
file (`Recoverable`, `Mirror`). `SavesSurvive` reads the last one off at startup.
The keys have an invariant of their own (`KeysKept`): while a new key is in the
store ahead of its save, the one to put back is at hand.

**The life of a provider** (`ProviderProofs`). `LifeInv`: a task that still counts
as fresh was asked of the provider as it is now (`ProbeOfDraft`,
`DiscoveryOfDraft`), a key that is not saved belongs to a provider nothing was
learned of yet (`UnsavedUnseen`), what a removed provider will come back with is
still true of it (`BinLearned`), and a purged name is nowhere. Each network answer
and each of the commands is one lemma. `NewKeyNotQueued`, a key that is not
saved is not of a name queued for removal, is inductive with `UnsavedDrafted` (it is
of a name in the draft): only `Migrate` queues a removal and it drops such a key.
`KeysAreKeptWhileUsable` rests on it: `SaveKeepsKey` says that a save deletes a key
only by way of the queue, and then commits none. What the queue may take is not
claimed to be unused, because it is not (section 5).

**Agent transactions** (`AgentProofs`). `AgentInv`: an operation id is used once,
so the snapshots of a baseline are never taken again and hold what was there before
the connection (`BasesSpent`); plans keep the text and a disconnect puts back what
the record remembers (`PlansSound`); a transaction has in its snapshots what it may
write over (`RunSnapshots`); what it wrote lies below its position on the way
forth and back (`Progress`); after the verification what nobody else touched is as
planned; and nobody who is about to unpin has a baseline that is in use
(`Unclaimed`), which is what the concurrent `force_forget` puts at risk. The attempt
to prove `UserValueKept` showed that it is not true of a clock that was set:
retention can then take the snapshot of the running transaction (`lost`, section
2); the bounds of the run are too small to show it.

**Restore and Cursor** (`ProcedureProofs`). `CopiesInv` says, for each point of the
restore, which file has a copy already; `MovesInv` where the two files are while
they move. `RestoreIsReversible` needs the first because a live path is touched
only when both copies exist, `PairMoves` the second because a failed publication
must know which file is still to be put back. For Cursor, `OwnersApart` says that
no two threads, nor a thread and the slot, hold the same tunnel and that a new
tunnel is new; without it stopping one could stop another's. `CommandTunnels` sorts
the steps of a command by what they do to the tunnel in hand, and `TunnelsAreOwned`
follows. For `OfficialIsKept`, `Handles` says for each point of a command what the
record and the settings in hand are, and `OneAtATime` that in an undisturbed history
there is one such command, so `CalmCommand` need look at one thread only.

Only model-checked: the liveness properties (`EveryRequestSettles`,
`TransitionsEnd`, `EnsureReturns`), which rest on fairness and `ENABLED` and are
out of this prover's reach.

## 5. Where the code disagrees with the repository's own words

1. `supervisor_restore`. `serve_supervisor.rs:179` says a failed candidate bind
   must restore the old listener. It is reserved for a failed bind and used for
   a failed publication, so neither case restores it: after a failed bind on the
   same address the lifecycle is Running with a server that accepts nothing;
   after a failed publication it is Failed.
2. `drain_recorded_499`. `anthropic_native.rs:682` says a drain or a deadline is
   a host failure and not a 499. `send_reply` refuses any chunk once the request
   is cancelled for whatever reason, and the relays take a refusal for a client
   that left.
3. `cancel_charged`. `gateway.rs:3978` says a cancel carries no health penalty.
   The read of a native error body that a disconnect aborts does.
4. `provider_bin`. `lib_tests.rs:6816` says a provider in the recycle bin must be
   restored and never silently replaced. `remove_provider` writes the bin before
   the changed draft is saved: if the program is closed in between, the provider
   is in use again and in the bin as well, where remove, restore and purge all
   refuse it.
5. `legacy_key`. `lib_tests.rs:6883` says that an active provider outside the
   recycle bin must retain its credential, and the test at `lib_tests.rs:5971` that
   reusing the name of a migrated channel cancels the removal of its key. That is
   so when the name is added with a key. When it is added with an env or file
   reference and given a key by `edit_provider` afterwards, the key goes to the
   store at once and the name stays queued: the next save deletes the key that the
   draft and the file it has just written are configured to use.
6. `balance_lost`. `quota_tracker.rs:609` says that an answer without quota
   headers clears a stale reading. It clears a fresh one too, so the balance that
   `poll_quota_once` obtains for providers that send no such headers is lost with
   their next answer, and the router is back at the local estimate.

## 6. Not modelled

* The rules and the features of a request: any order they could produce is possible
  in `AttemptMachine`, which covers every property stated of it. Image observations
  likewise.
* `responses_native.rs` relays and parks as the Anthropic relay does; compared line
  by line the control flow is the same, so payload `native` stands for both, and
  only the line numbers of the Anthropic one are mapped.
* A drained or expired request's parked body is relayed in place of the drain error;
  `OneBegin` covers it, no property judges it.
* In `ConfigState`: the removal of credentials after a save (which is in
  `ProviderLifecycle`), an unreadable sidecar, hash collisions, and a template
  fingerprint recorded while the file is damaged beyond what `LoadConfig` does.
* The commands that restore a cloned `ConfigState` after a failed save restore its
  watermark too, so the next edit is given the revision the failed draft had.
  `price_sync.rs:285`, which does it otherwise, gives the reason not to. No property
  forbids it: two contents never share a revision as *saved* content
  (`SavedRevisionNamesOneContent`), and a draft that differs from the saved content
  never carries its revision (`DirtyDraftHasOwnRevision`).
* A key left behind by a crash between the key and the configuration (`torn`) is
  exempt from `StoreHoldsLastKey`: the code has no journal for it.
* In `ServeSupervisor`: the Agent metadata transition is a coin, `StateView`
  snapshots and menu updates, `publish_status_menu_start_error` included, are left
  out.
* In `ProviderLifecycle`. `add_free_provider` looks at the bin again after its
  validation, not at the journal of a purge that is not finished; the free preset can so
  be added under a name that is still to be purged, and `KeyKeptWhileUsable` says that
  the purge then spares the key. Of a removal that is queued that property only says
  that draft and file agree by then and that no new key is being committed;
  `ActiveProviderKeepsKey` says more and does not hold. `rekeyed` exempts what the code
  keeps knowingly: extending an enterprise route keeps catalog and evidence, an edit
  stores its key at once while an older pending key overwrites it at the save, and an
  unsaved edit is lost with a restart. A migration while the recycle bin has an older
  copy of the name is exempt too: the copy keeps what it knew and the key goes. The
  catalog clause of `LearnedOfThisAccount` does not speak of free providers, whose
  models are those of the preset, nor the property of a provider without any key. A
  queued removal that a crash or a restart forgets leaves a key in the store; no
  property says that it goes.
* In `AgentTransaction`. `doubtful` marks ownership records of which `BaselineKept`
  is not claimed: revisions start from 1 again after a disconnect, so a plan for an
  earlier connection looks current (`docs/release/v2.1.1.md:12` wants stale previews
  rejected), and a commit that is reported as failed may be on disk. The OpenClaw
  companions, which have their own inventory, the previews shown to the user and the
  migrations of old records are left out. `UserValueKept` knows the values of the
  user by one token: it says that a snapshot holds a value of his, not that it holds
  the last of several.
* In `CursorConnection` the bridge and its `cloudflared` are one tunnel, so a
  `cloudflared` that survives the end of the program is not seen. `OfficialKept` is
  not claimed of a `disturbed` history: `cursor_is_running` is asked once, so Cursor
  may be opened during the half minute a tunnel takes and later write what it read,
  and of two commands that overlap one may write our settings after the other
  removed the record. A connect that finds the record of an earlier one derives the
  settings it writes from that record, so what the user changed in Cursor since then
  is written over and is in no backup. The requests the bridge lets through, the
  download of `cloudflared` and the encryption of the key are left out.
* In `BackupRestore`: a `serve` that runs during a restore keeps the database it has
  open, so what it records then is in the file that was moved aside and removed.
  `restore` only says that the configuration applies after a restart.
* In `QuotaAccount`: the end of a worker by a panic, refusals that only the terminal
  `settle` observes, `persistence_failed` (which is in `QuotaStore`), readings of
  several windows, and plans whose rate window is not the plan window. Two requests
  may be routed on the same figures before the first takes its lease; nothing is
  claimed of how evenly they spread. An order reads the figures of the accounts and
  the last account of the conversation in two sections under the quota mutex and is
  one step here.
* The order of a request is made once from the health and the quota of that instant.
  `AttemptMachine` lets others change both before a target is tried, so its
  properties hold of stale orders too, but none says how good a stale order still
  is.
* In `QuotaStore`: the history label of the viewer and the counter of unknown usage.
  Receipts: an attempt settles once under a receipt of its own, so the window of 256
  never turns one away. The two buckets are all a window has: after a clock that
  jumped ahead is corrected, a record made in between has moved the window past the
  real consumption. `RollbackFreesNothing` speaks of two readings of one row, which
  is what `effective_used` promises.
* A gap of one Gateway does not pause another that is open already: the marker is
  looked at when a Gateway opens.
* Pure I/O, formats, metrics, the shell and the frontend.

## 7. Plan

Done: everything in section 2, and a theorem for every safety property the runs
check. What is left, in this order:

1. An abstract specification of a connection (what the user had, what is ours) and
   of a save (one step that takes effect or does not), with `AgentTransaction` and
   `ConfigState` shown to implement them, step by step.
2. `HealthTracker` by itself: that ejection needs `EjectAfter` failures in a row and
   that a success in probation reinstates.
3. The OpenClaw companions as a second kind of Agent and the metrics store's
   receipts.
