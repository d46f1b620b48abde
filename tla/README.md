# TLA+ models of codex-manager

These modules describe the parts of the service whose correctness depends on
the order in which threads, tasks, processes and failures meet. They follow
the Rust code under `src/crates/`; every definition names, in `PROJECT.json`,
the lines it stands for. Paths below are relative to `src/crates/`; `obs/` is
`service/src/gateway/observability/`, `spill/` is `core/src/request_log_spill/`.

Run a model with `tlc -config <file>.cfg <module>.tla` and a proof with
`tlapm <module>.tla`.

## 1. What there is: inventory of the system

The service is a local gateway in front of an LLM provider. It keeps a pool of
accounts, admits and routes requests to them, refreshes their tokens and usage
data, and logs requests with their payloads into SQLite.

| Component | State | Operations | Hard behaviour | What makes it correct |
|---|---|---|---|---|
| **Admission gate** `gateway/routing/request_gate.rs`, `upstream/proxy_pipeline/request_gate.rs` | table of gate objects; per object `running` (mutex), `max_running` (atomic), Condvar, `Notify` | look up, `try_acquire`, blocking and async acquire, guard drop, limit change, TTL sweep, settings reload | lost wakeups, cancelled futures that were notified, sweeps under live waiters, limit changes without the mutex | one gate per key while anybody uses it; slots are exact; nobody above the limit; every waiter is served |
| **Clear generation mirror** `obs/request_log_payload_clear.rs` | `mirror`, `started`, `finished` atomics; generation counter in SQLite | capture snapshot, begin/finish clear, observe a value that was read, lower after a restored file | three atomics read without a lock around overlapping clears, slow readers, restart, restored file | no payload captured before a clear is stored after it; the mirror never runs ahead and catches up |
| **Payload queue** `obs/request_log_payload_{pipeline,spill,writer}.rs`, `spill/{order,segment,record,budget}.rs` | memory, hand-off and held queues, budgets, stream positions, segment files, clear requests | submit, begin/abandon/finish clear, spill thread steps, writer steps, maintenance, panic recovery, replay | three threads and a clear share one mutex and a directory; disk, database and thread failures; restart | budgets exact; nothing vanishes; capture order; a clear discards only stale payloads; everything is settled |
| **Payload purge and blob sweep** `core/src/storage/request_log_payload_{store,purge}.rs` | manifests that share items with a parent, blobs, a marker of the clear, a marker of the sweep, the retention cutoff | store, clear, prune, drain in batches, sweep | batches interleave with writes, prunes and newer clears; row ids are used again; crash between batches | a reader sees whole bodies and none from before a clear; no blob in use is deleted; in the end everything doomed is gone |
| **Reset credit redemption** `core/src/storage/reset_credit_operations.rs`, `service/src/usage/usage_reset_credits.rs` | operation rows with a guard per account, upstream balance | claim, consume with retry, complete, fail, reconcile | a POST that may have been accepted, 401 and refresh in between, cancellation, crash, second process | a credit is redeemed at most once per request; a guard is never left for ever |
| **Token refresh** `service/src/usage/usage_token_refresh.rs`, `service/src/gateway/auth/token_exchange.rs`, `core/src/storage/tokens.rs` | token row, lock per account, 16 completion slots, count of live completions; the gateway's exchange lock per account | refresh, persist by compare-and-swap, drain at shutdown; key exchange of the gateway and its own use of the refresh grant | single-use grants that rotate, cancelled callers, concurrent import, deletion, key exchange and redemption by the gateway, shutdown | a rotation of an admitted refresh is persisted; a newer token is never overwritten; shutdown waits |
| **Cooldown and route quality** `gateway/routing/{cooldown,route_quality}.rs` | cooldown end per account, offence counts, scores | mark, clear, decay, sweep | a slow success against a fresh 429 | an account that was just refused is skipped |
| **Candidate failover** `gateway/upstream/proxy_pipeline/{candidate_executor,stream_preflight,response_finalize}.rs` | candidate cursor, slot of the account's gate, in-flight count, the retries made | skip, wait, try, retry, fail over, deliver, give up | a dozen ways to leave a candidate; cancellation and deadline at every await; requests with opposite orders | counts and slots leave with the request; the last candidate decides; nobody waits for ever |
| **Selection, route hints, conversation binding** `gateway/routing/` | binding rows, hints | rank, bind, rebind | two requests of one conversation | a conversation stays with its account |
| **Usage refresh, reset warmups** `service/src/usage/refresh/`, `core/src/storage/account_reset_warmups.rs` | reminder rows; per process a bounded channel and the keys in it | arm, consume, claim, poll, enqueue, work | several processes, stale snapshots, a full channel, shutdown, panics | a quota cycle is used once; no key stays behind; no reminder stays due for ever |
| **App manager** `service/src/auth/app_manager.rs` | users, wallets, redeem codes | charge, redeem | single SQL transactions | a code is redeemed once |
| **Login sessions** `service/src/auth/auth_{login,callback}.rs` | login states by id | start, callback, complete, expire | callback against expiry | one account per completed login |
| **Plugin scheduler** `service/src/plugin/runtime.rs` | tasks, running flags | schedule, run, stop | overlap of runs | one run of a task at a time |
| **Proxy testing jobs** `service/src/account/proxy_testing/` | job table | start, cancel, finish | cancel against finish | a job ends once |
| **Responses websocket** `service/src/http/responses_websocket.rs` | two sockets | relay, close | half-closed sides | close reaches both sides |
| **Lifecycle** `service/src/{lifecycle,runtime}/` | shutdown flag | start, stop | drain order | persisted work survives |
| **Others** adapters, request rewriting, model catalog, profiles, skills, SeaORM backend, launcher, web, desktop UI | - | - | - | formatting, data and presentation: not modelled |

How they interact: a request passes the *gate*, is sent by the *failover* loop
to an account that *selection* and *cooldown* leave, and its payload is
`submit`ted to the *queue*, stamped by the *clear mirror*. The queue's writer
stores it in a transaction that compares the stamp with the generation. A log
clear (`requestlog/clear`, synchronous in `requestlog/requestlog_clear.rs:26`,
asynchronous in `rpc_dispatch/storage_async.rs:289`) begins in the mirror and
in the queue, commits in the *purge* storage, and finishes in both; nothing
keeps two clears from overlapping. *Token refresh* serves every component that
talks to the provider: the failover's attempts, reset credits, warmups. The
usage snapshots that a request or the usage refresh stores arm and consume the
reminders of the *reset warmups*. The shutdown flag stops every loop; the token
refresh and the warmups are drained before the process ends.

## 2. Modules

| Module | Models | Notes |
|---|---|---|
| `RequestGate` | one key of the admission gate | `Locks` are identities for the objects the table may create; `TryAcquire`/`Sync*` are the Condvar side, `Async*` the `Notify` side with stored permits and dropped futures |
| `ClearGeneration` | mirror, clears, one or more payloads, the writer | one step per atomic access or transaction |
| `SpillOrder` | `SpillOrderState` | pure operators from state to state |
| `SpillStore` | `SpillStore` and `SpillReader` | pure operators; an offset counts records; of the active file the first `flushed` records have left the buffer |
| `PayloadQueue` | the queue: EXTENDS `SpillStore`, which EXTENDS `SpillOrder` | a section under the queue mutex is one step, file work is a step of its own |
| `BodyStore` | what the storage of bodies promises a reader | the abstract specification `PayloadPurge` implements |
| `PayloadPurge` | manifests, blobs, markers, the drain and the sweep | a transaction is one step; what the drain read before it may be old |
| `ResetCredit` | redeeming a reset credit of one account | a transaction is one step; several processes share the two tables, each has its mutex and `interrupted` flag |
| `TokenRefresh` | refreshing credentials, with the provider | a step between two awaits of a call or of its completion |
| `CandidateFailover` | requests walking over their candidates | a step between two awaits; the gate of an account is what `RequestGate` shows of it |
| `ResetWarmup` | reminders, executors, workers | a statement is one step; several processes share the rows |
| `MC*` | values for TLC | |
| `PayloadQueueInvariants` | what the proofs about `PayloadQueue` are stated with | definitions only: the inductive invariants, `IInv` and `ClearInv`, and the relations between two stores or queues |
| `*Proofs` | the theorems of the module in front | |

### RequestGate

`table`, `running`, `limit`, `permit` are the fields of the table and its
objects; `pc`, `lockOf`, `note` are where each request stands, which `Arc` it
holds and what its `Notified` future has received: `one` or `all` while it was
registered, `done` when it was enabled on a stored permit. As in tokio, only a
future that was registered and got `one` hands the wakeup on when it is dropped;
one that is `done` takes the permit with it. `Lookup` is
`gate_lock_for_key` with the sweep it may run first, `ClearRuntimeState` the
reload. `MutexFree` models the one place where a thread holds the gate mutex
across two steps: between the failed check and going to sleep on the Condvar.
`Announce` (a limit change) does not take the mutex, as in the code.
Abstracted: time (a sweep may take any entry nobody references, a timeout may
strike any sleeper), poisoning of the mutex, several keys (they share nothing).

### ClearGeneration

A payload goes through three loads (`CaptureFinished`, `CaptureStarted`,
`CaptureMirror`), waits in a set, is taken by the writer, whose transaction
reads the generation and stores or rejects it (`Accepted`, `WriteGeneration`).
A clear begins, commits or fails, reads the generation back (which may fail),
publishes it and finishes. `RestoreDatabase` is external: an operator puts an
older file back. `Restart` keeps any subset of the waiting payloads (the
spilled ones). Nothing says that a clear goes on once it has begun, as the
asynchronous one need not (see Fairness). `commits` and `seen` are history
variables that only the properties read.

### PayloadQueue

`order` is the record `SpillOrderState`; `memory`, `handoff`, `held`, `rolls`
(`roll_requests`), `boundary` (`clear_boundaries`), `purges`, `threshold`
(`clear_thresholds`), `purgeSeq`, `readerBusy`, `releaseUpto`, `readStart`,
`inFlight` are the fields of `QueueInner`. `spill` and `writer` are the local
state of the two threads between two steps, `store` is the segment store.
`fate` records what was decided about each payload: `written`, `stale`
(rejected by the transaction), `dropped` (counted with a reason), `discarded`
(by a clear) or `lost` (torn, damaged, unreadable, or gone with a crash).

`SpillIdle` and the guards of `SpillRoll`, `SpillPurge`, `SpillRelease`,
`SpillTake`, `SpillFlush` follow the priorities of `next_step`. Each kind of
failure is switched on by `Faults`:

| Fault | What happens |
|---|---|
| `write`, `full`, `delete`, `read` | opening, writing, flushing, closing fails, with any number of buffered records in the file; `check_spill_space` refuses; a file cannot be removed; the files cannot be read |
| `sync` | `sync_data` fails although the flush succeeded (in no run, see 5) |
| `damage` | a record fails its checksum |
| `oversize` | a record does not fit a frame (in `queue_faults` only, see 5) |
| `panic` | the spill thread panics with a payload in hand, the writer with a batch |
| `db` | rows, transactions or reading the generation fail |
| `restore` | a clear reports an error after its commit |

Abstracted: bytes of a record (sizes are a constant function), several drop
reasons, statistics, log lines, preprocessing, the atomics of the mirror (one
variable here, see ClearGeneration), a `READ_ERROR_SKIP_AFTER` count (any
failed read may be the last one), time intervals of the maintenance.

### ResetCredit

`status` and `guard` are the tables `reset_credit_operations` and
`reset_credit_operation_accounts` of one account, `gate` and `interrupted` the
`ResetCreditState` of each process, `pc`, `op`, `at`, `resume`, `retried` the
calls of `consume_reset_credit_async`. A call that returned may start again
with any operation, so the number of calls over time is not bounded. `posted`
are the calls whose request the provider has not served, `late` the operations
with such a request that nobody waits for any more; it may still be served.
The provider (`Accept`, `Refuse`, `ServeLate`) is external: it charges a redeem
request id once and refuses an id it accepted before only for want of
authorization. `Cancel` drops the future at one of its awaits, `Restart` ends a
process at any moment. Two late requests of one operation count as one, since
serving the second changes nothing. `resumed` is a history variable.
Abstracted: result JSON and messages, the two 401 retries of the snapshot (it
succeeds or not), operation ids of another account (refused without effect).

### TokenRefresh

| State | In the code |
|---|---|
| `row`, `seen` | the tokens row of each account; every row there has been (history: what a gateway request may have read before) |
| `locked`, `permits`, `active`, `registry`, `stopping` | the statics of `usage_token_refresh.rs`; the registration mutex is held across two steps, so it is a variable |
| `pc`, `acct`, `token` | the calls of `refresh_and_persist_access_token_async` |
| `at`, `input`, `base`, `next`, `resent` | the completion of an account, which outlives its caller |
| `gateway`, `held`, `answer` | the gateway request that has the exchange lock of the account (`resolve_openai_bearer_token`) |
| `drain`, `changed` | the drain at shutdown and its `Notified` |
| `live`, `spent`, `issued` | the provider (external): it redeems a grant once and may replace it; credentials are numbered in the order they are issued |

`Call` to `Spawn` are the call up to the start of its completion, `ReadLatest`
to `StoreKey` the completion. The row has these other writers:

* `Import`, `Delete`: an account imported or logged in again, and deleted.
* `DropKey`: the websocket takes back the API key of the token it refreshed.
* `EnterExchange` to `GatewayEnds`: `resolve_openai_bearer_token`
  (`gateway/auth/token_exchange.rs`). It exchanges an id_token for an API key
  (`ObtainKey`); when that fails it sends the refresh grant itself
  (`GatewayRedeem`, once more after a failed send), stores the answer
  (`StoreGrant`) and tries the exchange again. It holds a lock of its own, not
  that of the refresh, takes no slot and registers nowhere; its token is the one
  the request read before it got the lock, and is not read again; and it runs in
  the future of the request, so that it may end at any step (`GatewayEnds`).

`CurrentRow` is the comparison of `compare_and_swap_token`; a swap that fails and
the read of the row that follows it are one step. `lost` is a history variable:
it names the grants whose successor may be gone, with the cause (`answer`: lost on
the way or with a failing update; `key`: an API key was swapped between the
request of a completion and its answer; `gateway`: the gateway redeemed the grant
and dropped the answer, or overtook a completion). `Cancel` drops a call at its
awaits, which never cancels a completion. `MaxWork` bounds how many calls,
imports, deletions, dropped keys and gateway exchanges begin, `MaxIssued` the
credentials of an account.
Abstracted: schedules and the columns no decision reads, error texts, whether an
id_token or a key has expired (either may be, at any time).

### PayloadPurge and BodyStore

`rows` are the manifests of one conversation and stage: a row has a parent, the
length of the prefix it shares with it, and items of its own after that;
`Visited` is the walk of `resolve_request_log_payload_item_ids` over the
parents, written as reachability so that it can be proved about. `blobs` is the
content table, `marker` and `gc` are the two rows of the purge table,
`generation` and `cutoff` the state row, `hint` the writer's parent cache,
`drain`, `read`, `bound` what a running drain knows. `Insert` is the whole
transaction with the blobs it creates, `InsertRolledBack` one that fails after
the cache was filled. `Prune` raises the cutoff and gives the rows that stay
what they shared with those that go; `RetentionBatch` deletes the latter.
`BodyStore` knows bodies only: captured, stored, cleared, pruned. `Reader` maps
the tables to it: a body is what its chain of parents resolves to, a live row is
one the marker and the cutoff leave.
Abstracted: the other payload tables, which go through the same batches.

### CandidateFailover

`pc` is where `execute_candidate_sequence` stands, `at` its index, `tries` the
extra attempts at this candidate, `decision` what the last one decided. Whether
an attempt succeeds, fails over or is terminal is a choice, within what
`outcome.rs` and the retry flags allow; so are the answers of `is_cancelled`
and of the deadline. `cooling` is the cooldown of an account, set by `Mark`,
cleared by a success, and it may end at any time (`Rest`).
Abstracted: the order of candidates and the limits of the gates (constants;
limits that change are part of `RequestGate`), what is inside an attempt, how
long a cooldown lasts.

### ResetWarmup

`pending` and `consumed` are the row of `account_reset_warmups`, a cycle is
named by the time of its reset; `enabled` stands for the switch, the status and
the token an account needs, `long` for the long window of its latest snapshot.
Per executor: `loop` (the polling task), `listed` (what it has listed and not
yet enqueued), `keys` (`pending` of `ResetWarmupExecutor`), `channel`, and `pc`
and `job` of its workers. `Observe` is the whole of storing a snapshot with
what it does to the reminder; `Claim` is the UPDATE that reserves the attempt.
`uses` is a history variable: how often a cycle was used, by a warmup or by
traffic that was seen to have started it. `Stop` sets the shutdown flag of a
process, `LoopPanic` ends its polling task only, `Crash` everything; `Start` is
the next process or the next start of the same one.
Abstracted: the warmup request and its token refresh (it ends, somehow), the
poll interval, the order of equal due times. Not modelled: the deletion of an
account, which cascades to its row with `consumed` and so forgets which cycles
were used (the test `deleting_an_account_cascades_settings_and_pending_cycles`).
`OncePerCycle` is about an account that exists throughout: one that is deleted
and imported again within a cycle may be warmed up in it a second time.

## 3. Runs

| Run | Checks | Bounds, and why they are enough | Result |
|---|---|---|---|
| `gate` | `TypeOK`, `SharedGate`, `SlotsExact`, `AdmittedBelowLimit`, `EveryRequestServed` | 2 blocking and 2 async requests, 2 gate objects, limits 1 and 2. A lost wakeup needs a holder, a waiter and a third request; a split gate needs two objects. 17,061 states | holds |
| `clear` | `MirrorExact`, `NoStaleWrite`, `MirrorCatchesUp` | 1 payload (payloads do not interact), 2 clears, 1 restart and 1 restored file, at any moment, two of these events in a behaviour (`MaxEvents` 2): clears that overlap or follow each other, and each pair of a clear, a restart and a restored file. 807,249 states; with three events in a behaviour `MirrorExact` and `NoStaleWrite` hold too (5.5 million states) | holds |
| `queue` | `NothingVanishes`, `CaptureOrder`, `DiscardsOnlyStale` | 3 payloads of size 1, memory for 1, hand-off for 2, segments of 2 records, batches of 1, 1 clear: memory, hand-off, disk and drop are all taken, a segment rolls, a batch ends inside a segment. 1 restart with any prefix of the active segment on disk. Faults `damage`, `restore`. `MaxWork` bounds payloads and clears together by 4 | holds |
| `queue_faults` | `TypeOK`, `AccountingExact` | no memory budget (everything goes over the disk); 2 payloads and 1 clear, or 1 payload and 2 clears that may overlap (`MaxWork` 3). Faults `write`, `delete`, `read`, `damage`, `oversize`, `panic`, `db` in any combination | holds |
| `queue_live` | `NothingVanishes`, `EveryJobSettled`, `BackToMemory` | 2 payloads, 1 clear that ends or does not, segments of 1 record, faults `write`, `full`, `delete`, `damage`, `db`. 58,108 states. A disk that can never be read (`read`) keeps what is on it, so this fault is not a matter of liveness | holds |
| `credit` | `TypeOK`, `GuardMatchesPending`, `AnswerMatchesRecord`, `FirstFailureIsFinal` | 2 operations, 2 calls at a time, 2 processes, 2 credits, any number of restarts and cancellations: two processes meet on one operation and on two. `Legacy` is empty here and arbitrary in the proof | holds |
| `credit_resumed` | `OutcomeReconciled` | the same with one process | **violated**, see 5 |
| `refresh` | `TypeOK`, `SlotsExact`, `RotationStored`, `NoGrantSentTwice`, `DrainedIsQuiet`, `NewerCredentialsStay`, `DrainEnds`, `EveryCallReturns` | 1 account (accounts share only the slots and the drain), 2 callers, 1 completion slot, 3 calls, imports, deletions, dropped keys or gateway exchanges in a behaviour (`MaxWork` 3), answers may be lost. The account starts with its first credentials, so that `MaxIssued` 3 leaves two issuances: an import and a redemption meet, and so do two redemptions, of which one may be the gateway's. A caller finds the lock and the slot taken, a cancelled caller's completion meets each of the other writers or the drain. 261,369 states. With `MaxWork` 4 the safety properties and the inductive invariant hold as well (2.75 million states) | holds |
| `refresh_key` | `RotationAlwaysStored` | the same without lost answers | **violated**, see 5 |
| `purge` | `TypeOK`, `LiveBodiesComplete`, `GarbageIsMarked`, `ReaderSpec`, `PurgeEnds` | 3 bodies `<<x>>`, `<<x, y>>`, `<<x, z>>`: a chain, two children of one parent, and items only one of them uses. One cutoff between the first body and the others, batches of 1 row and 2 blobs so that both batches end in the middle, 2 clears so that the second meets the drain of the first | holds |
| `failover` | `TypeOK`, `InflightExact`, `LastCandidateDecides`, `EveryRequestEnds` | 2 requests, 3 accounts in opposite orders, gates of 1, one in-flight request per account, one request that is an Anthropic one: each may wait for what the other holds, and each may find any candidate busy, cooling or full | holds |
| `warmup` | `KeysExact`, `OncePerCycle`, `EveryReminderEnds` | 1 account, 2 executors with 1 worker each and a channel of 1, 2 cycles of which the second has a long window, a grace of 1 in a clock of 3, 3 changes of the account, 1 stop. Two cycles fill the channel while the worker is busy. What several accounts add is the order in which due rows are listed, which no property depends on (2 accounts with 1 executor hold too) | holds |

Deadlock checking is off everywhere: every model stops when its requests,
payloads and clears are used up (a call of `ResetCredit` or `TokenRefresh` may
also simply never start again).

### Fairness

* `RequestGate.FairSpec`: weak fairness of every request's own progress. A
  runnable thread or task is scheduled, a holder finishes its request.
  Arriving, timing out and being cancelled are not fair.
* `ClearGeneration.FairSpec`: the writer thread runs; reading the generation
  and committing succeed again and again (strong fairness, because each is
  enabled only now and then). Of a clear only
  `finish_request_log_payload_clear` is fair, which has no await. That it is
  reached is not assumed: `rpc_dispatch/storage_async.rs:286-293` awaits the
  transaction between begin and finish without a drop guard, so a client that
  leaves, or a timeout, ends the future there. `MirrorCatchesUp` says what such
  a clear may do: keep the mirror too high, never too low.
* `PayloadQueue.FairSpec`: the spill thread and the writer thread poll with
  timeouts (`IDLE_WAIT`), so a step that stays possible is taken. Nothing is
  assumed of a clear. `EveryJobSettled` and `BackToMemory` exempt exactly the
  payloads that `MustHold` keeps back for a clear that runs (`HeldBack`).
  Failures are never fair: a disk may fail any number of times, but
  `SpillRetryDeletes` and `SpillUnblock` are part of the thread's loop.
* `TokenRefresh.FairSpec`: strong fairness of a call's next step, since tokio's
  mutex and semaphore serve their waiters in order, so a waiter that may enter
  again and again does. Weak fairness of a completion's steps (each request has
  a timeout, after which the completion goes on) and of the drain. Imports,
  deletions, the gateway's requests, cancellations and the shutdown are not
  fair, and neither is the provider: it may refuse or never answer.
* `PayloadPurge.FairSpec`: maintenance starts a drain again and again (weak);
  a step of a drain may be cut off by the time budget or a busy database, but
  not for ever (strong). `PurgeEnds` assumes that prunes come to an end; the
  clears are bounded.
* `CandidateFailover.FairSpec`: a request that can go on does (weak); a place
  that becomes free again and again is got at some time (strong, as the gate's
  `EveryRequestServed`). No cancellation, deadline or end of a cooldown is
  counted upon.
* `ResetWarmup.FairSpec`: the clock, the polling task, the workers and the
  restart of what was stopped (weak). Strong fairness of claiming a due row,
  because the statement may fail, but not for ever.

## 4. Theorems

| Module | Theorem | States |
|---|---|---|
| `RequestGateProofs` | `GateTypeCorrect`, `GateNeverSplits`, `GateCountsGuards`, `GateAdmitsBelowLimit` | `TypeOK`, `SharedGate`, `SlotsExact`, `AdmittedBelowLimit` for any finite set of requests, any objects and limits |
| `ClearGenerationProofs` | `ClearTypeCorrect`, `MirrorIsExact`, `NoStaleWriteEver` | `TypeOK`, `MirrorExact`, `NoStaleWrite` for any payloads, any finite set of clears and any number of restarts, provided no older file is put back (`MaxRestores = 0`) |
| `ResetCreditProofs` | `CreditTypeCorrect`, `GuardIsExact`, `AnswersStayTrue`, `FirstFailureRedeemsNothing` | `TypeOK`, `GuardMatchesPending`, `AnswerMatchesRecord`, `FirstFailureIsFinal` for any operations, calls, processes, credits and operations older than the guard table |
| `PayloadQueueProofs` | `TypeCorrect`, `AccountingIsExact`, `NothingIsLost`, `OnlyStaleDiscarded` | `TypeOK` and `AccountingExact` with every fault, `NothingVanishes` with every fault but `sync` and `oversize`, `DiscardsOnlyStale` with every fault while clears do not overlap, for any budgets, sizes of payloads, lengths of segments and batches, and numbers of payloads, clears and restarts |
| `TokenRefreshProofs` | `RefreshTypeCorrect`, `RefreshGuardsExact`, `DrainIsComplete`, `RotatedGrantStored`, `GrantSentOnce`, `NewerCredentialsKept` | `TypeOK`, `SlotsExact`, `DrainedIsQuiet`, `RotationStored`, `NoGrantSentTwice`, `NewerCredentialsStay` for any finite sets of accounts and callers, any slots, and any number of events and issuances, lost answers included |
| `PayloadPurgeProofs` | `PurgeTypeCorrect`, `ClearedStayHidden`, `BodiesStayComplete`, `SweepMissesNothing`, `DoomedOnly`, `ReaderPromise` | the types; no row of a cleared generation is seen again; `LiveBodiesComplete`; `GarbageIsMarked`; only doomed rows are deleted; `PayloadPurge` implements `BodyStore` (`ReaderSpec`), for any bodies, batch sizes and numbers of clears |
| `CandidateFailoverProofs` | `FailoverTypeCorrect`, `InflightAlwaysExact`, `LastCandidateAlwaysDecides` | `TypeOK`, `InflightExact`, `LastCandidateDecides` for any requests, accounts, candidate lists and limits |
| `ResetWarmupProofs` | `WarmupTypeCorrect`, `CycleUsedOnce`, `KeysAlwaysExact` | `TypeOK`, `OncePerCycle`, `KeysExact` for any accounts, executors, workers, capacities and cycles |

*Gate.* The inductive invariant adds to the properties that everyone who is
active holds an object (`ActiveHasLock`): without it `SharedGate` says nothing
about a request between lookup and admission. `SharedGate` makes the admission
bound follow from `SlotsExact`: all holders came through the one object whose
`running` was compared with the limit. The counting lemmas (`HoldersAdd`,
`HoldersRemove`) rest on the library's cardinality theorems.

*Clear generation.* The property talks of a commit that may come long after
the capture, so the invariant carries, for each payload, what its stamp still
implies: a generation at most the number of commits it has seen, or an epoch
that equals the number of started clears only while none of them committed
since. `BalancedStep` ties `started` and `finished` to the number of running
clears; `EpochIsQuiet` concludes from equal counts that no clear runs, which
is what the two loads of the capture and of the writer rely on. The mirror
part needs the reader's side as well: what a slow reader holds is at most the
generation (`BehindStep`, `ReaderStep`), and a lower value is only published
if no clear began since.

*Reset credit.* That a failed first attempt redeemed nothing is not inductive:
it follows from what the one call that works on the operation knows. The
invariant says that at a first attempt there is one such call (`OneCall`: a
second one could only resume), that the row is pending as long as it works
(`CallIsPending`), and that the provider has not touched the operation while
the call is anywhere but behind an accepted or unanswered request
(`CallUntouched`). `RowUntouched` then survives every step: a row fails only
through its one call, from a state where nothing was redeemed and no request
is left. `Recorded` carries the answers: outcomes are final because the
transactions change pending rows only.

*Payload queue.* (The invariants are defined in `PayloadQueueInvariants`.) The queue is made of sequences, sums over them and a stream
that is a concatenation of files, and the operators that compute them are
recursive functions. What they return is proved by the argument of the least
counterexample (`LeastExists` and `Induction`, over a set of numbers, from the
library's well-founded induction), first for the helpers (`Bytes`, `Among`,
`ToSet`, the folds behind `FlattenSeq`), then for the store: what each operation
leaves a store (`Cut`, `Deleted`, `Keeps`, `Fewer`), and what a batch read from
it holds (`Stream` is laid out by `Offsets`, so that a position in the stream
says which record of which segment it is).

`AccountingExact` follows from `Types` and `Counted` alone: each step moves
bytes between the sums. `NothingVanishes` needs the rest of `IInv`, and each
part is there because a step would break the others without it:

* `Placed`: what the files show ends at the store's `committed`, which never
  passes the next segment, and the active file is readable up to `flushed`.
  The fault `sync` breaks this part.
* `Known`: nothing in a queue or a file has a number that is not captured yet,
  or a new payload could be taken for an old one.
* `Ordered`: `readStart`, `consumed`, the writer's cursor, the end of its batch,
  `committed` of the order and of the store follow each other in the stream. A
  batch in flight ends where the cursor is.
* `Removable`: a file whose deletion failed holds only what was consumed, or
  what the purge that is under way will pass over; it may be deleted at any
  time after.
* `Boundaries`: what a clear recorded separates the segments of before from
  those of after, so a purge takes no record that was appended later.
* `Unpublished`: what lies beyond the published end of the stream is exactly
  what the spill thread remembers in `unflushed`, with the record each entry
  stands for. A failed flush then tells every record that did not survive.
  `oversize` breaks this part.
* `MemoryFirst`: while anything is in memory, nothing is left in the files
  between the consumed position and where a repeated read would begin. Without
  it the writer could acknowledge a batch from the disk it never read.
* `InBatchOrSettled`: a batch from the files holds every undecided payload that
  is passed over when it is acknowledged. Records that fail their checksum were
  settled when they were read.
* `Somewhere`: `NothingVanishes` with the readable part of the stream cut at
  the consumed position.

`DiscardsOnlyStale` has an inductive invariant of its own, `ClearInv`, which
needs nothing of the positions: a purge throws away what lies before its
boundary, so it is enough to know which payloads can be there, whatever fails.

* `Clearing`: the mirror is not ahead of the database; at most one clear runs;
  the threshold it noted is older than the generation it commits.
* `Stamped`: a payload stamped before a clear that committed has an older
  generation, and one without a generation is rejected once a clear has begun
  or the process has started again.
* `InHand`: what is held back is covered by the threshold of the clear that
  runs, so it is stale when that clear ends with success.
* `Filed`: while a roll is asked for (`Asked`), done (`Rolled`), recorded
  (`Bounds`) and used by a purge (`Purged`), everything before the boundary was
  captured before the clear began. `SpillTake` waits for the roll, and the
  record appended next goes to a segment behind it.

*Token refresh.* `RotationStored` relates the row to a completion whose caller
may be long gone, and to a gateway request that may have its token from any time
before. The invariant follows the grants:

* `Issued`: no number is in use that was not issued, a grant is redeemable or
  redeemed but not both, and the row is one of those that were `seen`.
* `Holding`: what a completion or the gateway started from is such a row; an
  answer in their hands keeps the old grant or has one that nobody else has
  (`Fresh`, `Answers`), and the two never have the same new one.
* `BaseKnown`: while the row has the grant a completion started from, it is the
  row the completion has read, or somebody overtook it, and `lost` says so.
* `Stored` is `RotationStored` and `SentOnce` is `NoGrantSentTwice`, per account:
  with the first three they are inductive.

That an account has one completion follows from its lock, which a completion
takes over from its caller (`LockHasOneOwner`); with the gateway's own lock there
are at most two who can have a successor in their hands. The exemptions are only
as wide as the causes `lost` records: each is added by the step that does the
damage, and never when the swap still finds the row it read. `SlotsExact` counts
slots and completions, `RegistryHeld` ties the registration mutex to the one call
inside it; together they give `DrainedIsQuiet`: once the drain has seen the count
at zero after the shutdown, nobody can raise it. The gateway's requests are not
counted, and the theorem does not speak of them.

*Purge.* A body is what the walk over the parents finds, and such a walk is
recursive. `Visited` says the same without recursion: a row is visited unless
some set with the start in it, closed under the step, leaves it out. What is
proved about a walk is proved by giving such a set. `Chains` says of every row
a reader may see (`Kept`) that it has each item itself or shares it with a kept
row of a smaller row id, so the walk descends; row ids are used again after a
deletion, but never below the row that refers to them. That the walk ends at an
item is the argument of the least row id visited (`LeastExists`, from the
library's well-founded induction). `HintSound` says what the writer's cached
parent is still good for, `GarbageIsMarked` that the cursor of the sweep has
not passed a blob without a reference. The invariant is `TypeOK`,
`RowsBounded`, `Generations` (rows of earlier generations are under the
marker), `BlobsUnique`, `Chains`, `HintSound` and `GarbageIsMarked`; the
refinement then has one lemma per action.

*Failover.* `Counts` says that an account's in-flight count is the number of
requests whose guard names it, and the slots of its gate likewise; `WalksOn`
that a request sent to its last candidate stays there, that a failover is
decided only where a candidate is left (`Walks`), and that a request with a
result is on its way out (`Settled`). `LastCandidateDecides` is not inductive
without it.

*Warmups.* `OncePerCycle` follows from an order: a pending cycle is later than
every cycle used so far (`Cycles`), although snapshots may be stale and come
from several processes, since both the arming and the consuming statement
compare with `consumed`. `Filters` adds to `KeysExact` that a worker that works
has a target.

Model-checked only: every liveness property (the prover has no fairness
reasoning and no `ENABLED`); `CaptureOrder` of the payload queue, which holds
only while clears do not overlap and needs the order of the payloads in
addition to where they are.

## 5. Where code and documentation disagree

Two runs keep a disagreement on record:

* `credit_resumed`: the first request of an operation is left unanswered (the
  caller was dropped or timed out); the operation is resumed, `load_token`
  fails, or the repeated request meets a 401 and the token cannot be refreshed.
  `fail_operation` marks the operation failed and frees the account, though the
  first request may have redeemed a credit or may still do so, and the next
  operation redeems another. `FirstFailureIsFinal` is the part that holds.
* `refresh_key`: between the read and the persist of a refresh another writer
  exchanges or drops the API key of the row. `compare_and_swap_token` compares the key
  too, so its update changes nothing, the refresh returns the row as it is, and
  the rotated grant is dropped; the row keeps the spent one. `RotationStored`
  is the part that holds.

Others show up when a configuration is changed:

* `MCClearGeneration` with `restores = 0` taken out of `NoStaleWrite` violates
  it. One clear is enough if the restored file undoes it, which may be argued to
  be what a restore means. With `MaxEvents` 3 the clear that is ignored is one of
  the restored database: after a first clear an older file is put back, a second
  clear counts up to the number of the first again, and a payload captured
  between the two is written. The
  module's promise, "a job captured before a log clear is never written after
  that clear" (`obs/request_log_payload_clear.rs:3-4`), has no exception for a
  restored file, and lines 116-117 conclude that "stale jobs are never accepted".
  `NoStaleWrite` leaves the time after a restored file out; what must hold then
  is `MirrorCatchesUp`.
* `MCPayloadQueue` with the fault `sync` violates `NothingVanishes`: after a
  failed `sync_data` (`spill/segment.rs:343`) the store believes the active
  segment to be fully read and deletes it with a record nobody has read, which
  is counted as spilled. `maybe_sync` has moved `flushed_len` but not
  `committed`, and `release_consumed` compares with both. No run switches this
  fault on, since nothing promises what such a failure keeps.
* `MCPayloadQueue` with the faults `oversize` and `write` violates
  `NothingVanishes` with two payloads: a record refused by `encode_frame`
  (`spill/record.rs:170`) makes the spill thread settle the buffered records
  before it, though the segment was not abandoned as the comment at
  `obs/..._spill.rs:442` says. They are counted as spilled and stay in the
  buffer; if the next flush fails they are gone, and nothing counts them. With
  `oversize` alone and five payloads, no clear and a memory for one (`MaxJobs`
  and `MaxWork` 5, `MaxClears` 0) it violates `CaptureOrder`, which
  `spill/order.rs:2` promises: nothing seems to wait, so the queue returns to
  memory while settled records are still in the buffer, and newer payloads
  overtake them. `queue_faults` therefore checks with this fault only that the
  accounting stays exact.
* `MCPayloadQueue` with `Overlap = TRUE` and two clears violates
  `DiscardsOnlyStale` (the last of two overlapping clears discards what was
  held for both, payloads of the current generation included) and
  `CaptureOrder` (of two overlapping clears the one with the higher threshold
  fails; what was held for it alone stays held and is overtaken). This is why
  the runs with these properties do not let clears overlap, and `queue_faults`
  checks what does hold then.

And some were seen while reading; no property denies them, because nothing in
the repository promises otherwise:

* A clear faster than the spill thread withdraws its own roll request
  (`obs/request_log_payload_pipeline.rs:447`): no segment is deleted for it, and
  a payload in the spill thread's hand is still written as plain text.
* An asynchronous clear whose caller is dropped (`rpc_dispatch/storage_async.rs:286-293`)
  leaves its threshold in the queue: payloads at or below it, and those captured
  without a generation, are held until a restart. The liveness properties of the
  two modules say so (`HeldBack`, `Unfinished`).
* The gateway's own use of the refresh grant (`gateway/auth/token_exchange.rs:248-372`)
  lacks what `usage_token_refresh.rs` was written for. Its future ends with the
  request, and a rotated grant with it; the drain at shutdown does not wait for
  it; it does not read the row again, so it may send a grant that a refresh, or
  an earlier request, has spent; and a completion beside it may send the grant the
  gateway has just redeemed. `account/background.rs:25-26` says that token
  rotation has a completion tracker of its own "because a received rotated
  credential must be persisted even after shutdown"; this redemption does not
  use it. `RotationStored` and `NoGrantSentTwice` therefore name the
  gateway's losses as exemptions, and say that a completion does no harm of its
  own.
* A request cancelled while it waits at the account gate ends without its final
  log; a waiter does not look at the cooldown again after the wait; an account
  is listed as attempted before its gate is got.
* Neither lock of a refresh reaches beyond its process. With several instances on
  one database (the SeaORM backend behind `account/remote_storage.rs`), which the models of the refresh and the
  gateway leave out, two of them may send the same grant.
* A slow success clears the cooldown another request's 429 has just set
  (`gateway/routing/cooldown.rs:265`), and the cooldown of a failed stream is
  marked after its in-flight guard is gone.
* A comment in `attempt_flow/fallback_branch.rs` says that server errors are
  returned at once lest a request walk over many accounts; the preflight of a
  stream fails over on any answer that is not a success.
* A usage refresh sent after the last worker has drained its channel leaves its
  id in the static set of pending ids (`usage/refresh/queue.rs`), though a
  comment says that the shutdown releases queued entries too.
* A snapshot stored late, after an exhaustion nobody observed, arms a cycle that
  has already started: one warmup too many, but still one per cycle.

## 6. Plan

Done, in this order: `RequestGate` and `ClearGeneration` with proofs;
`SpillOrder`, `SpillStore`, `PayloadQueue`; `ResetCredit` with proofs;
`TokenRefresh` with proofs; `PayloadPurge` with its abstract `BodyStore`, proofs
and refinement; `CandidateFailover` with proofs; `ResetWarmup` with proofs; the
types, the accounting, `NothingVanishes` and `DiscardsOnlyStale` of
`PayloadQueue` proved.

What would come next: `CaptureOrder` as a theorem; an abstract `PayloadLog` (an
ordered log from which clears remove a prefix) for `PayloadQueue` to implement;
conversation bindings composed with `CandidateFailover`; login sessions.

### Not modelled

Most of the repository translates, ranks, formats, stores or presents, and its
steps are single SQL transactions or pure functions; a model of them would
repeat the code. The rest, component by component:

* **Account selection and conversation binding.** `CandidateFailover` takes the
  ranked list as a constant. While reading: two requests that read the same
  binding and fail over to different accounts store the same thread epoch for
  different accounts, and a slow one may put an older binding back (the upsert
  of `conversation_binding.rs` compares nothing).
* **App manager, web access.** Single transactions and checks.
* **Login sessions.** One UPDATE claims a pending session and one finishes it.
  While reading: `persist_login` (`auth/auth_login_completion.rs`) checks the
  session's status and stores the tokens in separate statements.
* **Plugin scheduler.** One thread runs the due tasks in turn; what a task does
  is a script.
* **Proxy testing jobs.** A registry in memory for a settings page. While
  reading (`account/proxy_testing/jobs.rs`): `cancel_job` tests for a final
  status under the lock, gives it up, and then marks the job cancelled, so a job
  that ended in between is relabelled; a cancelled job frees its slot at once
  while its task runs on for up to 25 ms, so two speed tests may overlap; the
  two drop guards set the status without the phase; a job inserted between the
  end of one scheduler and the start of the next waits for the next call.
* **Usage refresh queue.** The same channel-and-keys pattern as the warmups,
  without rows behind it; its one oddity is listed in 5.
* **Responses websocket.** Relaying of frames; its states are those of two
  sockets in libraries.
* **Lifecycle.** Its part in the drains of `TokenRefresh` and `ResetWarmup` is
  modelled, the rest is process start and stop.
* **Route quality.** Scores without a property to violate.
* **SeaORM backend.** The same statements on another driver; the payload queue
  is off with it.
* **Adapters, rewriting, model catalog, profiles, skills, launcher, web server,
  desktop UI.** Formatting, data, files and presentation.
