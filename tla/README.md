# token.place: a TLA+ verification project

token.place is a relay for end-to-end encrypted inference. A client encrypts a
request for a compute node, the relay queues the ciphertext, the node polls for
it, computes, and posts an encrypted answer that the client retrieves by
polling. The relay sees only keys, identifiers and ciphertext: its work is the
*lifecycle* of requests and nodes, under concurrent HTTP handlers, leases,
deadlines, cancellation and nodes that come and go. A compute node is a process
tree of its own: poll threads, a supervisor per inference, one llama.cpp child
that may die at any moment, and an operator who may stop it at any moment. This
project models both sides, and the path of a request between them.

## 1. Inventory

### Components, their state and their operations

| Component | State | Operations | Module |
|---|---|---|---|
| **Relay state store**, `relay_state_store.py` | node records, scheduler cursors; reservations, queue, claims; responses, terminal records, tombstones; fences, pending node transitions; a per-operation reaper | register, renew, unregister, expire; select-and-reserve, enqueue; claim, renew claim; accept, retrieve, acknowledge; cancel | `RelayStateStore` |
| **Live relay, API v1 lifecycle**, `relay.py` | `known_servers`, queues, in-flight tables, pending marks, responses, progress, terminal records, tombstones, under eight locks | register, unregister, evict, submit, poll, cancel, response, progress, control, retrieve | `RelayApiV1`, `RequestLifecycle` |
| Live relay, server selection | registry, load, two round-robin cursors | next server by model, tier and load | `RelaySelection` |
| Live relay, legacy and streaming routes | sessions, and the queues it shares with API v1 | faucet, sink, source, retrieve, stream source/retrieve | `RelayLegacy` |
| **Compute-node relay client**, `relay_client.py` | stop flags, mutation latch and count, registration evidence, credentials, the current request | poll, register, fail over, heartbeat, supervise, submit, stop, unregister | `RelayClient` |
| API v1 inference, `relay_client.py` | the request's options and budget; keywords the runtime rejected | validate, budget, call with retries, judge the output | `ApiV1Inference` |
| Progress updates, `relay_client.py` | publisher per request, one HTTP worker with one slot | submit, stop, post | `ProgressPublisher` |
| Compute-node runtime, `compute_node_runtime.py` | readiness, profile ladder | ensure ready, recover, start, stop | `RuntimeReadiness` (and the client and bridge) |
| **Desktop bridge**, `compute_node_bridge.py` | per relay: client, poller, worker, cleanup; one runtime, its recovery | warm load, poll, recover, cancel, clean up, report | `ComputeNodeBridge` |
| **Model manager**, `model_manager.py` | worker slot, cancellation epoch, lifecycle barrier; pipe tables; model file and receipt | construct, call, recover, cancel, change profile; send, route, close; download, verify; completion ladder | `ModelManager`, `LlamaProxy`, `ModelArtifact`, `PlainCompletion` |
| API v1 routes and providers, `api/v1` | none beyond the call | check, choose a provider, enqueue, poll, cancel, fall back | `ChatRequest` |
| Rate limiting, `api/__init__.py` | counters per address and identity | test, hit, roll back | `ControlPlaneLimiter` |
| API v2 streams and the client helper, `api/v2`, `utils/crypto_helpers.py` | stream sessions, cached events | stream, seal, reconnect, fall back | `ChatStream` |
| Desktop operator (Rust), runtime setup, community queue, monitors, configuration, browser client, benchmark, packaging | | | not modelled, section 5 |

`PROJECT.json` gives each of them with its sources, its status and what is left
out.

### What is hard here

* **Interleaving.** The relay runs in one process with several threads. A poll
  takes a request out of the queue under one lock and records it as in flight
  under another; eviction revalidates candidates it found earlier; retrieval
  looks in two places. In the node, a poll thread, a heartbeat, a supervisor
  and a stopping thread share one client object without a common lock.
* **Races for the outcome.** Cancel, deadline, node removal and response all end
  a request. One must win, the others must see it, and the worker must be told.
* **Shutdown.** A stop meets registrations in flight, a warm load, a recovery of
  the runtime, a poll that went on after its loop gave up. What it reports must
  be true of the relays.
* **Processes that die.** The llama.cpp child dies, hangs or survives a kill;
  callers, the reader of its pipe and the replacement must not meet in the wrong
  order.
* **Time.** Leases, deadlines, replay windows, tombstones and terminal records
  run out independently, with inclusive boundaries.
* **Partial failure.** A sweep of the store raises half way when a table is
  full; a download crashes before its rename; replies are lost after they took
  effect; streams break and start again.
* **Identity over time.** A node id is registered again with another credential
  while work and stop instructions of its predecessor are around; a claim, a
  runtime, a stream session is replaced by a newer one.
* **Progress.** In the relay nothing runs in the background: what is overdue is
  decided only when another operation comes in.

The hazards, each at its line and with the properties that would notice it going
wrong, are listed in `PROJECT.json`.

### What makes a component correct

* The store: one state and one outcome per identity, exact indexes, fenced
  claims, replayable responses, bounds that hold, no work without a node, removed
  owners kept out, every request decided, every removal finished.
* The live relay: a request in one place at a time, none stranded, none both
  answered and terminal, owners told to stop, every requester answered; in one
  sentence, it implements `RequestLifecycle`.
* The node: a stop that reports success leaves behind nothing it knows of, an ended
  request is not answered, one llama.cpp worker in the slot at a time, no request is
  left in a call on a cancelled worker, a node that never warmed up is not listed,
  nobody waits for a dead worker.
* The request path: limits that are exact under concurrency, equals that take
  turns, options and windows respected through every retry, no reasoning
  released, no request abandoned, no stream silently cut.

## 2. Modules

Definitions named `X_Y` and commented "Fault" are not part of a model: each is a
plausible mistake in `X` that makes a stated property fail (`mutants` in
`PROJECT.json`), which shows that the property has something to say about `X`.
`MC...` modules instantiate the others for TLC: `MCRelayStateStore`,
`MCRelayApiV1`, `MCRelayClient`, `MCModelManager` and `MCComputeNodeBridge` one
module each, `MCNodeStart` and `MCRequestPath` a composition. `NodeStart` composes the
parts of a compute node's runtime (`ModelArtifact`, `RuntimeReadiness`, `LlamaProxy`,
`PlainCompletion`, `ApiV1Inference`, `ProgressPublisher`) and `RequestPath` the stations
of a request outside the node (`ControlPlaneLimiter`, `RelaySelection`, `ChatRequest`,
`RelayLegacy`, `ChatStream`). The composed modules share no state: a behaviour chooses
one of them in its initial state (`part`, `station`) and the others stay where they
start. `..._proofs` modules hold
theorems only (section 4). `ListFilter` has the list comprehensions with a condition
that the relay, the relay client and the streaming client use; it is written with
ranks instead of a recursion, so that it can be reasoned about.

### `RelayStateStore`

**State.** One variable per dictionary of the class, plus the clock (`now`), who
is inside the lock (`lock`) and the loop variables of the reaper (`due`,
`expired`, `tearing`, `batch`, `swept`). Digests, envelopes and identifiers are
model values; node ids are naturals because the code sorts them.

**Steps.** Every public method takes one lock, reads the clock once and first
cleans up: `_reap_locked` (most operations) or `_expire_locked` (registry
operations). `Enter(phase)` takes the lock and does the straight-line part of the
cleaning; each iteration of a loop (`DueStep`, `LeaseStep`, `BatchStep`,
`EndTransition`, `SweepContinue`) is a step; then the body of one operation runs
and releases the lock. The loops are separate steps because one of them can
raise half way (`LeaseStepRaises`): what the exception leaves behind is a
reachable state. As nobody else can enter, the cut adds no interleaving. Which
operation follows is chosen when its body runs; the cleaning does not depend on
it. Read-only calls are `Release`.

**Abstractions.** One integer clock stands for the injected epoch clock and never
goes back (hazard list, line 2547). Argument validation returns before the lock
is taken and is left out. The reservation and insertion token is the activity
counter that `secrets` tokens stand for: only its uniqueness matters. `MaxNow`,
`MaxActivity`, `MaxGeneration` and `MaxOrder` cap the clock and the counters.

**Branches the model shows to be unreachable**: the skip branches of the batch and
deadline loops (`LoopsFresh`), and the defensive repair in response retrieval
(`ReplayConsistent`).

### `RelayApiV1` and `RequestLifecycle`

**State.** One variable per module-level dictionary of `relay.py`, `thread` (where
each request thread is in its handler, with its locals), `work` (what nodes were
handed: they may post a response, progress or a control call for any of it, late
or twice) and `client` (what the requester has heard).

**Steps.** A handler is cut where another thread can be seen to interfere:

| Handler | Steps |
|---|---|
| `_evict_stale_servers` (start of submit, poll, control) | `Call`: expire overdue requests, prune, collect stale nodes; then one `Evict` per candidate, which looks again |
| `/servers/register`, `/servers/unregister` | `Register`, `Unregister` |
| `/servers/poll` | `Heartbeat`, `Pop`/`DropOverdue` (the wait loop), `Claim`, `Insert` |
| `/servers/control` | `Control` |
| `/requests` | `Admit` (pending mark), `Enqueue`, under the server lock throughout |
| `/requests/cancel` | `CancelLookup` (token), `CancelRequest` |
| `/responses`, `/progress` | `Response`, `Progress` |
| `/responses/retrieve` | `Retrieve` (terminal record, pop), `Settle` (pending recheck) |

A section under `api_v1_terminal_transition_lock` is one step. Threads outside
that lock can touch the same dictionaries only in `Pop`, `Insert`, `Admit`,
`Enqueue`, `Register` and `Retrieve`; each such access meets one of the section's
own accesses and commutes with the rest, so it can be moved before or after the
section. The only lock that has to be represented is `server_round_robin_lock`
while submit holds it (`ServerLockFree`).

**Abstractions.** The three clocks of the code (monotonic, wall, datetime) are
one. A request is a fresh (client key, request id) pair, as all clients of the
repository use a new uuid per request; a deadline is taken when the request is
admitted, an instant after the code computes it. The wait in a poll is a
condition variable with a timeout: `Pop` waits for a request or for the poll's
own deadline. **Bounds**: `MaxTime` and `MaxCredential`; a request is submitted
early enough for its deadline to fall inside the modelled time, and no poll waits
beyond it.

**What it promises.** `RequestLifecycle` has the stage of each request, what its
requester was told, and which requests have a remembered terminal record. A request is
`absent`, `pending`, `withdrawn` (ended, while a thread or a node still has it),
`answered` or `over`. It is admitted once and answered at most once, never while a record
says it ended; a requester takes one final answer, hears `gone` only of a recorded
request or at the moment it ends, and `unknown` only of one that is neither pending nor
recorded; what is over never comes back. In `relay.py` the stage is written down nowhere:
it is read off the pending mark, the queue, in-flight and response tables, the hands of
the threads, the terminal records and what the requester has heard (`Stage`, `Told`).
`ImplementsLifecycle` is the refinement, with that mapping; `ChatRequest` is a requester
built on the same promise. The lifecycle has one ugly move, because the code has it: a
withdrawn request may still be answered once its record is forgotten (observations).

### `RelayClient`

**State.** The fields of the `RelayClient` object that its threads share: stop
flags, mutation latch and count, registration evidence, heartbeat freshness,
credentials, the active relay, the relay of the current work; one record per
thread (`poll`, `hb`, `op`, `sup`); and, outside, which relays really hold a
registration (`atRelay`).

**Steps.** An HTTP call is two steps, the send and the handling of the reply, so
that anything may happen in between; the relay may have acted although the reply
is lost (`RegisterRaises`, `UnregisterUnconfirmed`). Poll thread: `Start`,
`PollStart`, `PollCandidate` to `BookRegistration` (registration of the next
candidate), `SendPoll`, `PollReply`, `ApplyPoll`, `BeginRequest`, `Supervise`,
`AwaitControl`, `TerminateWorker`, `ReturnFromSupervisor` or `AbandonFutures`,
`Submit`, `PostResponse`, `PostReplied`, `FinishRequest`, `JoinHeartbeat`.
Heartbeat: `Heartbeat*`. Stop: `StopFlags`, `StopLatch`, `StopDecides`, the
mutation barrier, one `Unregister*` per relay, `NewSession` (reuse of the object).

**Abstractions.** Ages and deadlines are flags that may turn at any time; wait
hints and sleeps are left out. `FatalWired` tells the desktop bridge, which ends
the process when an inference cannot be stopped, from `server.py`, which does not.

### `ApiV1Inference`, `ProgressPublisher`

`ApiV1Inference` follows `_generate_api_v1_response_with_runtime_model`: the
validation of messages and options in the order of the code, prompt budget, the
call with the keyword that was rejected removed, the judgement of the output. What
requests leave for each other is the cache of rejected keywords, per runtime
object, and the tokenizer diagnostics. A recovery may put another runtime in
place at any step; Python may give it the identity of the old one (`RuntimeIds`).

`ProgressPublisher` has a publisher per request and the one HTTP worker of the
process; `submit` checks under the publisher's lock and hands over under the
worker's condition, so a stop fits in between.

### `ComputeNodeBridge`

`run()` of the desktop bridge: the stdin reader (`Cancel`, `Signal`), the main
thread (warm-load gate, `Watch`, `CancelFirst`/`CancelSecond`, `StartCleanup`,
`Collect`, `Drain`), and per relay a poll loop, its poll worker and a cleanup
thread. The poll worker is a thread of its own because it goes on after the loop
gave up on it, and what the loop hands it waits (`queued`) until it runs, which may
be after the client was latched. A poll loop whose request left the runtime broken becomes the
coordinator of a recovery (`Coordinate` to `Revive`), the others `Join`. A relay
client appears here as its latch, its evidence and its mutation in flight, by the poll
worker or, while a request is served, by the heartbeat; `RelayClient` has the rest.
`outcome` is what the final event says.

A poll or a registration that raises costs an unlatched client its evidence although the
relay may list the node (`WorkerPolls`, `Raised`); so does the restart of a latched
client by a recovery (`Revive`). `lost` remembers such relays until the next
registration. A latch that raises leaves the client unlatched with a false result
(`Latch`), and a cleanup whose barrier fails or raises counts as failed. `Flaky` bounds
the relays whose clients' calls may fail in these ways. The bridge remembers successful
registrations on its own (`succeeded`), so a client that has lost its evidence
unregisters nothing and its cleanup still counts (`dropped`).

### `ModelManager`, `LlamaProxy`, `ModelArtifact`, `PlainCompletion`, `RuntimeReadiness`

* `ModelManager`: the one worker slot. A step is one section under `llm_lock`, one
  unlocked read of `self.llm`, one RPC or one teardown; only construction holds
  the lock over more than one step. Inference threads (`Requests`; the `Warm` ones
  only want the runtime), cancellers, and the readiness check that changes the
  profile. The worker dies (`WorkerDies`) or its pipe breaks (`TransportBreaks`) at
  any moment, and a kill may fail. A construction publishes its worker and then
  succeeds or drops it (`InitPublishes`, `InitSucceeds`, `InitDrops`), or it fails before
  and may leave its process running, as the constructor's close does not wait for the
  kill; the next profile is then built at once (`InitFails`). Processes left in these
  two ways are `stray`.
* `LlamaProxy`: the pipe below it: callers serialised by `_lock`, one reader that
  routes frames to per-command queues, late frames of commands that gave up,
  end-of-file.
* `ModelArtifact`: several node processes over one models directory; check, hash,
  download to a temporary file, rename, receipt. A process crashes between any two
  steps (what it leaves is what the next start finds), and the file may be
  overwritten from outside at any time, with any modification time. A file that cannot
  be read is downloaded again, as one that is wrong. Temporary files are left out:
  each download has its own and nobody reads what a crash leaves.
* `PlainCompletion`: the ladder of call forms the worker tries on a llama.cpp build
  of unknown signature, and the judgement at the end of each stage.
* `RuntimeReadiness`: `ensure_api_v1_runtime_ready` with the ladder of profiles (every
  requested batch class, Q8 and Q4 each with or without its KV constant, and the single
  unlisted profile of a CPU); the manager's cursor and attempt list outlive a call.
  `get_llm_instance` may fail before the list exists. Another thread may cancel the
  worker under the smoke test, which then rebuilds it from the cursor, up to three
  walks, perhaps on another profile or in vain (`SmokeRebuilds`).

### `ChatRequest`, `ChatStream`, `RelaySelection`, `RelayLegacy`, `ControlPlaneLimiter`

* `ChatRequest`: the checks of the two handlers in their order, the provider chosen
  from the environment and the request, and the relay provider: choose a node,
  post, poll until a deadline, cancel, fall back. The relay is `RequestLifecycle`
  over a connection that loses calls on either side; an envelope may be admitted
  after its sender gave up. The race inside retrieve (section 3, finding) is part of
  the relay it sees.
* `ChatStream`: the iterator of `CryptoClient.stream_chat_completion` and the API v2
  endpoint that answers it. Every connection runs the completion again under a new
  stream session, whose key travels with the first chunk only.
* `RelaySelection`: registration order, filters, best tier, least load, and two
  cursors, one over all nodes and one per list of equals. A choice reserves nothing.
* `RelayLegacy`: the old routes over the queues and the response table that API v1
  uses too, with the batch steps of sink and the two steps of unregister. An API v1 poll
  on such a queue takes the first envelope and drops every legacy request with it, or
  takes a legacy request when there is no envelope (`PollTake`).
* `ControlPlaneLimiter`: buckets per address and identity; `test`, `hit` and rollback
  are separate steps of concurrent threads, and a window may end between them. The
  storage is the limits library's (external); whether it can decrement (`decr`) is chosen
  initially, and without it a rollback leaves the charge. Storage calls that raise are
  left out.

## 3. Runs

| Run | Instance | What it shows |
|---|---|---|
| `store_lifecycle` | 1 node, 2 requests of one client, 2 deadlines, 4 instants, 3 reservations, 2 claims; room for one response, one terminal record per client, one tombstone | `TypeOK`; `LifecycleExclusive`; `RetainedSound` (bounds hold, responses agree with terminals, no stop instruction meets a fresh lifecycle, deferrals are still due); `OutcomeKept` (one outcome, nothing silently dropped, responses replayable); `WorkerFenced` (a running claim is kept, an ended one is announced) |
| `store_sweep` | 2 nodes, 2 credentials, 2 requests, batches of one, room for one terminal record and one transition | `IndexExact`; `TeardownSafe` (no work without a node, claims belong to the current owner, removed owners stay out, a continuation finds its fence); `LoopsFresh`, also after a sweep that raised |
| `store_scheduler` | 2 nodes, 2 fingerprints, room for one cursor, 3 requests | `SchedulerSound`: cursors point at registered nodes, rotation is fair |
| `store_progress` | 2 nodes, 2 requests, 1 claim, room for every record; fairness | every request is decided, every removal finishes |
| `api_lifecycle` | 1 node, 1 request, 2 threads, 2 credentials, 4 instants, deadline 2, terminal retention 1, leases 1; fairness | `NoStrandedRequest`; `RecordsAgree` (types, one home per request, no work at absent nodes, none both answered and terminal); `OwnerIsTold`; `ImplementsLifecycle`; `RequestAnswered` |
| `client_safety` | 2 relays, teardown callback wired | `NoGhostRegistration`, `TerminalNeverSent`, `NoAbandonedInference` |
| `client_progress` | 1 relay, no teardown callback, polling gives up after 2 failures; fairness | `StopCompletes`, `RequestEnds` |
| `manager_slot` | 2 requests and a canceller; a request and a readiness check; a warm load and either; 2 worker processes; fairness | `SingleWorker`; `CancelledRequestEnds` (no request stays in a call on a worker that is out of the slot; a cancelled one is not retried) |
| `bridge` | 2 relays, one of them `Flaky`, one request each, warm load, 1 recovery attempt; fairness | `NeverListedCold` (no relay lists a node whose first warm load did not succeed), `HonestOutcome`, `StopEndsRun` |
| `node_start` | 2 processes and 2 writes of the model file; every profile ladder, 2 readiness calls; every llama.cpp shape with up to 3 tokenizations; a call and a stream of 2 frames beside the constructor's commands; inference: 2 requests, 2 runtimes, window 2; progress: 2 publishers, 2 updates; fairness | `ReceiptSound`; `ReadinessEnds`; `LadderStops`; `DeadWorkerAnswersAll`; `CallHonoursRequest`, `NoReasoningReleased`; `StoppedStaysQuiet` |
| `request_path` | limiter: 3 threads, address limit 2, identity limit 1, 2 window ends, with and without decrements; selection: 3 nodes, 2 tiers; chat: 6 environments, 10 instants, 2 lost calls; legacy: 2 servers, 1 client, 3 chunks; stream: 3 chunks, 2 retries | `BudgetExact`; `EqualsRotate`, `TurnSurvivesRemoval`; `AdmissionRestartsClock`, `NoAbandonedRequest`; `SessionsReachable`; `StreamSound` (a partial response carries all that was received, sealed chunks open, the answer is whole or its failure told, posts bounded) |
| `chat_unknown` | `request_path` with nobody at the other stations | **violated**, see the finding |

**Why the bounds are enough to be interesting.** In the relay runs each period is
shorter than the modelled time, so that leases, deadlines, replay windows and
retentions run out while other things happen; as in the deployed defaults (300 s and
480 s) a terminal record of the live relay goes before the deadline does. The
store's capacities are one where a run is about capacity, so the full branch is
taken. Two identities are what one capacity, one batch and one tie need. In the
live relay a request meets other requests only in a node's queue and in the shared
cleaning, and two threads give every pair of handlers; an instance with two requests
(deadline 1, three instants, 1.7 million states) was also explored, the refinement
included, without a violation. Two
relays are what failover and a shared runtime need, two workers what a
replacement needs. Three nodes let a cursor point past a removed one. Three
threads let a rollback, a hit and a test meet at one bucket. Two retries distinguish
a failed from a lost connection and from the fallback.
Credentials and request ids of the store are symmetric; node ids are sorted by the
code and are not. The liveness runs use no symmetry.

**What stops.** `request_path` and `chat_unknown` end where their requests do
(`CHECK_DEADLOCK FALSE`): a chat request or a stream is one call and ends, and the
bounds on posted items and windows end the others. Every other run checks for
deadlock; in `node_start` the inference and the publishers, whose requests and updates
are bounded, may rest (`Rest`).

**Fairness.**

* Store: an operation that holds the lock finishes (`WF LoopStep`, the loops are
  finite and never block); time passes, and operations that clean up and
  `expire()` keep coming (`SF`, as each competes for the lock with others). No client,
  worker or operator is assumed to retry.
* Live relay: a handler that has started finishes (`WF Step`), time passes, and a
  requester that waits keeps retrieving and is served in turn (`SF Retrieve`). Without
  a requester that asks, nothing is promised and the code promises nothing.
* `RelayClient`: its threads run, HTTP calls return (each has a timeout), a request's
  deadline passes. Nothing makes an inference end or a relay answer well.
* `ModelManager`: threads run, and constructions, teardowns and broken calls return,
  as each has a timeout; the model need not answer.
* `ComputeNodeBridge`: only the main thread runs and time passes. Workers, relays,
  requests and the model may hang for good.
* `LlamaProxy`: the reader and the callers run; no timeout is assumed to fire.
  `RuntimeReadiness`: the readiness call takes its next step.

### Finding

*404 means unknown.* The provider reports "relay reported unknown API v1 response
request id" (`api/v1/compute_provider.py:486`) and fails the request or computes it
again; the tests say the same. `api_v1_relay_retrieve` looks for the response
(`relay.py:3409`) and for the pending mark (`:3420`) under two locks. A response that
is accepted in between is queued and removes the mark, so the handler answers 404
with the answer in its table, where it then stays. `chat_unknown` is the run.

### Observations

Other places where the models met something worth a reader's attention; none of them
breaks a property above.

* *"One already-started transition is advanced per sweep"*
  (`relay_state_store.py:2145`): not when the table of pending transitions is full and
  one more lease has expired, as the lease loop raises before the continuation.
* *"Absolute request deadlines are lifecycle authority and must win"*
  (`relay_state_store.py:2174`): operations that only clean up leases tear a node down
  without the deadline reap, so an overdue request is recorded as cancelled.
* A cancel between a poll's pop and its in-flight entry wins, yet the owner is told
  `active` until the deadline (`relay.py:3019`; `api_v1_compute_control.md:39-40` says
  otherwise).
  The request is `withdrawn`. Its terminal record is kept for less time than the deadline
  by default, and once it is pruned the node's late response is accepted, against
  `api_v1_compute_control.md:50`; `RequestLifecycle` allows this move and no other.
* The final event can say `complete` while a relay lists the node: a poll raised, the
  client discarded its registration evidence (`relay_client.py:2528-2543`), and at the
  stop `unregister_from_relay` found nothing to do and returned true without a call
  (`:1690-1693`), while the bridge's own record made the cleanup a required one. No
  document says that it cannot happen; the relay's lease ends the listing. `HonestOutcome`
  excepts these relays (`lost`) and the clients that a recovery restarted after the stop
  (`excused`). `NoGhostRegistration` has the same exception for evidence lost.
* `NeverListedCold` is about the first warm load. After a recovery or a bad verdict a
  relay may list the node while the state is `recovering` or `failed`: pollers leave at
  the top of their loop, and the unregistration before a recovery is best effort.
* `SingleWorker` excepts the change of profile, which raises no barrier and drops the
  verdict of its close, and does not count strays: a failed constructor's close signals
  its child and does not wait after the kill (`model_manager.py:3458-3473`), and an error
  after the publication empties the slot without closing the worker (`:7128-7129`).
* A request cancelled after it got the runtime and before it noted the epoch
  (`model_manager.py:7767`) leaves the killed worker and is then retried.
* `ReceiptSound` excepts a file overwritten between its hash, or its replacement by the
  download, and the stat of the receipt, and one overwritten with the size and
  modification time it had: a receipt bound to a stat cannot see either.
* `BudgetExact` allows for rollbacks that cross the start of a window, and demands that
  refused requests leave no charge only where the storage can decrement
  (`api/__init__.py:465-470`).
* `partial_response` repeats the chunks of every connection; the body of a failed
  fallback is yielded as a response; a stream that ends without `[DONE]` counts as
  complete (`cut` in `ChatStream`).

## 4. Proofs

Every safety property that a passing run checks, invariant, action property or
refinement, is also a theorem, for every value of the constants that its hypotheses
allow. TLC's runs show them on small instances and show, by the mutants, that they can
fail; the proofs say that the size of the instance does not matter.

| Module | Theorem | Statement |
|---|---|---|
| `RelayStateStore_proofs` | `TypeCorrect`, `LifecycleIsExclusive`, `IndexesAreExact`, `LoopsAreFresh` | `Spec => []TypeOK`, `[]LifecycleExclusive`, `[]IndexExact`, `[]LoopsFresh` |
| | `TeardownIsWhole` | `Spec => []TeardownSafe` |
| | `RoundRobinIsFair` | `Spec => []SchedulerSound` |
| | `RetainedIsSound` | `Spec => []RetainedSound` |
| | `OutcomesAreKept`, `WorkersAreFenced` | `Spec => OutcomeKept`, `Spec => WorkerFenced` (action properties) |
| `RelayApiV1_proofs` | `TablesAgree`, `NothingStranded` | `Spec => []RecordsAgree`, `[]NoStrandedRequest` |
| | `OwnersAreTold` | `Spec => OwnerIsTold` (action property) |
| | `RefinesLifecycle` | `Spec => ImplementsLifecycle` (refinement of `RequestLifecycle`) |
| `RelayClient_proofs` | `NoGhostIsLeft`, `EndedRequestsStayUnanswered`, `InferenceIsSupervised` | `Spec => []NoGhostRegistration`, `[]TerminalNeverSent`, `[]NoAbandonedInference` |
| `ComputeNodeBridge_proofs` | `ColdNodesStayUnlisted`, `OutcomeIsHonest` | `Spec => []NeverListedCold`, `[]HonestOutcome` |
| `ModelManager_proofs` | `OneWorkerAtATime` | `Spec => []SingleWorker` |
| `NodeStart_proofs` | `ReceiptsAreHonest` (`ModelArtifact`), `TheLadderStops` (`PlainCompletion`) | `Spec => []ReceiptSound`, `NodeSpec => LadderStops` |
| | `CallsHonourRequests`, `ReasoningStaysInside` (`ApiV1Inference`) | `NodeSpec => []CallHonoursRequest`, `[]NoReasoningReleased` |
| | `FinishedRequestsStayQuiet` (`ProgressPublisher`) | `NodeSpec => []StoppedStaysQuiet` |
| `RequestPath_proofs` | `EverySessionIsReachable` (`RelayLegacy`) | `Spec => []SessionsReachable` |
| | `NoRequestIsAbandoned`, `TheClockRestarts` (`ChatRequest`) | `Spec => []NoAbandonedRequest`, `[]AdmissionRestartsClock` |
| | `EqualNodesTakeTurns`, `TheTurnSurvives` (`RelaySelection`) | `Spec => []EqualsRotate`, `Spec => TurnSurvivesRemoval` |
| | `BudgetsAreExact` (`ControlPlaneLimiter`) | `Spec => []BudgetExact` |
| | `StreamsAreSound` (`ChatStream`) | `Spec => []StreamSound` |
| `ListFilter_proofs` | lemmas | what filtering, extending and cutting a list returns |

### Hypotheses

The `ASSUME`s of the modules, which TLC evaluates on every run:

* `RelayStateStore`: `ConfigAssumption` (every bound and period positive; terminal
  records retained at least as long as responses and tombstones, as
  `RelayStateStoreConfig.__post_init__` requires), `ConstantsAssumption` (node ids, tiers
  and deadlines are naturals, `None` is none of them, records have their fields) and
  `FinitenessAssumption` (what the store counts is finite).
* `RelayApiV1`: `PeriodAssumption`: the periods are natural numbers, deadline, terminal
  and tombstone periods positive.
* `RelayClient` and `ComputeNodeBridge`: the relay targets are a non-empty list, the
  bridge's without repetition, as it starts one poller per distinct target.
  `ModelManager`: finite, disjoint sets of threads. In each, `None` is no other value.

For the modules that are only instantiated, the hypothesis is a definition beside the
theorem:

* `ChatConstants`: periods are whole ticks, and two polls fit into the response grace:
  0.5 s at most (`api/v1/compute_provider.py:255`) against 5 s
  (`utils/inference_timeout.py:7`).
* `InferenceConstants`: the window is a number and the default maximum a positive one
  (1000, `utils/config_schema.py:157`).
* `LimiterConstants`: limits are numbers of requests.
* `StreamConstants`: a number of chunks, and retries that are not negative, which
  `stream_chat_completion` checks.
* `NoneIsNoOutcome`: `None` is not the outcome of a completion attempt.

Bounds such as `MaxTime` or `MaxItems` are at most required to be numbers: the theorems
hold for each value, and so for behaviours of any length. The values in the `.cfg` files
satisfy all of these hypotheses.

### Arguments

Each proof has an inductive invariant, the lemma that every action preserves it (one
step per action, and below it one per part the action can disturb), and a short
temporal conclusion. In the compositions the invariant is that of one part, and lemmas
such as `StreamSteps` say that a step of the composition is a step of that part or leaves
it alone. Hardly any of the properties is inductive as the runs state it; what has
to be added is the actual reason why it holds.

**`RelayStateStore`.** `IInv == TypeOK /\ LifecycleExclusive /\ IndexExact /\ PhaseOK /\
LoopsFresh`. Exclusiveness needs the loops to be fresh: a deadline step or a batch step
writes a terminal record for an identity it read earlier in the operation, which is
sound only if that identity is still live. Freshness needs the node index to be exact,
as a batch is read from the index and not from the work itself; the index is exact only
if an identity is in one of reservations and queue. Freshness also needs that the
deadline loop is over before a teardown starts and that no loop variable survives the
release of the lock, also when the sweep raises (`PhaseOK`). On top of it:

* `TeardownInv` adds why a removed owner stays out: its stop instructions are covered
  by the owner fence or, until the last batch has run, by the pending transition that
  will write the fence (`StopsFenced`), and no current owner is fenced (`OwnersUnfenced`).
* `SchedulerInv`: the order of the next registration is above every order issued, so the
  cursor, which remembers an order, separates the tied nodes into before and after.
* `OutcomeInv`: a replayable response has a terminal record that outlives it
  (`ReplaysCovered`), a claim ends no later than its request's deadline
  (`ClaimsCovered`), and while the reaper runs, what is due is in its list or deferred
  (`DuesFound`). The action properties follow from it step by step.
* `BoundInv`: each table within its capacity, counted over finite sets. The retained
  tables stay bounded although a decision adds to several of them at once, because the
  decision is refused or deferred when one is full.

**`RelayApiV1`.** `RequestOK(r)` says of one request where it may be at once: queue, hands
of a thread between two locks, in-flight table, responses, nowhere. `pending` implies one
of the first three. The hands are what the tables alone do not show. `ShapesOK` and
`SubmitsOnce` tie a thread's position to its locals. The refinement maps a request to its
stage, what was told and whether it is recorded; every step moves one request by one step
of `RequestLifecycle`, or expires several, or leaves them. For what a requester hears to
be true of the stage, the invariant also says that a requester waits for or has heard of
admitted requests only, and that a recorded outcome is one of an admitted request that is
no longer pending.

**`RelayClient`.** `BarrierOK`: the mutation counter is the number of registrations and
responses in flight, and none begins after the latch; `EvidenceOK`: what a relay holds is
in the evidence or was lost with a reply, and what an unregistration has not failed on is
still in its list; `OutcomeOK` and `InferenceOK` say where verdicts and inferences may be.

**`ComputeNodeBridge`.** `GateOK`: no poller before the gate, and with warm load a gate
that opens on the model; `LatchOK`: a client that was reported latched stays latched
unless a recovery restarts it; `CleanupOK`: a relay whose cleanup is over has no evidence
and no poll or heartbeat that could renew it, be it a poll that is only queued; and a
relay that lists the node without evidence at its client is one of `lost`, which only a
new registration removes.

**`ModelManager`.** `SlotOK`: the slot is empty while a worker is built or the barrier is
up, a construction runs only with the barrier down, and the barrier belongs to the one
cleanup there is; `ProcessesOK`: every running process that is not a stray is in the slot
or is being torn down, besides the victims of a profile change.

**`NodeStart`.** `ArtifactInv`: what a process has verified and nobody has overwritten is
what the path holds, since other processes only ever put the pinned body there.
`LadderInv`: what stops the ladder is still known when the next attempt is considered.
`InferenceInv`: an admitted budget keeps the request's maximum and what the window
leaves, and the normalisation of a completion leaves no tag in it, which is a fact about
sequences of any length (`NormalizedIsUntagged`: empty wrappers are cut from the front,
what then still has a tag is refused, and dropping the end marker adds none).
`ProgressInv`: an update that is overdue is never cleared for posting.

**`RequestPath`.**

* `LegacyInv`: ids that wait are handed out once, over queues, hands and sessions; what a
  poll leaves of a queue is part of it (`EntriesWithin`).
* `ChatInv`: what the provider's position tells of the relay's record (`KnowledgeOK`), and
  that it polls in time (`PollsInTime`): the deadline it took when the enqueue returned
  lies `Grace` after the relay's.
* `SelectionInv`: the choices among a list of equals form a round (`Round`): the node at
  the cursor has not been chosen in it, and none was chosen before one that comes later
  from there. A choice moves the cursor by one and keeps the round; the list of equals is
  without repetitions because registration keeps it so.
* `LimiterInv`: for each bucket the counter, the admissions charged, the open hits of all
  threads and the stray rollbacks balance (`Balanced`), the upper side only where the
  storage can decrement; a refused request's hits leave the balance one by one.
* `StreamInv`: until the fallback the cache is what was yielded; the keys are those of
  past connections, and of the present one from its first chunk on; what the present
  connection yielded is the beginning of the answer; every request made is the first, a
  retry or the fallback.

### Only model-checked

Liveness under fairness is beyond the prover: `RequestDecided`, `TeardownCompletes`,
`RequestAnswered`, `StopCompletes`, `RequestEnds`, `CancelledRequestEnds`, `StopEndsRun`,
`ReadinessEnds` and `DeadWorkerAnswersAll` stay with TLC, on the instances of section 3.
Proofs are about the models' sequences as functions: that a Python comprehension is
`EntriesAt` is a matter of translation and not of proof.

## 5. Not modelled, and why

* **Desktop operator, sidecar and forwarding** (Rust): the host keeps a process handle
  behind a mutex and user-interface plumbing; the child's side of that contract is
  `ComputeNodeBridge`.
* **Desktop runtime setup**: a sequential installer whose behaviour is that of pip,
  compilers and platform probes.
* **Community queue, monitors, configuration, packaging, benchmark harness**: file I/O,
  sampling, parsing and scripts without a protocol.
* **Browser chat client**, and `send_chat_message`/`retrieve_chat_response` of the
  client helper: bounded loops over the calls that `ChatRequest` makes.
* **The legacy polling loop** of `relay_client.py`, which API v1 nodes do not run.
* **More than one relay process**: the dictionaries are per process, and the
  deployment runs one worker. The state store is the intended remedy.
* In the live relay: reuse of request ids, requests without id or cancel token; in the
  node: hardware probing, prompt rendering and diagnostics records. Formatting,
  cryptography, metrics and logging carry no lifecycle.
* `client_responses` has no expiry, and retrieval removes a response before the reply
  has arrived: recorded as hazards, ruled out by no document.

## 6. Plan

The models are complete up to section 5, and their safety properties are proved. What is
left:

1. The safety part of what only liveness properties cover so far: in `LlamaProxy`, that a
   frame reaches only the command it answers and that closing leaves no caller
   registered; in `RuntimeReadiness`, that the cursor never moves back within a call.
   Both need a property that a run checks first.
2. The decreasing measures behind the liveness properties (a batch shrinks its node's
   work, a retry consumes an attempt) as action properties, so that fairness is all that
   is left to TLC.
3. The refinement of the store to `RequestLifecycle`, with the stage of an identity read
   off reservations, queue, responses and terminal records.
