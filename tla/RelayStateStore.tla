---------------------------- MODULE RelayStateStore ----------------------------
(***************************************************************************)
(* relay_state_store.py: InMemoryRelayStateStore, the transition-oriented  *)
(* contract every relay state backend has to meet.                         *)
(*                                                                         *)
(* Every public operation takes the store's one lock, reads the clock      *)
(* once, reaps what is due at that instant and then runs its own body.     *)
(* The variable lock says how far the operation that holds it has come:    *)
(*                                                                         *)
(*   "free"  nobody is in the store                                        *)
(*   "reap"  inside _reap_locked (select, enqueue, claim, ...)             *)
(*   "ready" _reap_locked is done, the body of the operation runs          *)
(*   "lease" inside, or past, _expire_locked (register, renew, get, ...)   *)
(*   "sweep" inside _expire_locked(continue_pending=True), i.e. expire()   *)
(*   "node"  inside one explicit _transition_node_locked                   *)
(*                                                                         *)
(* One loop iteration of the reaper is one step, so an exception half way  *)
(* through a sweep leaves exactly what the code leaves behind.  Which      *)
(* operation runs, and with which arguments, is chosen when its body runs: *)
(* the reaper does not look at them.                                       *)
(*                                                                         *)
(* A definition X_Y commented "Fault" is not part of the model: it is X    *)
(* with a plausible mistake, and some property fails when it replaces X.   *)
(***************************************************************************)
EXTENDS Integers, FiniteSets

CONSTANTS
    Node,           \* node ids; ordered like sorted() orders them
    Cred,           \* control credential digests
    Client,         \* client public keys
    RequestId,      \* request ids
    Consumer,       \* consumer identities
    Model,          \* model ids
    Tier,           \* context tiers, each named by its token bound
    Caps,           \* the capability records nodes register with
    SchedulerState, \* the scheduler facts nodes report
    CancelToken,    \* cancellation token digests
    Reply,          \* encrypted responses, by digest
    Deadline,       \* absolute request deadlines clients ask for
    None,           \* Python's None
    config,         \* RelayStateStoreConfig
    MaxNow,         \* bound: last instant of the clock
    MaxActivity,    \* bound: reservations ever created
    MaxGeneration,  \* bound: claims ever made
    MaxOrder        \* bound: registrations ever made

Identity == Client \X RequestId
Fingerprint == Model \X Tier
Cause == {"explicit_unregister", "registration_lease_expired"}
Phase == {"free", "reap", "ready", "lease", "sweep", "node"}

\* RelayStateStoreConfig.__post_init__: every bound and every TTL is positive,
\* and terminal records outlive response replay and control tombstones.
Positive == Nat \ {0}
ConfigField == {
    "lease_ttl", "max_compute_nodes", "reservation_ttl", "max_request_ttl",
    "max_reservations", "max_reservations_per_client",
    "max_reservations_per_node", "max_queue_depth_per_node",
    "max_request_lifecycles", "max_queued_requests",
    "max_queued_requests_per_client", "max_scheduler_fingerprints",
    "claim_ttl", "max_claims", "max_claims_per_node", "max_responses",
    "max_responses_per_client", "response_replay_ttl",
    "max_terminal_records", "max_terminal_records_per_client",
    "terminal_retention", "control_tombstone_ttl", "max_control_tombstones",
    "max_control_tombstones_per_node", "node_transition_batch_size",
    "max_pending_node_transitions", "max_node_tombstones",
    "node_tombstone_ttl", "max_removed_owner_fences"}
ConfigValid(c) ==
    /\ c \in [ConfigField -> Positive]
    /\ c["terminal_retention"] >= c["response_replay_ttl"]
    /\ c["terminal_retention"] >= c["control_tombstone_ttl"]

ASSUME ConfigAssumption == ConfigValid(config)

ASSUME ConstantsAssumption ==
    /\ Node \subseteq Nat
    /\ Tier \subseteq Nat
    /\ Deadline \subseteq Nat
    /\ Caps \subseteq [models : SUBSET Model, tier : Tier, max_concurrency : Positive]
    /\ SchedulerState \subseteq
         [healthy : BOOLEAN, draining : BOOLEAN, claimed_work : Nat]
    /\ None \notin Node \cup Cred \cup CancelToken \cup Consumer \cup Reply
    /\ MaxNow \in Nat /\ MaxActivity \in Nat
    /\ MaxGeneration \in Nat /\ MaxOrder \in Nat

\* Every client and node set of an instance is finite: the store counts them.
ASSUME FinitenessAssumption ==
    IsFiniteSet(Node) /\ IsFiniteSet(Cred) /\ IsFiniteSet(Identity)
    /\ IsFiniteSet(Fingerprint)

VARIABLES
    now,            \* the injected epoch clock
    lock,           \* see above
    records,        \* node -> ComputeNodeRegistration
    sched,          \* node -> SchedulerNodeState
    order,          \* node -> registration order
    next_order,
    reservations,   \* identity -> ReservationRecord
    queued,         \* identity -> QueuedRequest
    queued_tokens,  \* identity -> digest of the consumed reservation token
    cancel_tokens,  \* identity -> cancellation token digest
    node_queues,    \* node -> identities, in queue order by sequence number
    claims,         \* identity -> ClaimRecord
    responses,      \* identity -> ResponseRecord
    terminals,      \* identity -> TerminalOutcomeRecord
    tombstones,     \* identity -> ControlTombstoneRecord
    node_tombstones,\* node -> NodeTombstoneRecord
    pending,        \* node -> _PendingNodeTransition
    former,         \* <<node, credential>> -> _FormerNodeAuthority
    node_work,      \* node -> identities, in insertion order by token
    deferred,       \* _deferred_deadline_identities
    generation,     \* _next_claim_generation
    cursors,        \* fingerprint -> <<node, activity>>
    activity,       \* _fairness_activity; also names the token of a reservation
    sequence,       \* _next_queue_sequence
    due,            \* the due identities the running reaper has still to visit
    expired,        \* the expired nodes the running sweep has still to visit
    swept,          \* the expired nodes the running sweep found
    tearing,        \* the node being torn down, or None
    batch           \* what is left of its batch

registry == <<records, sched, order, next_order>>
lifecycle == <<reservations, queued, queued_tokens, cancel_tokens, node_queues,
               claims, node_work, deferred>>
retained == <<responses, terminals, tombstones>>
removed == <<node_tombstones, pending, former>>
counters == <<generation, activity, sequence>>
loop == <<due, expired, swept, tearing, batch>>
vars == <<now, lock, registry, lifecycle, retained, removed, counters, cursors,
          loop>>
--------------------------------------------------------------------------------
(* Python dicts as functions over the keys they hold.                      *)

Put(f, k, v) == [x \in DOMAIN f \cup {k} |-> IF x = k THEN v ELSE f[x]]
Drop(f, K) == [x \in DOMAIN f \ K |-> f[x]]
Min2(a, b) == IF a <= b THEN a ELSE b

\* A defaultdict of sets: no entry means empty, and an emptied entry is removed.
At(f, n) == IF n \in DOMAIN f THEN f[n] ELSE {}
AddTo(f, n, e) == Put(f, n, At(f, n) \cup {e})
\* Fault: an emptied entry stays.
RemoveFrom_KeepEmpty(f, n, e) == Put(f, n, At(f, n) \ {e})
RemoveFrom(f, n, e) ==
    IF At(f, n) \subseteq {e} THEN Drop(f, {n}) ELSE Put(f, n, At(f, n) \ {e})

OfClient(f, c) == Cardinality({i \in DOMAIN f : i[1] = c})
OnNode(f, n) == Cardinality({i \in DOMAIN f : f[i].node = n})

\* The live lifecycle record of an identity, reserved or queued.
Live == DOMAIN reservations \cup DOMAIN queued
Work(i) == IF i \in DOMAIN reservations THEN reservations[i] ELSE queued[i]
\* Dicts keep insertion order; work is inserted when its token is created.
Token(i) == IF i \in DOMAIN reservations THEN reservations[i].token
            ELSE queued_tokens[i]
--------------------------------------------------------------------------------
(* _terminalize_locked                                                     *)

\* Fault: a cancelled worker is told only if its lease reaches the deadline.
TombstonedClaim_AtDeadlineOnly(i, status, force) ==
    /\ i \in DOMAIN claims
    /\ force \/ claims[i].lease >= Work(i).deadline

\* A claim whose owner may still be computing gets a stop instruction.
TombstonedClaim(i, status, force) ==
    /\ i \in DOMAIN claims
    /\ \/ force
       \/ status = "cancelled" /\ claims[i].lease > now
       \/ status = "expired" /\ claims[i].lease >= Work(i).deadline

\* Fault: the per-client bound is forgotten.
TerminalRoom_GlobalOnly(i) ==
    Cardinality(DOMAIN terminals) < config["max_terminal_records"]

TerminalRoom(i) ==
    /\ Cardinality(DOMAIN terminals) < config["max_terminal_records"]
    /\ OfClient(terminals, i[1]) < config["max_terminal_records_per_client"]

TombstoneRoom(n) ==
    /\ Cardinality(DOMAIN tombstones) < config["max_control_tombstones"]
    /\ OnNode(tombstones, n) < config["max_control_tombstones_per_node"]

CanTerminalize(i, status, force) ==
    /\ TerminalRoom(i)
    /\ TombstonedClaim(i, status, force) => TombstoneRoom(claims[i].node)

\* Fault: the claim survives its request.
Forget_KeepClaim(i) ==
    /\ reservations' = Drop(reservations, {i})
    /\ queued' = Drop(queued, {i})
    /\ queued_tokens' = Drop(queued_tokens, {i})
    /\ cancel_tokens' = Drop(cancel_tokens, {i})
    /\ node_queues' = IF i \in DOMAIN queued
                      THEN RemoveFrom(node_queues, queued[i].node, i)
                      ELSE node_queues
    /\ node_work' = RemoveFrom(node_work, Work(i).node, i)
    /\ UNCHANGED claims

\* _remove_queued_identity_locked and the pops around it: the identity leaves
\* every live index.
Forget(i) ==
    /\ reservations' = Drop(reservations, {i})
    /\ queued' = Drop(queued, {i})
    /\ queued_tokens' = Drop(queued_tokens, {i})
    /\ cancel_tokens' = Drop(cancel_tokens, {i})
    /\ node_queues' = IF i \in DOMAIN queued
                      THEN RemoveFrom(node_queues, queued[i].node, i)
                      ELSE node_queues
    /\ claims' = Drop(claims, {i})
    /\ node_work' = RemoveFrom(node_work, Work(i).node, i)

\* A stop instruction is kept for a fixed time from the moment it is written.
TombstoneExpiry(i) == now + config["control_tombstone_ttl"]

Terminalize(i, status, reason, force) ==
    LET stop == TombstonedClaim(i, status, force) IN
    /\ CanTerminalize(i, status, force)
    /\ terminals' = Put(terminals, i,
         [node |-> Work(i).node,
          owner |-> IF stop THEN claims[i].owner ELSE None,
          consumer |-> IF stop THEN claims[i].consumer ELSE None,
          generation |-> IF stop THEN claims[i].generation ELSE 0,
          digest |-> None, outcome |-> status, reason |-> reason,
          retrieval_state |-> "completed_unavailable", credential |-> 0,
          cancel_token |-> IF i \in DOMAIN cancel_tokens
                           THEN cancel_tokens[i] ELSE None,
          expires |-> now + config["terminal_retention"]])
    /\ tombstones' =
         IF stop
         THEN Put(tombstones, i,
                [node |-> claims[i].node, owner |-> claims[i].owner,
                 consumer |-> claims[i].consumer,
                 generation |-> claims[i].generation, status |-> status,
                 reason |-> reason, acknowledged |-> FALSE,
                 expires |-> TombstoneExpiry(i)])
         ELSE tombstones
    /\ Forget(i)
    /\ deferred' = deferred \ {i}
    /\ UNCHANGED responses
--------------------------------------------------------------------------------
(* Entering the store: every operation takes the lock, reads the clock and *)
(* runs _reap_retained_locked before anything else.                        *)

\* A fence outlives its retention while its node's teardown still needs it.
FenceKept(k) ==
    \/ former[k].expires > now
    \/ k[1] \in DOMAIN pending /\ pending[k[1]].owner = k[2]

\* Fault: the terminal record goes with its response.
TerminalKept_WithResponse(i) ==
    /\ terminals[i].expires > now
    /\ i \in DOMAIN responses => responses[i].replay_expires > now
ReplayOver(i) == responses[i].replay_expires <= now
TerminalKept(i) == terminals[i].expires > now
ReapedTerminal(i) ==
    IF i \in DOMAIN responses /\ ReplayOver(i)
       /\ terminals[i].retrieval_state = "response_ready"
    THEN [terminals[i] EXCEPT !.retrieval_state = "retrieval_expired"]
    ELSE terminals[i]

ReapRetained ==
    /\ responses' = Drop(responses, {i \in DOMAIN responses : ReplayOver(i)})
    /\ terminals' = [i \in {j \in DOMAIN terminals : TerminalKept(j)} |->
                       ReapedTerminal(i)]
    /\ tombstones' =
         Drop(tombstones, {i \in DOMAIN tombstones : tombstones[i].expires <= now})
    /\ node_tombstones' =
         Drop(node_tombstones,
              {n \in DOMAIN node_tombstones : node_tombstones[n].expires <= now})
    /\ former' = Drop(former, {k \in DOMAIN former : ~FenceKept(k)})

\* Fault: only reservations are checked for their deadline.
DueNow_ReservedOnly ==
    {i \in DOMAIN reservations : reservations[i].deadline <= now}

\* Deadlines and leases are inclusive: what ends now is over.
DueNow == {i \in Live : Work(i).deadline <= now}
LeaseExpired == {n \in DOMAIN records : records[n].lease <= now}

Enter(phase) ==
    /\ lock = "free"
    /\ lock' = phase
    /\ ReapRetained
    /\ due' = IF phase = "reap" THEN DueNow ELSE {}
    /\ expired' = IF phase = "node" THEN {} ELSE LeaseExpired
    /\ swept' = expired'
    /\ UNCHANGED <<now, registry, lifecycle, pending, counters, cursors,
                   tearing, batch>>
--------------------------------------------------------------------------------
(* _transition_node_locked: remove a node, then terminalize its work one   *)
(* bounded batch at a time.                                                *)

TransitionRoom(n) ==
    /\ Cardinality(DOMAIN pending) < config["max_pending_node_transitions"]
    /\ \/ <<n, records[n].owner>> \in DOMAIN former
       \/ Cardinality(DOMAIN former) < config["max_removed_owner_fences"]
    /\ \/ n \in DOMAIN node_tombstones
       \/ Cardinality(DOMAIN node_tombstones) < config["max_node_tombstones"]

\* Fault: the batch is taken from all live work.
FirstBatch_AnyNode(n) ==
    {i \in Live : Cardinality({j \in Live : Token(j) < Token(i)})
                    < config["node_transition_batch_size"]}

\* islice(node_work, node_transition_batch_size)
FirstBatch(n) ==
    {i \in At(node_work, n) :
        Cardinality({j \in At(node_work, n) : Token(j) < Token(i)})
            < config["node_transition_batch_size"]}

\* Fault: a transition completes after its first batch.
WorkLeft_OneBatch(n) == FALSE

CursorsAt(n) == {f \in DOMAIN cursors : cursors[f][1] = n}
WorkLeft(n) == At(node_work, n) # {}

\* Eligibility goes first: registration, scheduler facts and cursors.
BeginTransition(n, cause) ==
    /\ TransitionRoom(n)
    /\ records' = Drop(records, {n})
    /\ sched' = Drop(sched, {n})
    /\ order' = Drop(order, {n})
    /\ cursors' = Drop(cursors, CursorsAt(n))
    /\ pending' = Put(pending, n,
         [owner |-> records[n].owner, cause |-> cause, epoch |-> now])
    /\ former' = Put(former, <<n, records[n].owner>>,
         [cause |-> cause, epoch |-> now,
          expires |-> now + config["terminal_retention"]])
    /\ node_tombstones' = Put(node_tombstones, n,
         [owner |-> records[n].owner, cause |-> cause,
          completed |-> ~WorkLeft(n),
          expires |-> now + config["node_tombstone_ttl"]])
    /\ tearing' = n
    /\ batch' = FirstBatch(n)
    /\ UNCHANGED <<now, lifecycle, retained, counters, next_order, due, swept>>

ContinueTransition(n) ==
    /\ tearing' = n
    /\ batch' = FirstBatch(n)
    /\ UNCHANGED <<now, registry, lifecycle, retained, removed, counters,
                   cursors, due, expired, swept>>

\* One identity of the batch.  Full terminal records end the batch early.
BatchStep(i) ==
    /\ tearing # None
    /\ i \in batch
    /\ \A j \in batch : Token(i) <= Token(j)
    /\ \/ /\ Terminalize(i, "cancelled", "server_unregistered", TRUE)
          /\ batch' = batch \ {i}
       \/ /\ ~CanTerminalize(i, "cancelled", TRUE)
          /\ batch' = {}
          /\ UNCHANGED <<lifecycle, retained>>
    /\ UNCHANGED <<now, lock, registry, removed, counters, cursors,
                   due, expired, swept, tearing>>

\* The batch is done: the transition completes when no work is left.
EndTransition ==
    /\ tearing # None
    /\ batch = {}
    /\ \/ /\ WorkLeft(tearing)
          /\ UNCHANGED removed
       \/ /\ ~WorkLeft(tearing)
          /\ pending' = Drop(pending, {tearing})
          /\ former' = [former EXCEPT ![<<tearing, pending[tearing].owner>>].expires =
                          now + config["terminal_retention"]]
          /\ node_tombstones' =
               IF tearing \in DOMAIN node_tombstones
               THEN [node_tombstones EXCEPT ![tearing].completed = TRUE]
               ELSE node_tombstones
    /\ tearing' = None
    /\ IF lock = "node" THEN lock' = "free" /\ swept' = {}
       ELSE UNCHANGED <<lock, swept>>
    /\ UNCHANGED <<now, registry, lifecycle, retained, counters, cursors,
                   due, expired, batch>>
--------------------------------------------------------------------------------
(* The rest of the reaper: due deadlines, expired leases, stale            *)
(* reservations, and the one continuation of a sweep.                      *)

\* A due lifecycle that finds no room is kept whole and deferred.
DueStep(i) ==
    /\ lock = "reap"
    /\ i \in due
    /\ due' = due \ {i}
    /\ \/ Terminalize(i, "expired", "request_deadline_expired", FALSE)
       \/ /\ ~CanTerminalize(i, "expired", FALSE)
          /\ deferred' = deferred \cup {i}
          /\ UNCHANGED <<reservations, queued, queued_tokens, cancel_tokens,
                         node_queues, claims, node_work, retained>>
    /\ UNCHANGED <<now, lock, registry, removed, counters, cursors,
                   expired, swept, tearing, batch>>

\* The sweep's next node: the loop runs in sorted() order.
NextExpired(n) ==
    /\ lock \in {"reap", "lease", "sweep"}
    /\ due = {}
    /\ tearing = None
    /\ n \in expired
    /\ \A m \in expired : n <= m

LeaseStep(n) ==
    /\ NextExpired(n)
    /\ BeginTransition(n, "registration_lease_expired")
    /\ expired' = expired \ {n}
    /\ UNCHANGED lock

\* No room for the transition: the exception leaves the operation, with what
\* the sweep has done so far.
LeaseStepRaises(n) ==
    /\ NextExpired(n)
    /\ ~TransitionRoom(n)
    /\ lock' = "free"
    /\ expired' = {} /\ swept' = {}
    /\ UNCHANGED <<now, registry, lifecycle, retained, removed, counters,
                   cursors, due, tearing, batch>>

\* Fault: a reservation is released one instant early.
StaleReservation_Early(i) == reservations[i].expires <= now + 1 /\ i \notin deferred

\* A reservation nobody consumed is released; one whose deadline could not be
\* recorded yet is not.
StaleReservation(i) ==
    reservations[i].expires <= now /\ i \notin deferred

ReapReservations ==
    LET stale == {i \in DOMAIN reservations : StaleReservation(i)} IN
    /\ lock = "reap"
    /\ due = {} /\ expired = {} /\ tearing = None
    /\ lock' = "ready"
    /\ swept' = {}
    /\ reservations' = Drop(reservations, stale)
    /\ cancel_tokens' = Drop(cancel_tokens, stale)
    /\ node_work' = [n \in {m \in DOMAIN node_work : ~(node_work[m] \subseteq stale)} |->
                       node_work[n] \ stale]
    /\ UNCHANGED <<now, registry, queued, queued_tokens, node_queues, claims,
                   deferred, retained, removed, counters, cursors, due, expired,
                   tearing, batch>>

\* Fault: the sweep leaves explicit unregistrations to their caller.
Continuation_LeasesOnly(n) ==
    /\ n \in DOMAIN pending
    /\ \A m \in DOMAIN pending : n <= m
    /\ n \notin swept
    /\ pending[n].cause = "registration_lease_expired"

\* expire() advances the first pending transition, unless this sweep began it.
Continuation(n) ==
    /\ n \in DOMAIN pending
    /\ \A m \in DOMAIN pending : n <= m
    /\ n \notin swept

SweepContinue(n) ==
    /\ lock = "sweep"
    /\ expired = {} /\ tearing = None
    /\ Continuation(n)
    /\ lock' = "node"
    /\ ContinueTransition(n)
--------------------------------------------------------------------------------
(* The bodies.  A body is one critical section: it runs once the reaper is *)
(* done and gives the lock back.                                           *)

Reaped(phase) ==
    /\ lock = phase
    /\ due = {} /\ expired = {} /\ tearing = None
    /\ lock' = "free"
    /\ swept' = {}
    /\ UNCHANGED <<now, due, expired, tearing, batch>>

\* Reads, idempotent replays and every rejection: only the reaper's work stays.
Release ==
    /\ \E phase \in Phase \ {"free", "reap"} :
          /\ Reaped(phase)
          /\ phase = "sweep" => \A n \in Node : ~Continuation(n)
    /\ UNCHANGED <<registry, lifecycle, retained, removed, counters, cursors>>

\* A node id is free again only when its teardown is complete.
Registrable(n) == n \notin DOMAIN pending

\* register: a new node, whose credential must carry no stale authority, or an
\* existing one, whose credential must match.
RegisterNew(n, cred) ==
    /\ n \notin DOMAIN records
    /\ Cardinality(DOMAIN records) < config["max_compute_nodes"]
    /\ <<n, cred>> \notin DOMAIN former
    /\ next_order < MaxOrder
    /\ sched' = Put(sched, n, [healthy |-> TRUE, draining |-> FALSE, claimed_work |-> 0])
    /\ order' = Put(order, n, next_order)
    /\ next_order' = next_order + 1

RegisterExisting(n, cred) ==
    /\ n \in DOMAIN records
    /\ records[n].owner = cred
    /\ UNCHANGED <<sched, order, next_order>>

Register(n, caps, cred) ==
    /\ Reaped("lease")
    /\ Registrable(n)
    /\ RegisterNew(n, cred) \/ RegisterExisting(n, cred)
    /\ records' = Put(records, n,
         [caps |-> caps, owner |-> cred, lease |-> now + config["lease_ttl"]])
    /\ UNCHANGED <<lifecycle, retained, removed, counters, cursors>>

\* Fault: a renewal without capabilities erases them.
RenewedCaps_Erased(n, caps) == caps

\* capabilities or existing.capabilities
RenewedCaps(n, caps) == IF caps = None THEN records[n].caps ELSE caps

Renew(n, cred, caps) ==
    /\ Reaped("lease")
    /\ n \in DOMAIN records
    /\ records[n].owner = cred
    /\ records' = [records EXCEPT ![n] =
         [caps |-> RenewedCaps(n, caps), owner |-> cred,
          lease |-> now + config["lease_ttl"]]]
    /\ UNCHANGED <<sched, order, next_order, lifecycle, retained, removed,
                   counters, cursors>>

SetSchedulerState(n, cred, state) ==
    /\ Reaped("lease")
    /\ n \in DOMAIN records
    /\ records[n].owner = cred
    /\ sched' = [sched EXCEPT ![n] = state]
    /\ UNCHANGED <<records, order, next_order, lifecycle, retained, removed,
                   counters, cursors>>

\* unregister_node_and_transition_work: no reaping beyond the retained records.
UnregisterBegin(n, cred, cause) ==
    /\ lock = "node"
    /\ tearing = None
    /\ n \in DOMAIN records /\ n \notin DOMAIN pending
    /\ IF cause = "explicit_unregister" THEN records[n].owner = cred
       ELSE records[n].lease <= now
    /\ BeginTransition(n, cause)
    /\ UNCHANGED <<lock, expired>>

UnregisterContinue(n, cred, cause) ==
    /\ lock = "node"
    /\ tearing = None
    /\ n \in DOMAIN pending
    /\ pending[n].cause = cause
    /\ cause = "explicit_unregister" => pending[n].owner = cred
    /\ ContinueTransition(n)
    /\ UNCHANGED lock
--------------------------------------------------------------------------------
(* select_and_reserve                                                      *)

Queue(n) == At(node_queues, n)
Load(n) == OnNode(reservations, n) + Cardinality(Queue(n)) + sched[n].claimed_work

Eligible(n, fp) ==
    /\ fp[1] \in records[n].caps.models
    /\ records[n].caps.tier >= fp[2]
    /\ sched[n].healthy /\ ~sched[n].draining
    /\ Load(n) < records[n].caps.max_concurrency
    /\ OnNode(reservations, n) < config["max_reservations_per_node"]
    /\ OnNode(reservations, n) + Cardinality(Queue(n))
         < config["max_queue_depth_per_node"]

\* Smallest sufficient tier first, then least load.
Tied(fp) ==
    LET eligible == {n \in DOMAIN records : Eligible(n, fp)}
        smallest == {n \in eligible : \A m \in eligible :
                        records[n].caps.tier <= records[m].caps.tier}
    IN  {n \in smallest : \A m \in smallest : Load(n) <= Load(m)}

\* Fault: the cursor points one place before the node served last.
CursorOrder_OffByOne(fp) ==
    IF cursors[fp][1] \in DOMAIN order THEN order[cursors[fp][1]] - 1 ELSE -1

\* self._registration_order.get(cursor, -1)
CursorOrder(fp) ==
    IF cursors[fp][1] \in DOMAIN order THEN order[cursors[fp][1]] ELSE -1

\* Round robin: the first tied node registered after the cursor's, else the first.
Selected(fp, n) ==
    LET tied == Tied(fp)
        first(S) == n \in S /\ \A m \in S : order[n] <= order[m]
        after == IF fp \in DOMAIN cursors
                 THEN {m \in tied : order[m] > CursorOrder(fp)} ELSE {}
    IN  IF after = {} THEN first(tied) ELSE first(after)

\* _cursor_eviction_candidate_locked: make room by dropping the least recently
\* used cursor of a fingerprint that has no live work.
ActiveFingerprints ==
    {reservations[i].fp : i \in DOMAIN reservations}
      \cup {queued[i].fp : i \in DOMAIN queued}

Evictable(fp, gone) ==
    IF \/ fp \in DOMAIN cursors
       \/ Cardinality(DOMAIN cursors) < config["max_scheduler_fingerprints"]
    THEN gone = {}
    ELSE LET idle == DOMAIN cursors \ ActiveFingerprints IN
         \E f \in idle : /\ gone = {f}
                         /\ \A g \in idle : cursors[f][2] <= cursors[g][2]

AdmissionRoom(client) ==
    /\ Cardinality(DOMAIN reservations) < config["max_reservations"]
    /\ Cardinality(DOMAIN reservations) + Cardinality(DOMAIN queued)
         < config["max_request_lifecycles"]
    /\ OfClient(reservations, client) + OfClient(queued, client)
         < config["max_reservations_per_client"]

SelectAndReserve(i, fp, deadline, ct, n, gone) ==
    /\ Reaped("ready")
    /\ deadline > now
    /\ deadline <= now + config["max_request_ttl"]
    /\ i \notin DOMAIN terminals \cup Live
    /\ AdmissionRoom(i[1])
    /\ n \in DOMAIN records
    /\ Selected(fp, n)
    /\ Evictable(fp, gone)
    /\ activity < MaxActivity
    /\ activity' = activity + 1
    /\ reservations' = Put(reservations, i,
         [fp |-> fp, node |-> n, deadline |-> deadline,
          expires |-> Min2(now + config["reservation_ttl"], deadline),
          token |-> activity'])
    /\ node_work' = AddTo(node_work, n, i)
    /\ cancel_tokens' = IF ct = None THEN cancel_tokens ELSE Put(cancel_tokens, i, ct)
    /\ cursors' = Put(Drop(cursors, gone), fp, <<n, activity'>>)
    /\ UNCHANGED <<registry, queued, queued_tokens, node_queues, claims,
                   deferred, retained, removed, generation, sequence>>
--------------------------------------------------------------------------------
(* enqueue_encrypted_request: consume the reservation named by its token.  *)

QueueRoom(i, n) ==
    /\ Cardinality(Queue(n)) < config["max_queue_depth_per_node"]
    /\ Cardinality(DOMAIN queued) < config["max_queued_requests"]
    /\ OfClient(queued, i[1]) < config["max_queued_requests_per_client"]

EnqueueEncryptedRequest(i, fp, deadline, token, n, ct) ==
    /\ Reaped("ready")
    /\ deadline > now
    /\ deadline <= now + config["max_request_ttl"]
    /\ i \in DOMAIN reservations
    /\ reservations[i].fp = fp /\ reservations[i].deadline = deadline
    /\ reservations[i].node = n /\ reservations[i].token = token
    /\ n \in DOMAIN records /\ n \notin DOMAIN pending
    /\ records[n].lease > now
    /\ i \in DOMAIN cancel_tokens => cancel_tokens[i] = ct
    /\ QueueRoom(i, n)
    /\ sequence' = sequence + 1
    /\ queued' = Put(queued, i,
         [fp |-> fp, node |-> n, deadline |-> deadline, sequence |-> sequence'])
    /\ queued_tokens' = Put(queued_tokens, i, token)
    /\ cancel_tokens' = Put(cancel_tokens, i, ct)
    /\ node_queues' = AddTo(node_queues, n, i)
    /\ reservations' = Drop(reservations, {i})
    /\ UNCHANGED <<registry, claims, node_work, deferred, retained, removed,
                   generation, activity, cursors>>
--------------------------------------------------------------------------------
(* Claims                                                                  *)

ActiveClaims == {i \in DOMAIN claims : claims[i].lease > now}

\* Fault: a request stays claimable while a lease is running.
Claimable_Always(i) == queued[i].deadline > now

Claimable(i) == queued[i].deadline > now /\ i \notin ActiveClaims

ClaimRoom(n) ==
    /\ Cardinality(ActiveClaims) < config["max_claims"]
    /\ Cardinality({i \in ActiveClaims : claims[i].node = n})
         < config["max_claims_per_node"]

\* claim_queued_request: first come, first served; an expired claim is replaced
\* under a new generation.
ClaimQueuedRequest(n, cred, consumer, i) ==
    /\ Reaped("ready")
    /\ n \in DOMAIN records
    /\ records[n].owner = cred
    /\ i \in Queue(n)
    /\ Claimable(i)
    /\ \A j \in Queue(n) : Claimable(j) => queued[i].sequence <= queued[j].sequence
    /\ ClaimRoom(n)
    /\ generation < MaxGeneration
    /\ generation' = generation + 1
    /\ claims' = Put(claims, i,
         [consumer |-> consumer, node |-> n, owner |-> records[n].owner,
          deadline |-> queued[i].deadline, generation |-> generation',
          lease |-> Min2(now + config["claim_ttl"], queued[i].deadline)])
    /\ UNCHANGED <<registry, reservations, queued, queued_tokens, cancel_tokens,
                   node_queues, node_work, deferred, retained, removed,
                   activity, sequence, cursors>>

\* The presented generation still holds a running lease.
HoldsClaim(n, consumer, i, gen) ==
    /\ i \in DOMAIN claims
    /\ claims[i].deadline > now
    /\ claims[i].generation = gen
    /\ claims[i].node = n /\ claims[i].consumer = consumer
    /\ claims[i].lease > now

\* renew_claim_or_read_control, no tombstone: "continued"
RenewClaim(n, cred, consumer, i, gen) ==
    /\ Reaped("ready")
    /\ i \notin DOMAIN tombstones
    /\ n \in DOMAIN records
    /\ records[n].owner = cred
    /\ HoldsClaim(n, consumer, i, gen)
    /\ claims' = [claims EXCEPT ![i].lease =
                    Min2(now + config["claim_ttl"], claims[i].deadline)]
    /\ UNCHANGED <<registry, reservations, queued, queued_tokens, cancel_tokens,
                   node_queues, node_work, deferred, retained, removed,
                   counters, cursors>>

\* renew_claim_or_read_control, tombstone: the owner acknowledges the stop.
AcknowledgeControl(n, cred, consumer, i, gen) ==
    /\ Reaped("ready")
    /\ i \in DOMAIN tombstones
    /\ tombstones[i].node = n /\ tombstones[i].generation = gen
    /\ tombstones[i].owner = cred /\ tombstones[i].consumer = consumer
    /\ ~tombstones[i].acknowledged
    /\ tombstones' = [tombstones EXCEPT ![i].acknowledged = TRUE]
    /\ UNCHANGED <<registry, lifecycle, responses, terminals, removed, counters,
                   cursors>>
--------------------------------------------------------------------------------
(* Outcomes: a response, its retrieval, a cancellation.                    *)

ResponseRoom(client) ==
    /\ Cardinality(DOMAIN responses) < config["max_responses"]
    /\ OfClient(responses, client) < config["max_responses_per_client"]

\* accept_encrypted_response: the exact live claim completes the request.
AcceptResponse(n, cred, consumer, i, gen, reply) ==
    /\ Reaped("ready")
    /\ i \notin DOMAIN terminals
    /\ n \in DOMAIN records
    /\ records[n].owner = cred
    /\ HoldsClaim(n, consumer, i, gen)
    /\ i \in DOMAIN queued
    /\ queued[i].node = n
    /\ ResponseRoom(i[1])
    /\ TerminalRoom(i)
    /\ responses' = Put(responses, i,
         [node |-> n, consumer |-> consumer, generation |-> gen, digest |-> reply,
          replay_expires |-> now + config["response_replay_ttl"]])
    /\ terminals' = Put(terminals, i,
         [node |-> n, owner |-> cred, consumer |-> consumer, generation |-> gen,
          digest |-> reply, outcome |-> "completed", reason |-> "response_completed",
          retrieval_state |-> "response_ready", credential |-> queued_tokens[i],
          cancel_token |-> cancel_tokens[i],
          expires |-> now + config["terminal_retention"]])
    /\ Forget(i)
    /\ UNCHANGED <<registry, deferred, tombstones, removed, counters, cursors>>

\* retrieve_encrypted_response with the acknowledgement token of this response
\* (reads leave the record alone).
AcknowledgeResponse(i, token) ==
    /\ Reaped("ready")
    /\ i \in DOMAIN terminals
    /\ terminals[i].credential = token
    /\ terminals[i].retrieval_state = "response_ready"
    /\ i \in DOMAIN responses
    /\ responses' = Drop(responses, {i})
    /\ terminals' = [terminals EXCEPT ![i].retrieval_state = "acknowledged"]
    /\ UNCHANGED <<registry, lifecycle, tombstones, removed, counters, cursors>>

\* cancel_or_expire_request(status="cancelled") with the right proof.
CancelRequest(i, ct) ==
    /\ Reaped("ready")
    /\ i \notin DOMAIN terminals
    /\ i \in DOMAIN cancel_tokens
    /\ cancel_tokens[i] = ct
    /\ i \in Live
    /\ Terminalize(i, "cancelled", "requester_cancelled", FALSE)
    /\ UNCHANGED <<registry, removed, counters, cursors>>

Tick ==
    /\ lock = "free"
    /\ now < MaxNow
    /\ now' = now + 1
    /\ UNCHANGED <<lock, registry, lifecycle, retained, removed, counters,
                   cursors, loop>>
--------------------------------------------------------------------------------
Empty == [x \in {} |-> None]

Init ==
    /\ now = 0 /\ lock = "free"
    /\ records = Empty /\ sched = Empty /\ order = Empty /\ next_order = 0
    /\ reservations = Empty /\ queued = Empty /\ queued_tokens = Empty
    /\ cancel_tokens = Empty /\ node_queues = Empty /\ claims = Empty
    /\ node_work = Empty /\ deferred = {}
    /\ responses = Empty /\ terminals = Empty /\ tombstones = Empty
    /\ node_tombstones = Empty /\ pending = Empty /\ former = Empty
    /\ generation = 0 /\ activity = 0 /\ sequence = 0
    /\ cursors = Empty
    /\ due = {} /\ expired = {} /\ swept = {} /\ tearing = None /\ batch = {}

\* What the node operations do, and what the request operations do.
NodeOperation ==
    \E n \in Node, cred \in Cred :
        \/ \E caps \in Caps : Register(n, caps, cred)
        \/ \E caps \in Caps \cup {None} : Renew(n, cred, caps)
        \/ \E state \in SchedulerState : SetSchedulerState(n, cred, state)
        \/ \E cause \in Cause : \/ UnregisterBegin(n, cred, cause)
                                \/ UnregisterContinue(n, cred, cause)

ClientOperation ==
    \E i \in Identity :
        \/ \E fp \in Fingerprint, deadline \in Deadline, n \in Node,
              ct \in CancelToken \cup {None},
              gone \in {{}} \cup {{f} : f \in DOMAIN cursors} :
              SelectAndReserve(i, fp, deadline, ct, n, gone)
        \/ \E fp \in Fingerprint, deadline \in Deadline, n \in Node,
              token \in 1..activity, ct \in CancelToken :
              EnqueueEncryptedRequest(i, fp, deadline, token, n, ct)
        \/ \E token \in 1..activity : AcknowledgeResponse(i, token)
        \/ \E ct \in CancelToken : CancelRequest(i, ct)

WorkerOperation ==
    \E n \in Node, cred \in Cred, consumer \in Consumer, i \in Identity :
        \/ ClaimQueuedRequest(n, cred, consumer, i)
        \/ \E gen \in 1..generation :
              \/ RenewClaim(n, cred, consumer, i, gen)
              \/ AcknowledgeControl(n, cred, consumer, i, gen)
              \/ \E reply \in Reply : AcceptResponse(n, cred, consumer, i, gen, reply)

Reaper ==
    \/ \E phase \in Phase \ {"free", "ready"} : Enter(phase)
    \/ \E i \in Identity : DueStep(i) \/ BatchStep(i)
    \/ \E n \in Node : LeaseStep(n) \/ LeaseStepRaises(n) \/ SweepContinue(n)
    \/ EndTransition
    \/ ReapReservations

Next == Reaper \/ NodeOperation \/ ClientOperation \/ WorkerOperation \/ Release \/ Tick

Spec == Init /\ [][Next]_vars

\* An operation that holds the lock runs to its end, time passes, and both
\* request traffic and expire() come again and again; no caller is assumed to
\* retry anything of its own.
LoopStep == lock # "free" /\ (Reaper \/ Release)
Fairness ==
    /\ WF_vars(LoopStep)
    /\ SF_vars(Tick)
    /\ SF_vars(Enter("sweep"))
    /\ SF_vars(Enter("reap"))
FairSpec == Spec /\ Fairness
--------------------------------------------------------------------------------
(* Types                                                                   *)

Time == Nat
IsMap(f, D) == f = [x \in DOMAIN f |-> f[x]] /\ DOMAIN f \subseteq D
Values(f, R) == \A x \in DOMAIN f : f[x] \in R

Registration == [caps : Caps, owner : Cred, lease : Time]
SchedulerNodeState == [healthy : BOOLEAN, draining : BOOLEAN, claimed_work : Nat]
Reservation == [fp : Fingerprint, node : Node, deadline : Time, expires : Time,
                token : Nat]
QueuedRequest == [fp : Fingerprint, node : Node, deadline : Time, sequence : Nat]
ClaimRecord == [consumer : Consumer, node : Node, owner : Cred, deadline : Time,
                generation : Nat, lease : Time]
ResponseRecord == [node : Node, consumer : Consumer, generation : Nat,
                   digest : Reply, replay_expires : Time]
Outcome == {"completed", "cancelled", "expired"}
Reason == {"response_completed", "requester_cancelled", "server_unregistered",
           "request_deadline_expired"}
RetrievalState == {"response_ready", "acknowledged", "retrieval_expired",
                   "completed_unavailable"}
TerminalRecord == [node : Node, owner : Cred \cup {None},
                   consumer : Consumer \cup {None}, generation : Nat,
                   digest : Reply \cup {None}, outcome : Outcome,
                   reason : Reason, retrieval_state : RetrievalState,
                   credential : Nat, cancel_token : CancelToken \cup {None},
                   expires : Time]
ControlTombstone == [node : Node, owner : Cred, consumer : Consumer,
                     generation : Nat, status : Outcome, reason : Reason,
                     acknowledged : BOOLEAN, expires : Time]
NodeTombstone == [owner : Cred, cause : Cause, completed : BOOLEAN, expires : Time]
PendingTransition == [owner : Cred, cause : Cause, epoch : Time]
FormerAuthority == [cause : Cause, epoch : Time, expires : Time]

RegistryTypeOK ==
    /\ now \in Time /\ lock \in Phase /\ next_order \in Nat
    /\ IsMap(records, Node) /\ Values(records, Registration)
    /\ IsMap(sched, Node) /\ Values(sched, SchedulerNodeState)
    /\ IsMap(order, Node) /\ Values(order, Nat)
    /\ IsMap(node_tombstones, Node) /\ Values(node_tombstones, NodeTombstone)
    /\ IsMap(pending, Node) /\ Values(pending, PendingTransition)
    /\ IsMap(former, Node \X Cred) /\ Values(former, FormerAuthority)
    /\ IsMap(cursors, Fingerprint) /\ Values(cursors, Node \X Nat)

LifecycleTypeOK ==
    /\ IsMap(reservations, Identity) /\ Values(reservations, Reservation)
    /\ IsMap(queued, Identity) /\ Values(queued, QueuedRequest)
    /\ IsMap(queued_tokens, Identity) /\ Values(queued_tokens, Nat)
    /\ IsMap(cancel_tokens, Identity) /\ Values(cancel_tokens, CancelToken)
    /\ IsMap(node_queues, Node) /\ Values(node_queues, SUBSET Identity)
    /\ IsMap(claims, Identity) /\ Values(claims, ClaimRecord)
    /\ IsMap(node_work, Node) /\ Values(node_work, SUBSET Identity)

RetainedTypeOK ==
    /\ IsMap(responses, Identity) /\ Values(responses, ResponseRecord)
    /\ IsMap(terminals, Identity) /\ Values(terminals, TerminalRecord)
    /\ IsMap(tombstones, Identity) /\ Values(tombstones, ControlTombstone)

LoopTypeOK ==
    /\ generation \in Nat /\ activity \in Nat /\ sequence \in Nat
    /\ deferred \subseteq Identity /\ due \subseteq Identity
    /\ expired \subseteq Node /\ swept \subseteq Node
    /\ tearing \in Node \cup {None} /\ batch \subseteq Identity

\* Every field holds a value of its dataclass.
TypeOK == RegistryTypeOK /\ LifecycleTypeOK /\ RetainedTypeOK /\ LoopTypeOK
--------------------------------------------------------------------------------
(* Safety                                                                  *)

\* An identity is reserved, queued or terminal, never two of them, and only
\* queued work is claimed: every transition moves it in one piece.
LifecycleExclusive ==
    /\ DOMAIN reservations \cap DOMAIN queued = {}
    /\ Live \cap DOMAIN terminals = {}
    /\ DOMAIN claims \subseteq DOMAIN queued

\* The private indexes that teardown, polling and cancellation trust say
\* exactly what the authoritative maps say, with no empty entries left behind,
\* and the insertion order of the work of a node is well defined.
WorkIndexed ==
    /\ \A n \in Node : At(node_work, n) = {i \in Live : Work(i).node = n}
    /\ \A n \in DOMAIN node_work : node_work[n] # {}
QueueIndexed ==
    /\ \A n \in Node : Queue(n) = {i \in DOMAIN queued : queued[i].node = n}
    /\ \A n \in DOMAIN node_queues : node_queues[n] # {}
SecretsIndexed ==
    /\ DOMAIN queued_tokens = DOMAIN queued
    /\ DOMAIN queued \subseteq DOMAIN cancel_tokens
    /\ DOMAIN cancel_tokens \subseteq Live
TokensUnique ==
    \A i \in Live :
        /\ Token(i) <= activity
        /\ \A j \in Live : Token(i) = Token(j) => i = j
\* An index that teardown, polling or cancellation trusts is exact after every transition.
IndexExact == WorkIndexed /\ QueueIndexed /\ SecretsIndexed /\ TokensUnique

\* Live work belongs to a node that is either registered or being torn down,
\* never both: nothing is left for a deadline to find after its node is gone.
NoOrphanWork ==
    /\ \A i \in Live : Work(i).node \in DOMAIN records \cup DOMAIN pending
    /\ DOMAIN records \cap DOMAIN pending = {}

\* accept_encrypted_response and renew_claim check the credential of the
\* registration, not the one stored in the claim.  That is sound because a
\* claim never outlives its owner's registration: a successor that registers
\* the same node id finds no claim of its predecessor.
ClaimOwnerCurrent ==
    \A i \in DOMAIN claims :
        LET n == claims[i].node IN
        /\ n = queued[i].node
        /\ n \in DOMAIN records => claims[i].owner = records[n].owner
        /\ n \in DOMAIN pending => claims[i].owner = pending[n].owner

\* A credential whose node was removed does not own that node again while a
\* worker it started may still be reading the stop instruction.
RemovedOwnerStaysOut ==
    \A i \in DOMAIN tombstones :
        LET t == tombstones[i] IN
        (t.reason = "server_unregistered" /\ t.expires > now)
            => (t.node \in DOMAIN records => records[t.node].owner # t.owner)

\* Completing a transition reads the fence of its owner: it is never reaped
\* first, however long the teardown is spread over sweeps (no KeyError).
ContinuationNeverFaults ==
    \A n \in DOMAIN pending : <<n, pending[n].owner>> \in DOMAIN former

\* The replayable response and the terminal that promises it go together and
\* agree, so retrieval never meets its "defensive repair" branch.
ReplayConsistent ==
    /\ DOMAIN responses =
         {i \in DOMAIN terminals : terminals[i].retrieval_state = "response_ready"}
    /\ \A i \in DOMAIN responses :
         /\ responses[i].digest = terminals[i].digest
         /\ responses[i].generation = terminals[i].generation
         /\ terminals[i].outcome = "completed"

\* A stop instruction never survives the terminal record it belongs to, so a
\* new lifecycle under the same identity is not stopped by an old tombstone.
FreshLifecycleUnstopped ==
    \A i \in DOMAIN tombstones :
        /\ i \in DOMAIN terminals
        /\ i \notin Live
        /\ tombstones[i].expires <= terminals[i].expires
        /\ tombstones[i].status = terminals[i].outcome
        /\ tombstones[i].generation = terminals[i].generation

\* Round robin resumes from a node that is registered.
CursorsLive ==
    /\ \A f \in DOMAIN cursors :
         cursors[f][1] \in DOMAIN records /\ cursors[f][2] <= activity
    /\ DOMAIN sched = DOMAIN records /\ DOMAIN order = DOMAIN records
    /\ \A m, n \in DOMAIN records : order[m] = order[n] => m = n

\* The node served last is not served again while another node is tied with it:
\* the cursor turns, across registrations, evictions and load changes.
RotationFair ==
    \A fp \in DOMAIN cursors : \A n \in Tied(fp) :
        n = cursors[fp][1] /\ Selected(fp, n) => Tied(fp) = {n}

\* A deferred deadline is a real one: the mark leaves with the lifecycle.
DeferredStillDue ==
    \A i \in deferred : i \in Live /\ Work(i).deadline <= now

\* A node is torn down as a whole: its work, its claims, its credential's fence and the
\* transition that removes it agree at every step, over any number of sweeps.
TeardownSafe ==
    NoOrphanWork /\ ClaimOwnerCurrent /\ RemovedOwnerStaysOut /\ ContinuationNeverFaults

\* Round robin is fair and its cursors stay valid when nodes leave.
SchedulerSound == CursorsLive /\ RotationFair

\* What the holder of the lock can have left to do in each phase.
PhaseOK ==
    /\ lock # "reap" => due = {}
    /\ lock \notin {"reap", "lease", "sweep"} => expired = {}
    /\ lock \in {"free", "ready"} => tearing = None
    /\ tearing # None => due = {}

\* While a batch runs, each identity in it is live work of the node being torn
\* down, and due identities are live: the loops' skip branches are dead code,
\* and no exit of an operation, an exception included, leaves a loop half run.
LoopsFresh ==
    /\ PhaseOK
    /\ tearing # None =>
         /\ tearing \in DOMAIN pending
         /\ batch \subseteq At(node_work, tearing)
    /\ tearing = None => batch = {}
    /\ due \subseteq Live
    /\ expired \subseteq DOMAIN records

\* Every configured bound holds, whichever path admitted the record.
Bounded ==
    /\ Cardinality(DOMAIN records) <= config["max_compute_nodes"]
    /\ Cardinality(DOMAIN reservations) <= config["max_reservations"]
    /\ Cardinality(Live) <= config["max_request_lifecycles"]
    /\ Cardinality(DOMAIN queued) <= config["max_queued_requests"]
    /\ Cardinality(DOMAIN responses) <= config["max_responses"]
    /\ Cardinality(DOMAIN terminals) <= config["max_terminal_records"]
    /\ Cardinality(DOMAIN tombstones) <= config["max_control_tombstones"]
    /\ Cardinality(DOMAIN pending) <= config["max_pending_node_transitions"]
    /\ Cardinality(DOMAIN node_tombstones) <= config["max_node_tombstones"]
    /\ Cardinality(DOMAIN former) <= config["max_removed_owner_fences"]
    /\ Cardinality(DOMAIN cursors) <= config["max_scheduler_fingerprints"]
    /\ Cardinality(ActiveClaims) <= config["max_claims"]
    /\ \A n \in Node :
         /\ OnNode(reservations, n) <= config["max_reservations_per_node"]
         /\ Cardinality(Queue(n)) <= config["max_queue_depth_per_node"]
         /\ OnNode(tombstones, n) <= config["max_control_tombstones_per_node"]
         /\ Cardinality({i \in ActiveClaims : claims[i].node = n})
              <= config["max_claims_per_node"]
    /\ \A c \in Client :
         /\ OfClient(reservations, c) + OfClient(queued, c)
              <= config["max_reservations_per_client"]
         /\ OfClient(queued, c) <= config["max_queued_requests_per_client"]
         /\ OfClient(responses, c) <= config["max_responses_per_client"]
         /\ OfClient(terminals, c) <= config["max_terminal_records_per_client"]
--------------------------------------------------------------------------------
(* What no step may do                                                     *)

\* What the store retains after a decision is bounded and consistent: responses
\* with terminals, stop instructions with outcomes, deferrals with deadlines.
RetainedSound ==
    Bounded /\ ReplayConsistent /\ FreshLifecycleUnstopped /\ DeferredStillDue

\* The first outcome is the only one: while it is retained, cancel, expiry,
\* unregister and late responses see it and leave it alone, and retrieval only
\* moves away from "response_ready".
OutcomeStep ==
    \A i \in DOMAIN terminals :
        IF i \in DOMAIN terminals'
        THEN /\ terminals'[i] = [terminals[i] EXCEPT
                                   !.retrieval_state = terminals'[i].retrieval_state]
             /\ \/ terminals'[i].retrieval_state = terminals[i].retrieval_state
                \/ terminals[i].retrieval_state = "response_ready"
        ELSE terminals[i].expires <= now

\* Accepted work is never lost: queued work leaves only into a terminal record,
\* and a reservation may vanish without one only before its deadline.
DropStep ==
    /\ \A i \in DOMAIN queued \ DOMAIN queued' : i \in DOMAIN terminals'
    /\ \A i \in DOMAIN reservations \ DOMAIN reservations' :
         \/ i \in DOMAIN queued' \cup DOMAIN terminals'
         \/ reservations[i].expires <= now /\ now < reservations[i].deadline

\* A running claim lease is not stolen or shortened; it ends in an outcome, and
\* a replaced claim always carries a newer generation.
FencedStep ==
    \A i \in DOMAIN claims :
        IF i \in DOMAIN claims'
        THEN /\ claims'[i].generation >= claims[i].generation
             /\ claims[i].lease > now =>
                  /\ claims'[i].generation = claims[i].generation
                  /\ claims'[i].lease >= claims[i].lease
        ELSE i \in DOMAIN terminals'

\* A worker whose lease is running is told: either its own response completed
\* the request, or a stop instruction for its generation is left for it.
StopStep ==
    \A i \in ActiveClaims \ DOMAIN claims' :
        \/ /\ i \in DOMAIN responses'
           /\ responses'[i].generation = claims[i].generation
        \/ /\ i \in DOMAIN tombstones'
           /\ tombstones'[i].generation = claims[i].generation
           /\ tombstones'[i].owner = claims[i].owner

\* Reads do not consume a response: it goes only when it is acknowledged or when
\* its fixed replay deadline has passed.
ReplayStep ==
    \A i \in DOMAIN responses :
        IF i \in DOMAIN responses' THEN responses'[i] = responses[i]
        ELSE \/ responses[i].replay_expires <= now
             \/ terminals'[i].retrieval_state = "acknowledged"

\* What a client was promised stays: the work until it is decided, the outcome, and
\* the response until it is acknowledged or its replay deadline passes.
OutcomeKept == [][OutcomeStep /\ ReplayStep /\ DropStep]_vars

\* A worker keeps the claim whose lease is running, and hears of it when it ends early.
WorkerFenced == [][FencedStep /\ StopStep]_vars
--------------------------------------------------------------------------------
(* What must happen                                                        *)

\* Every accepted request is decided: once its deadline passes some operation
\* finds it, whatever its worker, its client and its node did.
RequestDecided == \A i \in Identity : i \in Live ~> i \notin Live

\* A node removal finishes, however many batches it takes.
TeardownCompletes == \A n \in Node : n \in DOMAIN pending ~> n \notin DOMAIN pending
================================================================================
