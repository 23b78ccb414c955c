------------------------------- MODULE RelayApiV1 -------------------------------
(***************************************************************************)
(* relay.py: the API v1 routes of the running relay, for one process with  *)
(* several request threads (gunicorn --threads, make_server(threaded)).    *)
(*                                                                         *)
(* The state is the module-level dictionaries of relay.py.  They are       *)
(* guarded by several locks; a handler is cut into the steps between which *)
(* another thread can be seen to interfere:                                *)
(*                                                                         *)
(*   every section under api_v1_terminal_transition_lock (cancel, accept a *)
(*   response, progress, control, unregister, the pending recheck of       *)
(*   retrieve) is one step: what other threads can do inside it without    *)
(*   that lock commutes with the rest of the section;                      *)
(*   submit is two steps, as it marks the request pending before it        *)
(*   queues it and a cancel can run in between (the server lock, which it  *)
(*   holds throughout, keeps unregister out);                              *)
(*   poll is heartbeat, pop, claim and in-flight entry, each under its own *)
(*   lock; cancel looks the token up before it cancels; retrieve pops the  *)
(*   response before it looks at what is pending;                          *)
(*   eviction revalidates candidates it collected in an earlier step.      *)
(*                                                                         *)
(* Requests are named by fresh uuids (utils/crypto_helpers.py, static/     *)
(* chat.js, api/v1/compute_provider.py), so each is submitted once and     *)
(* stands for its (client key, request id) pair.                           *)
(*                                                                         *)
(* A definition X_Y commented "Fault" is not part of the model: it is X    *)
(* with a plausible mistake, and some property fails when it replaces X.   *)
(***************************************************************************)
EXTENDS Integers, Sequences, FiniteSets, ListFilter

CONSTANTS
    Node,             \* compute node public keys
    Request,          \* (client public key, request id) pairs
    Thread,           \* request threads of the relay process
    None,
    DeadlineSeconds,  \* _api_v1_request_deadline_seconds
    LeaseSeconds,     \* _api_v1_lease_seconds
    InFlightSeconds,  \* _api_v1_in_flight_ttl_seconds
    PollWaitSeconds,  \* _api_v1_poll_wait_seconds
    TerminalSeconds,  \* TERMINAL_REQUEST_TTL_SECONDS
    TombstoneSeconds, \* _api_v1_control_tombstone_ttl_seconds
    UnregisterSeconds,\* _API_V1_UNREGISTER_TOMBSTONE_TTL_SECONDS
    MaxTime,          \* bound: last instant of the clock
    MaxCredential     \* bound: credentials ever issued

\* The getters clamp their settings: every period is at least one tick, and
\* only the poll wait may be zero.
PeriodsValid ==
    /\ {DeadlineSeconds, LeaseSeconds, InFlightSeconds, TerminalSeconds,
        TombstoneSeconds, UnregisterSeconds} \subseteq Nat \ {0}
    /\ PollWaitSeconds \in Nat
    /\ MaxTime \in Nat /\ MaxCredential \in Nat

ASSUME PeriodAssumption == PeriodsValid
ASSUME NoneAssumption == None \notin Node \cup Request

VARIABLES
    now,            \* time.monotonic(), time.time() and datetime.now()
    known_servers,  \* node -> [cred, last_ping, polling_until]
    credentials,    \* how many control credentials were issued
    queue,          \* node -> client_inference_requests[node]
    in_flight,      \* node -> (request -> expires_at of its accounting lease)
    deadline,       \* request -> the deadline it was admitted with, 0 before
    pending,        \* client_pending_request_ids
    responses,      \* client_responses
    progress,       \* client_progress
    terminal_ids,   \* request -> [status, expires]
    outcomes,       \* request -> expires_at in client_terminal_outcomes
    tombstones,     \* <<node, request>> -> [cred, status, expires]
    unregistered,   \* node -> when it was last unregistered
    thread,         \* thread -> where its handler is, and its locals
    work,           \* <<node, request, cred>>: what poll has handed out
    client          \* request -> what its requester knows

\* _ALLOWED_API_V1_TERMINAL_STATUSES
Status == {"cancelled", "expired"}

registry == <<known_servers, credentials, unregistered>>
ledger == <<terminal_ids, outcomes>>
lifecycle == <<queue, in_flight, pending, progress, ledger, tombstones>>
vars == <<now, registry, lifecycle, deadline, responses, thread, work, client>>
--------------------------------------------------------------------------------
Drop(f, K) == [x \in DOMAIN f \ K |-> f[x]]
Put(f, k, v) == [x \in DOMAIN f \cup {k} |-> IF x = k THEN v ELSE f[x]]
Min2(a, b) == IF a <= b THEN a ELSE b
Empty == [x \in {} |-> None]

Registered(n) == n \in DOMAIN known_servers
Authenticated(n, cred) == Registered(n) /\ known_servers[n].cred = cred
Overdue(r) == deadline[r] <= now
Queued(q, r) == \E n \in Node : r \in Elements(q[n])
Flying(f, r) == \E n \in Node : r \in DOMAIN f[n]

\* Some stage of the request's lifecycle is recorded.
Owned(r) == r \in pending \/ Queued(queue, r) \/ Flying(in_flight, r)

\* _get_terminal_request forgets an entry it finds expired.
Terminal(r) == r \in DOMAIN terminal_ids /\ terminal_ids[r].expires > now
TerminalRead(r) ==
    terminal_ids' = IF Terminal(r) THEN terminal_ids ELSE Drop(terminal_ids, {r})

\* Threads
Idle == [pc |-> "idle", op |-> "none", node |-> None, req |-> None, cred |-> 0,
         stale |-> {}, cutoff |-> 0, until |-> 0]
At(t, pc) == thread[t].pc = pc
Goto(t, pc) == thread' = [thread EXCEPT ![t].pc = pc]
Return(t) == thread' = [thread EXCEPT ![t] = Idle]

\* submit holds server_round_robin_lock while it marks and queues a request.  A
\* cancel takes that lock only for the in-flight table, which submit leaves
\* alone, so it is not made to wait.
ServerLockFree == \A t \in Thread : ~At(t, "enqueue")
--------------------------------------------------------------------------------
(* Terminal transitions                                                    *)

KeptTerminals == {r \in DOMAIN terminal_ids : terminal_ids[r].expires > now}
KeptOutcomes == {r \in DOMAIN outcomes : outcomes[r] > now}
KeptTombstones == {k \in DOMAIN tombstones : tombstones[k].expires > now}

\* _prune_terminal_requests, then _mark_request_terminal for every r in R.  A
\* request that is terminal already keeps its first status, and an outcome is
\* recorded only when none is remembered.
MarkTerminal(R, status) ==
    LET marked == R \ KeptTerminals
        fresh == marked \ KeptOutcomes IN
    /\ terminal_ids' = [r \in KeptTerminals \cup R |->
         IF r \in KeptTerminals THEN terminal_ids[r]
         ELSE [status |-> status, expires |-> now + TerminalSeconds]]
    /\ outcomes' = [r \in KeptOutcomes \cup fresh |->
         IF r \in fresh THEN now + TerminalSeconds ELSE outcomes[r]]

\* _add_api_v1_control_tombstone for every pair in S, after pruning.
AddTombstones(S, status) ==
    tombstones' = IF S = {} THEN tombstones ELSE
        [k \in KeptTombstones \cup S |->
            IF k \in S
            THEN [cred |-> known_servers[k[1]].cred, status |-> status,
                  expires |-> now + TombstoneSeconds]
            ELSE tombstones[k]]

\* Fault: a cancel that finds nothing to remove still records an outcome.
Cancelled_Always(R, q, f) == R \ responses

\* Requests of R that a cancel takes out of some stage of their lifecycle.  A
\* queued response wins over the cancel.
Cancelled(R, q, f) ==
    {r \in R \ responses : r \in pending \/ Queued(q, r) \/ Flying(f, r)}

\* The owners of R that a cancel tells to stop.
Stopped(R, f) == {k \in Node \X (R \ responses) : k[2] \in DOMAIN f[k[1]]}

\* What every cancel of the requests R does to queue q, in-flight table f and
\* the requester's side; the caller decides about tombstones and terminals.
Withdraw(R, q, f) ==
    /\ progress' = progress \ R
    /\ pending' = pending \ R
    /\ queue' = [n \in Node |-> Without(q[n], R)]
    /\ in_flight' = [n \in Node |-> Drop(f[n], R)]

\* _cancel_api_v1_request
Cancel(R, status) ==
    /\ Withdraw(R, queue, in_flight)
    /\ AddTombstones(Stopped(R, in_flight), status)
    /\ IF Cancelled(R, queue, in_flight) = {} THEN UNCHANGED ledger
       ELSE MarkTerminal(Cancelled(R, queue, in_flight), status)
--------------------------------------------------------------------------------
(* _evict_stale_servers                                                    *)

\* What no heartbeat, waiting poll or running lease keeps alive at instant at.
Quiet(n, at) ==
    /\ known_servers[n].polling_until <= at
    /\ \A r \in DOMAIN in_flight[n] : in_flight[n][r] <= at
    /\ now - known_servers[n].last_ping > LeaseSeconds

\* _expire_stale_pending_requests and _prune_api_v1_stale_in_flight_entries: a
\* lease may run out and be renewed, only the deadline ends a request.
OverduePending == {r \in pending \ responses : Overdue(r)}
OverdueInFlight ==
    {r \in Request : Overdue(r) /\ \E n \in DOMAIN known_servers :
                        r \in DOMAIN in_flight[n] /\ in_flight[n][r] <= now}

Body(op) == CASE op = "submit" -> "admit" [] op = "poll" -> "heartbeat"
              [] op = "control" -> "control"

\* A submit, poll or control call arrives and runs the first part of
\* _evict_stale_servers: expire what is overdue, collect stale servers.
Call(t, op, n, r, cred) ==
    /\ At(t, "idle")
    /\ LET R == OverduePending \cup OverdueInFlight
           S == Stopped(R, in_flight)
           stale == {<<m, known_servers[m].cred>> :
                        m \in {s \in DOMAIN known_servers : Quiet(s, now)}} IN
       /\ Withdraw(R, queue, in_flight)
       /\ MarkTerminal(Cancelled(R, queue, in_flight), "expired")
       /\ IF S = {} THEN tombstones' = Drop(tombstones, DOMAIN tombstones \ KeptTombstones)
          ELSE AddTombstones(S, "expired")
       /\ thread' = [thread EXCEPT ![t] =
            [Idle EXCEPT !.pc = IF stale = {} THEN Body(op) ELSE "evict",
                         !.op = op, !.node = n, !.req = r, !.cred = cred,
                         !.stale = stale,
                         !.cutoff = IF stale = {} THEN 0 ELSE now]]
    /\ UNCHANGED <<now, registry, deadline, responses, work>>

\* Fault: the stop instructions are left to _cancel_api_v1_request, which no
\* longer finds the in-flight entries.
StopsAt_None(n) == {}

\* The owner at n of everything in flight there without a response.
StopsAt(n) == {n} \X (DOMAIN in_flight[n] \ responses)

\* _unregister_server: the registration, its queue and its in-flight entries go
\* together; what was queued or computed is cancelled, and each owner's stop
\* instruction carries the credential of the registration that ends.
Unregistered(n) ==
    LET q == [queue EXCEPT ![n] = <<>>]
        f == [in_flight EXCEPT ![n] = Empty]
        flying == DOMAIN in_flight[n] \ responses
        R == Elements(queue[n]) \cup flying IN
    /\ known_servers' = Drop(known_servers, {n})
    /\ unregistered' = Put(unregistered, n, now)
    /\ Withdraw(R, q, f)
    /\ AddTombstones(Stopped(R, f) \cup StopsAt(n), "cancelled")
    /\ IF Cancelled(R, q, f) = {} THEN UNCHANGED ledger
       ELSE MarkTerminal(Cancelled(R, q, f), "cancelled")
    /\ UNCHANGED <<now, credentials, deadline, responses, work, client>>

\* Between the scan and the removal the node may have polled, renewed or
\* registered anew.
StillStale(k, cutoff) ==
    /\ Registered(k[1])
    /\ known_servers[k[1]].cred = k[2]
    /\ Quiet(k[1], cutoff)

Evict(t) ==
    /\ At(t, "evict")
    /\ ServerLockFree
    /\ \E k \in thread[t].stale :
         LET rest == thread[t].stale \ {k} IN
         /\ thread' = [thread EXCEPT
              ![t].stale = rest,
              ![t].pc = IF rest = {} THEN Body(thread[t].op) ELSE "evict",
              ![t].cutoff = IF rest = {} THEN 0 ELSE thread[t].cutoff]
         /\ IF StillStale(k, thread[t].cutoff) THEN Unregistered(k[1])
            ELSE UNCHANGED <<now, registry, lifecycle, deadline, responses, work, client>>
--------------------------------------------------------------------------------
(* Registration                                                            *)

\* /servers/register: a live registration keeps its credential, a new one gets
\* the next.
Register(n) ==
    /\ ServerLockFree
    /\ \/ /\ Registered(n)
          /\ known_servers' = [known_servers EXCEPT ![n].last_ping = now]
          /\ UNCHANGED credentials
       \/ /\ ~Registered(n)
          /\ credentials < MaxCredential
          /\ credentials' = credentials + 1
          /\ known_servers' = Put(known_servers, n,
               [cred |-> credentials + 1, last_ping |-> now, polling_until |-> 0])
    /\ UNCHANGED <<now, unregistered, lifecycle, deadline, responses, thread,
                   work, client>>

\* /servers/unregister with the owner's credential; any other changes nothing.
Unregister(n) ==
    /\ Registered(n)
    /\ ServerLockFree
    /\ Unregistered(n)
    /\ UNCHANGED thread
--------------------------------------------------------------------------------
(* /servers/poll, after eviction                                           *)

\* No poll waits past the last instant of the modelled time.
Heartbeat(t) ==
    LET n == thread[t].node IN
    /\ At(t, "heartbeat")
    /\ ServerLockFree
    /\ \/ /\ ~Registered(n)
          /\ Return(t)
          /\ UNCHANGED known_servers
       \/ /\ Registered(n)
          /\ known_servers' = [known_servers EXCEPT
               ![n].last_ping = now, ![n].polling_until = now + PollWaitSeconds]
          /\ thread' = [thread EXCEPT ![t].pc = "pop",
                                      ![t].until = Min2(now + PollWaitSeconds, MaxTime)]
    /\ UNCHANGED <<now, credentials, unregistered, lifecycle, deadline,
                   responses, work, client>>

\* _pop_next_api_v1_request on a queue of API v1 envelopes.
Popped(q) == Tail(q)

\* One turn of the wait loop.  An overdue head is dropped and the loop goes on;
\* an empty queue is waited for until the poll's own deadline.
Pop(t) ==
    LET n == thread[t].node IN
    /\ At(t, "pop")
    /\ \/ /\ ~Registered(n)
          /\ Return(t)
          /\ UNCHANGED queue
       \/ /\ Registered(n) /\ queue[n] # <<>>
          /\ queue' = [queue EXCEPT ![n] = Popped(@)]
          /\ thread' = [thread EXCEPT
               ![t].req = Head(queue[n]),
               ![t].pc = IF Overdue(Head(queue[n])) THEN "drop" ELSE "claim"]
       \/ /\ Registered(n) /\ queue[n] = <<>>
          /\ thread[t].until <= now
          /\ Goto(t, "claim")
          /\ UNCHANGED queue
    /\ UNCHANGED <<now, registry, in_flight, pending, progress, ledger,
                   tombstones, deadline, responses, work, client>>

DropOverdue(t) ==
    /\ At(t, "drop")
    /\ Cancel({thread[t].req}, "expired")
    /\ thread' = [thread EXCEPT ![t].pc = "pop", ![t].req = None]
    /\ UNCHANGED <<now, registry, deadline, responses, work, client>>

\* _api_v1_server_was_recently_unregistered, which forgets what is old.
RecentlyUnregistered ==
    {n \in DOMAIN unregistered : now - unregistered[n] <= UnregisterSeconds}

\* Fault: the claimed request is forgotten with the poll.
GiveUp_Silent(t) ==
    /\ Return(t)
    /\ UNCHANGED <<known_servers, unregistered, lifecycle, deadline>>

\* _server_not_found_response: the claimed request is given up.
GiveUp(t) ==
    /\ unregistered' = Drop(unregistered, DOMAIN unregistered \ RecentlyUnregistered)
    /\ Cancel({thread[t].req},
              IF thread[t].node \in RecentlyUnregistered THEN "cancelled" ELSE "expired")
    /\ Return(t)
    /\ UNCHANGED <<known_servers, deadline>>

\* The node stops waiting; a request that became overdue is not handed out.
Claim(t) ==
    LET n == thread[t].node
        r == thread[t].req IN
    /\ At(t, "claim")
    /\ ServerLockFree
    /\ \/ /\ ~Registered(n) /\ r = None
          /\ Return(t)
          /\ UNCHANGED <<known_servers, unregistered, lifecycle, deadline>>
       \/ /\ ~Registered(n) /\ r # None
          /\ GiveUp(t)
       \/ /\ Registered(n) /\ r = None
          /\ known_servers' = [known_servers EXCEPT
               ![n].polling_until = 0, ![n].last_ping = now]
          /\ Return(t)
          /\ UNCHANGED <<unregistered, lifecycle, deadline>>
       \/ /\ Registered(n) /\ r # None
          /\ known_servers' = [known_servers EXCEPT ![n].polling_until = 0]
          /\ IF Overdue(r) THEN Cancel({r}, "expired") /\ Return(t)
             ELSE Goto(t, "insert") /\ UNCHANGED lifecycle
          /\ UNCHANGED <<unregistered, deadline>>
    /\ UNCHANGED <<now, credentials, responses, work, client>>

\* The in-flight entry is written and the request handed to the node.
Insert(t) ==
    LET n == thread[t].node
        r == thread[t].req IN
    /\ At(t, "insert")
    /\ ServerLockFree
    /\ \/ /\ ~Registered(n)
          /\ GiveUp(t)
          /\ UNCHANGED work
       \/ /\ Registered(n)
          /\ in_flight' = [in_flight EXCEPT ![n] =
               Put(@, r, Min2(now + InFlightSeconds, deadline[r]))]
          /\ work' = work \cup {<<n, r, known_servers[n].cred>>}
          /\ Return(t)
          /\ UNCHANGED <<known_servers, unregistered, queue, pending, progress,
                         ledger, tombstones, deadline>>
    /\ UNCHANGED <<now, credentials, responses, client>>
--------------------------------------------------------------------------------
(* /requests, after eviction                                               *)

\* _mark_request_pending: the deadline is part of the entry, and of the envelope.
MarkPending(r) ==
    /\ pending' = pending \cup {r}
    /\ deadline' = [deadline EXCEPT ![r] = now + DeadlineSeconds]

Admit(t) ==
    LET n == thread[t].node
        r == thread[t].req IN
    /\ At(t, "admit")
    /\ ServerLockFree
    /\ \/ /\ ~Registered(n)
          /\ client' = [client EXCEPT ![r] = "refused"]
          /\ Return(t)
          /\ UNCHANGED <<pending, deadline>>
       \/ /\ Registered(n)
          /\ MarkPending(r)
          /\ Goto(t, "enqueue")
          /\ UNCHANGED client
    /\ UNCHANGED <<now, registry, queue, in_flight, progress, ledger,
                   tombstones, responses, work>>

Enqueue(t) ==
    LET n == thread[t].node
        r == thread[t].req IN
    /\ At(t, "enqueue")
    /\ queue' = [queue EXCEPT ![n] = Append(@, r)]
    /\ client' = [client EXCEPT ![r] = "waiting"]
    /\ Return(t)
    /\ UNCHANGED <<now, registry, in_flight, pending, progress, ledger,
                   tombstones, deadline, responses, work>>
--------------------------------------------------------------------------------
(* /requests/cancel                                                        *)

\* _cancel_token_for_queued_or_in_flight_request finds the requester's token.
CancelLookup(t, r) ==
    /\ At(t, "idle")
    /\ Owned(r)
    /\ thread' = [thread EXCEPT ![t] = [Idle EXCEPT !.pc = "cancel", !.req = r]]
    /\ UNCHANGED <<now, registry, lifecycle, deadline, responses, work, client>>

\* _sanitize_terminal_status
Sanitized(status) == IF status \in Status THEN status ELSE "cancelled"

CancelRequest(t, status) ==
    /\ At(t, "cancel")
    /\ Cancel({thread[t].req}, Sanitized(status))
    /\ Return(t)
    /\ UNCHANGED <<now, registry, deadline, responses, work, client>>
--------------------------------------------------------------------------------
(* /responses and /progress, one section under the transition lock         *)

\* Fault: neither a late response nor its requester expires a request.
Lapsed_Never(r) == FALSE

\* _expire_pending_request_if_stale
Lapsed(r) == r \in pending /\ Overdue(r)

\* Accepting takes the request out of every stage.  The first matching
\* in-flight entry is taken; a request that was submitted once has one.
Taken(r) ==
    /\ queue' = [n \in Node |-> Without(queue[n], {r})]
    /\ in_flight' = [n \in Node |-> Drop(in_flight[n], {r})]
    /\ pending' = pending \ {r}

\* The worker is too late: the request is expired here and now.
ResponseOverdue(r) ==
    /\ Lapsed(r)
    /\ Cancel({r}, "expired")
    /\ UNCHANGED responses

\* _record_request_terminal_outcome_once does not ask whether the outcome it
\* finds has expired.
ResponseAccepted(r) ==
    /\ Owned(r) /\ ~Lapsed(r)
    /\ Taken(r)
    /\ TerminalRead(r)
    /\ IF r \in DOMAIN outcomes
       THEN UNCHANGED <<outcomes, progress, responses>>
       ELSE /\ outcomes' = Put(outcomes, r, now + TerminalSeconds)
            /\ progress' = progress \ {r}
            /\ responses' = responses \cup {r}
    /\ UNCHANGED tombstones

\* _has_request_terminal_outcome forgets an outcome it finds expired.
OutcomeRead(r) ==
    outcomes' = IF r \in KeptOutcomes THEN outcomes ELSE Drop(outcomes, {r})

\* Fault: a response nobody waits for is queued like any other.
ResponseGone_Queued(r) ==
    /\ ~Owned(r)
    /\ TerminalRead(r)
    /\ OutcomeRead(r)
    /\ responses' = responses \cup {r}
    /\ UNCHANGED <<queue, in_flight, pending, progress, tombstones>>

\* Nobody waits for it.
ResponseGone(r) ==
    /\ ~Owned(r)
    /\ TerminalRead(r)
    /\ OutcomeRead(r)
    /\ UNCHANGED <<queue, in_flight, pending, progress, tombstones, responses>>

\* A worker posts the result of work it was handed; it may post it again.
Response(r) ==
    /\ \E k \in work : k[2] = r
    /\ ~Terminal(r)
    /\ r \notin responses
    /\ ResponseOverdue(r) \/ ResponseAccepted(r) \/ ResponseGone(r)
    /\ UNCHANGED <<now, registry, deadline, thread, work, client>>

\* Progress of the live owner replaces what is stored.
Progress(n, r, cred) ==
    /\ <<n, r, cred>> \in work
    /\ Authenticated(n, cred)
    /\ r \in DOMAIN in_flight[n] /\ ~Overdue(r)
    /\ progress' = progress \cup {r}
    /\ UNCHANGED <<now, registry, queue, in_flight, pending, ledger, tombstones,
                   deadline, responses, thread, work, client>>
--------------------------------------------------------------------------------
(* /servers/control, after eviction                                        *)

\* The answer a control poll gets, by the order of the handler's checks.
ControlAnswer(n, r, cred) ==
    IF Registered(n) /\ ~Authenticated(n, cred) THEN "forbidden"
    ELSE IF Registered(n) /\ r \in DOMAIN in_flight[n]
         THEN IF Overdue(r) THEN "overdue" ELSE "active"
    ELSE IF <<n, r>> \in KeptTombstones
         THEN IF tombstones[<<n, r>>].cred = cred
              THEN tombstones[<<n, r>>].status ELSE "forbidden"
    ELSE IF Registered(n) THEN "completed/unavailable" ELSE "forbidden"

Control(t, acknowledge) ==
    LET n == thread[t].node
        r == thread[t].req
        answer == ControlAnswer(n, r, thread[t].cred) IN
    /\ At(t, "control")
    /\ ServerLockFree
    /\ \/ /\ answer = "active"
          /\ in_flight' = [in_flight EXCEPT
               ![n][r] = Min2(now + InFlightSeconds, deadline[r])]
          /\ UNCHANGED <<queue, pending, progress, ledger, tombstones>>
       \/ /\ answer = "overdue"
          /\ Cancel({r}, "expired")
       \/ /\ answer \in {"cancelled", "expired"}
          /\ tombstones' = IF acknowledge THEN Drop(tombstones, {<<n, r>>})
                           ELSE tombstones
          /\ UNCHANGED <<queue, in_flight, pending, progress, ledger>>
       \/ /\ answer \in {"forbidden", "completed/unavailable"}
          /\ UNCHANGED lifecycle
    /\ Return(t)
    /\ UNCHANGED <<now, registry, deadline, responses, work, client>>
--------------------------------------------------------------------------------
(* /responses/retrieve                                                     *)

\* _pop_client_response
PopResponse(r) == responses' = responses \ {r} /\ pending' = pending \ {r}

\* A decided request answers at once.  The reply that carries a response is
\* sent once; if it is lost the requester asks again.
Retrieve(t, r, lost) ==
    /\ client[r] = "waiting"
    /\ At(t, "idle")
    /\ TerminalRead(r)
    /\ \/ /\ Terminal(r)
          /\ responses' = responses \ {r}
          /\ client' = [client EXCEPT ![r] = "gone"]
          /\ UNCHANGED <<pending, thread>>
       \/ /\ ~Terminal(r) /\ r \in responses
          /\ PopResponse(r)
          /\ client' = IF lost THEN client ELSE [client EXCEPT ![r] = "delivered"]
          /\ UNCHANGED thread
       \/ /\ ~Terminal(r) /\ r \notin responses
          /\ thread' = [thread EXCEPT ![t] = [Idle EXCEPT !.pc = "settle", !.req = r]]
          /\ UNCHANGED <<pending, responses, client>>
    /\ UNCHANGED <<now, registry, queue, in_flight, progress, outcomes,
                   tombstones, deadline, work>>

\* A reply counts for a requester that still waits for one.
Answer(r, a) ==
    client' = IF client[r] = "waiting" THEN [client EXCEPT ![r] = a] ELSE client

\* Nothing was queued a moment ago: expire it, report it pending (with the
\* latest progress), or say it is unknown.
Settle(t) ==
    LET r == thread[t].req IN
    /\ At(t, "settle")
    /\ Return(t)
    /\ \/ /\ Lapsed(r)
          /\ Cancel({r}, "expired")
          /\ Answer(r, "gone")
       \/ /\ ~Lapsed(r)
          /\ TerminalRead(r)
          /\ IF Terminal(r)
             THEN Answer(r, "gone") /\ UNCHANGED progress
             ELSE IF r \in pending
             THEN progress' = progress \ {r} /\ UNCHANGED client
             ELSE Answer(r, "unknown") /\ UNCHANGED progress
          /\ UNCHANGED <<queue, in_flight, pending, outcomes, tombstones>>
    /\ UNCHANGED <<now, registry, deadline, responses, work>>
--------------------------------------------------------------------------------
\* The bound: a submit on its way is admitted early enough for its deadline to
\* pass within the modelled time.
Tick ==
    /\ now < MaxTime
    /\ \A t \in Thread : thread[t].op = "submit" /\ ~At(t, "enqueue")
                         => now + 1 + DeadlineSeconds <= MaxTime
    /\ now' = now + 1
    /\ UNCHANGED <<registry, lifecycle, deadline, responses, thread, work, client>>

Init ==
    /\ now = 1
    /\ known_servers = Empty /\ credentials = 0 /\ unregistered = Empty
    /\ queue = [n \in Node |-> <<>>]
    /\ in_flight = [n \in Node |-> Empty]
    /\ deadline = [r \in Request |-> 0]
    /\ pending = {} /\ responses = {} /\ progress = {}
    /\ terminal_ids = Empty /\ outcomes = Empty
    /\ tombstones = Empty
    /\ thread = [t \in Thread |-> Idle]
    /\ work = {}
    /\ client = [r \in Request |-> "new"]

\* A requester submits once.
SubmitCall(t, n, r) ==
    /\ client[r] = "new"
    /\ now + DeadlineSeconds <= MaxTime
    /\ Call(t, "submit", n, r, 0)
    /\ client' = [client EXCEPT ![r] = "sent"]

PollCall(t, n) == Call(t, "poll", n, None, 0) /\ UNCHANGED client

ControlCall(t, k) ==
    k \in work /\ Call(t, "control", k[1], k[2], k[3]) /\ UNCHANGED client

\* A thread with a handler in hand takes its next step.
Step(t) ==
    \/ Evict(t) \/ Heartbeat(t) \/ Pop(t) \/ DropOverdue(t) \/ Claim(t)
    \/ Insert(t) \/ Admit(t) \/ Enqueue(t) \/ Settle(t)
    \/ \E status \in Status \cup {"completed"} : CancelRequest(t, status)
    \/ \E acknowledge \in BOOLEAN : Control(t, acknowledge)

Next ==
    \/ \E t \in Thread :
         \/ Step(t)
         \/ \E n \in Node : PollCall(t, n) \/ \E r \in Request : SubmitCall(t, n, r)
         \/ \E k \in work : ControlCall(t, k)
         \/ \E r \in Request : CancelLookup(t, r) \/ \E lost \in BOOLEAN : Retrieve(t, r, lost)
    \/ \E n \in Node : Register(n) \/ Unregister(n)
    \/ \E r \in Request : Response(r)
    \/ \E k \in work : Progress(k[1], k[2], k[3])
    \/ Tick

Spec == Init /\ [][Next]_vars

\* A handler that started runs to its end, time passes, and a waiting requester
\* keeps asking and is served in turn.
Fairness ==
    /\ \A t \in Thread : WF_vars(Step(t))
    /\ WF_vars(Tick)
    /\ \A r \in Request : SF_vars(\E t \in Thread, lost \in BOOLEAN : Retrieve(t, r, lost))
FairSpec == Spec /\ Fairness
--------------------------------------------------------------------------------
(* Types                                                                   *)

Time == Nat
Pc == {"idle", "evict", "heartbeat", "pop", "drop", "claim", "insert", "admit",
       "enqueue", "cancel", "control", "settle"}
Operation == {"none", "submit", "poll", "control"}
IsMap(f, D) == f = [x \in DOMAIN f |-> f[x]] /\ DOMAIN f \subseteq D
Values(f, R) == \A x \in DOMAIN f : f[x] \in R

ThreadRecord ==
    [pc : Pc, op : Operation, node : Node \cup {None}, req : Request \cup {None},
     cred : Nat, stale : SUBSET (Node \X Nat), cutoff : Time, until : Time]

ThreadTypeOK == thread \in [Thread -> ThreadRecord]

ServerRecord == [cred : Nat, last_ping : Time, polling_until : Time]

RegistryTypeOK ==
    /\ now \in Time /\ credentials \in Nat
    /\ IsMap(known_servers, Node)
    /\ Values(known_servers, ServerRecord)
    /\ IsMap(unregistered, Node) /\ Values(unregistered, Time)

LifecycleTypeOK ==
    /\ queue \in [Node -> Seq(Request)]
    /\ in_flight = [n \in Node |-> in_flight[n]]
    /\ \A n \in Node : IsMap(in_flight[n], Request) /\ Values(in_flight[n], Time)
    /\ pending \subseteq Request /\ progress \subseteq Request

LedgerTypeOK ==
    /\ IsMap(terminal_ids, Request)
    /\ Values(terminal_ids, [status : Status, expires : Time])
    /\ IsMap(outcomes, Request) /\ Values(outcomes, Time)
    /\ IsMap(tombstones, Node \X Request)
    /\ Values(tombstones, [cred : Nat, status : Status, expires : Time])

RequestTypeOK ==
    /\ deadline \in [Request -> Time]
    /\ responses \subseteq Request
    /\ work \subseteq Node \X Request \X Nat
    /\ client \in [Request ->
         {"new", "sent", "refused", "waiting", "delivered", "gone", "unknown"}]

\* Every dictionary of relay.py holds what its readers expect of it.
TypeOK ==
    RegistryTypeOK /\ LifecycleTypeOK /\ LedgerTypeOK /\ RequestTypeOK /\ ThreadTypeOK
--------------------------------------------------------------------------------
(* Properties                                                              *)

\* A thread has the request in its hands, between two dictionaries.
Held(t, r) == thread[t].req = r /\ thread[t].pc \in {"enqueue", "drop", "claim", "insert"}
InHand(r) == \E t \in Thread : Held(t, r)

\* One slot of one queue, the hands of one thread, in flight at one node.
OneSlot ==
    \A n, m \in Node : \A i \in DOMAIN queue[n], j \in DOMAIN queue[m] :
        queue[n][i] = queue[m][j] => n = m /\ i = j
OneHand == \A t, u \in Thread, r \in Request : Held(t, r) /\ Held(u, r) => t = u
OneOwner ==
    \A n, m \in Node : DOMAIN in_flight[n] \cap DOMAIN in_flight[m] # {} => n = m

\* A request is in one place at a time (one slot of one queue, one thread's
\* hands, in flight at one node, or answered), so it is handed out, answered or
\* dropped once: neither two polls of one node nor a poll racing an unregister,
\* a cancel or a re-registration can duplicate it (pop, claim and in-flight
\* entry take three different locks).
OneHome ==
    /\ OneSlot /\ OneHand /\ OneOwner
    /\ \A r \in Request :
         /\ Queued(queue, r) => ~InHand(r)
         /\ Queued(queue, r) \/ InHand(r) => ~Flying(in_flight, r)
         /\ Queued(queue, r) \/ InHand(r) \/ Flying(in_flight, r) => r \notin responses

\* A request that is pending is somewhere a poll, a worker or a thread can bring
\* it to its end: unregistering a node between a thread's pop and its in-flight
\* entry must not leave a request that only its deadline can end.
NoStrandedRequest ==
    \A r \in pending : Queued(queue, r) \/ InHand(r) \/ Flying(in_flight, r)

\* Work waits only at registered nodes: submit checks the registration and
\* queues under one lock, and unregister takes the queue with the node.
WorkAtRegisteredNodes ==
    \A n \in Node : ~Registered(n) => queue[n] = <<>> /\ DOMAIN in_flight[n] = {}

\* No request is both answered and terminal: cancel, expiry, unregister and
\* response acceptance race for it and exactly one of them wins.
CompletedNotTerminal ==
    \A r \in Request : r \in responses \/ client[r] = "delivered" => ~Terminal(r)

\* The tables of relay.py, each under its own lock, agree at every step.
RecordsAgree == TypeOK /\ OneHome /\ WorkAtRegisteredNodes /\ CompletedNotTerminal

\* Whoever loses its in-flight entry can find out why: it posted the response
\* itself, or a stop instruction with its registration's credential is there.
OwnerIsTold ==
    [][\A n \in Node : \A r \in DOMAIN in_flight[n] :
         r \in DOMAIN in_flight'[n] \/ Response(r)
         \/ /\ <<n, r>> \in DOMAIN tombstones'
            /\ tombstones'[<<n, r>>].cred = known_servers[n].cred
            /\ tombstones'[<<n, r>>].expires > now]_vars

\* The stage of a request, as the dictionaries and the threads' locals show it.  A
\* cancel or an expiry takes it from pending although a poll's thread may still
\* have it and enter it in flight.
Stage(r) ==
    IF deadline[r] = 0 THEN "absent"
    ELSE IF r \in responses THEN "answered"
    ELSE IF r \in pending THEN "pending"
    ELSE IF Owned(r) \/ InHand(r) THEN "withdrawn" ELSE "over"

\* The final answer the requester has, if any.
Told(r) == IF client[r] \in {"delivered", "gone", "unknown"} THEN client[r] ELSE "nothing"

Lifecycle == INSTANCE RequestLifecycle WITH
    status <- [r \in Request |-> Stage(r)],
    told <- [r \in Request |-> Told(r)],
    recorded <- {r \in Request : Terminal(r)}

\* The handlers, with all their races, implement the abstract lifecycle, although
\* no single dictionary or lock records it: a request is admitted once; it is
\* answered at most once and never against an unexpired terminal record; every other
\* end of a pending request leaves such a record for its requester to find; and
\* what is over never comes back.
ImplementsLifecycle == Lifecycle!Spec

\* Every admitted request is answered, cancelled or expired in the end, and its
\* requester hears of it.
RequestAnswered ==
    \A r \in Request : client[r] = "waiting"
        ~> client[r] \in {"delivered", "gone", "unknown"}
================================================================================
