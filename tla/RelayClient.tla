---------------------------- MODULE RelayClient ----------------------------
(***************************************************************************)
(* The compute node's relay client (utils/networking/relay_client.py) with *)
(* the threads that share one RelayClient object:                          *)
(*   poll  the poll thread: registration, long poll, request processing    *)
(*         and inference supervision (poll_api_v1_encrypted_work_          *)
(*         continuously and everything it calls);                          *)
(*   hb    the lease-refreshing heartbeat worker of one request;           *)
(*   op    the thread that stops the node (ComputeNodeRuntime.stop: stop() *)
(*         and unregister_from_relay());                                   *)
(*   sup   the two futures of the supervisor: inference and control poll.  *)
(* The relays, the model worker and the clock are external.  An HTTP call  *)
(* is two steps, so anything may happen while it is in flight, and its     *)
(* reply may be lost after the relay acted on it.  Ages and deadlines are  *)
(* flags that may turn at any time; wait hints and sleeps are left out.    *)
(***************************************************************************)
EXTENDS Integers, Sequences, FiniteSets, ListFilter

CONSTANTS Relays,            \* relay targets
          RelayUrls,         \* the same targets in configured order (_relay_urls)
          MaxPollFailures,   \* _max_poll_failures_before_stop(); 0 stands for None
          FatalWired         \* fatal_bridge_teardown is set (desktop bridge), or not (server.py)

ASSUME RelayUrlsAssumption ==
    /\ RelayUrls \in Seq(Relays) /\ Len(RelayUrls) > 0
    /\ \A r \in Relays : \E i \in 1 .. Len(RelayUrls) : RelayUrls[i] = r
ASSUME MaxPollFailuresAssumption == MaxPollFailures \in Nat
ASSUME FatalWiredAssumption == FatalWired \in BOOLEAN

VARIABLES
    stopPolling,   \* stop_polling
    stopped,       \* _polling_stopped_by_request
    latched,       \* _api_v1_mutation_latched
    mutations,     \* _api_v1_mutation_count
    registered,    \* _api_v1_registered_relays: the registration evidence
    fresh,         \* relays whose _api_v1_last_heartbeat_at is below the refresh threshold
    creds,         \* relays with an entry in _api_v1_control_credentials_by_relay
    active,        \* _active_relay_index
    workRelay,     \* _last_api_v1_work_relay_url, "none" before any work
    complete,      \* _unregister_complete
    failures,      \* consecutive_failures of the poll loop
    poll,          \* the poll thread: where it is, its candidate and what it saw
    sup,           \* the supervisor's futures and its deadline
    hb,            \* the heartbeat worker and its stop event
    op,            \* the stopping thread
    atRelay,       \* external: relays that hold a registration of this node
    orphaned,      \* history: relays whose evidence was dropped or never arrived
    sent,          \* the response of the current request was handed to HTTP
    crashed        \* fatal_bridge_teardown ended the process

clientVars == <<stopPolling, stopped, latched, mutations, registered, fresh, creds,
                active, workRelay, complete, failures>>
vars == <<clientVars, poll, sup, hb, op, atRelay, orphaned, sent, crashed>>

N == Len(RelayUrls)
IndexOf(r) == (CHOOSE i \in 1 .. N : RelayUrls[i] = r) - 1
Candidate(offset) == RelayUrls[((active + offset) % N) + 1]

PollPcs == {"off", "start", "candidate", "registering", "registered", "send", "polling",
            "apply", "decode", "supervise", "control", "terminate", "quiesce", "submit",
            "posting", "post", "finish", "joining", "exited"}
Verdicts == {"none", "idle", "work", "gone", "refused", "failed", "longpoll"}
Terminals == {"none", "operator_stop", "local_deadline", "relay_terminal",
              "owner_proof_failed", "inference_failure", "missing_control_credential"}
NoRequest == [inference |-> "none", control |-> "none", available |-> FALSE,
              expired |-> FALSE, cancelled |-> FALSE, terminal |-> "none"]

\* The object as __init__ leaves it; no thread runs yet.
Init ==
    /\ stopPolling = TRUE /\ stopped = FALSE /\ latched = FALSE /\ mutations = 0
    /\ registered = {} /\ fresh = {} /\ creds = {} /\ active = 0 /\ workRelay = "none"
    /\ complete = FALSE /\ failures = 0
    /\ poll = [pc |-> "off", offset |-> 0, relay |-> "none", verdict |-> "none"]
    /\ sup = NoRequest
    /\ hb = [pc |-> "off", relay |-> "none", stop |-> FALSE, stopping |-> FALSE]
    /\ op = [pc |-> "idle", todo |-> <<>>, failed |-> FALSE]
    /\ atRelay = {} /\ orphaned = {} /\ sent = FALSE /\ crashed = FALSE

------------------------------------------------------------------------------
(* Shared pieces.  BeginMutation and EndMutation are the two halves of the  *)
(* mutation barrier; Registered and Forget are the writes that a successful *)
(* registration and a lost one make to the evidence.                        *)

BeginMutation == ~latched /\ mutations' = mutations + 1

EndMutation == mutations' = IF mutations > 0 THEN mutations - 1 ELSE 0

\* The body of register_api_v1_compute_node on a 200 reply, inside the mutation.
RecordRegistration(r) ==
    /\ registered' = registered \cup {r}
    /\ creds' = creds \cup {r}
    /\ complete' = FALSE
    /\ orphaned' = orphaned \ {r}

\* What an exception or a 404 does to the evidence of r; the credential is kept.
Forget(r) ==
    /\ registered' = registered \ {r}
    /\ fresh' = fresh \ {r}

\* What a relay does with a registration whose reply the client may not see.
RelayMayHold(r) == atRelay' \in {atRelay, atRelay \cup {r}}

RoundOver == [pc |-> "start", offset |-> 0, relay |-> "none", verdict |-> "none"]

\* The poll of this round is over: an error counts, an answer clears the count.
RoundFailed ==
    /\ failures' = IF MaxPollFailures = 0 THEN 0 ELSE failures + 1
    /\ stopPolling' = (stopPolling \/ (MaxPollFailures > 0 /\ failures + 1 >= MaxPollFailures))
    /\ poll' = RoundOver
RoundAnswered ==
    /\ failures' = 0
    /\ poll' = RoundOver
    /\ UNCHANGED stopPolling

\* The candidate loop of poll_api_v1_encrypted_work goes on, or has run out.
NextCandidate ==
    IF poll.offset + 1 < N
    THEN /\ poll' = [poll EXCEPT !.pc = "candidate", !.offset = @ + 1, !.verdict = "none"]
         /\ UNCHANGED <<failures, stopPolling>>
    ELSE RoundFailed

PollAt(pc) == ~crashed /\ poll.pc = pc
StepTo(pc) == poll' = [poll EXCEPT !.pc = pc]

------------------------------------------------------------------------------
(* The poll thread: session start and the poll loop.                        *)

\* start(): reset_api_v1_polling_session with the code's clear_registration.
Start ==
    LET clear == stopPolling \/ stopped \/ complete IN
    /\ PollAt("off") /\ op.pc = "idle"
    /\ stopPolling' = FALSE /\ stopped' = FALSE /\ latched' = FALSE /\ complete' = FALSE
    /\ registered' = IF clear THEN {} ELSE registered
    /\ fresh' = IF clear THEN {} ELSE fresh
    /\ orphaned' = IF clear THEN orphaned \cup registered ELSE orphaned
    /\ failures' = 0
    /\ StepTo("start")
    /\ UNCHANGED <<mutations, creds, active, workRelay, sup, hb, op, atRelay, sent, crashed>>

\* The loop test, and the entry of poll_api_v1_encrypted_work.
PollStart_NoLoopTest ==   \* Fault: the loop does not read stop_polling and goes round
    /\ PollAt("start")
    /\ IF stopped \/ stopPolling THEN poll' = RoundOver /\ UNCHANGED <<failures, stopPolling>>
       ELSE /\ poll' = [poll EXCEPT !.pc = "candidate", !.offset = 0]
            /\ UNCHANGED <<failures, stopPolling>>
    /\ UNCHANGED <<stopped, latched, mutations, registered, fresh, creds, active, workRelay,
                   complete, sup, hb, op, atRelay, orphaned, sent, crashed>>
PollStart ==
    /\ PollAt("start")
    /\ IF stopPolling
       THEN StepTo("exited") /\ UNCHANGED <<failures, stopPolling>>
       ELSE IF stopped THEN RoundFailed
       ELSE /\ poll' = [poll EXCEPT !.pc = "candidate", !.offset = 0]
            /\ UNCHANGED <<failures, stopPolling>>
    /\ UNCHANGED <<stopped, latched, mutations, registered, fresh, creds, active, workRelay,
                   complete, sup, hb, op, atRelay, orphaned, sent, crashed>>

\* One relay of the round: decide whether it must be (re-)registered.
PollCandidate ==
    LET r == Candidate(poll.offset)
        requiresRegister == r \notin registered \/ r \notin fresh IN
    /\ PollAt("candidate")
    /\ \/ /\ stopped
          /\ RoundFailed /\ UNCHANGED mutations
       \/ /\ ~stopped /\ ~requiresRegister
          /\ poll' = [poll EXCEPT !.pc = "send", !.relay = r]
          /\ UNCHANGED <<mutations, failures, stopPolling>>
       \/ /\ ~stopped /\ requiresRegister /\ BeginMutation
          /\ poll' = [poll EXCEPT !.pc = "registering", !.relay = r]
          /\ UNCHANGED <<failures, stopPolling>>
       \/ /\ ~stopped /\ requiresRegister /\ latched     \* 'Relay polling stopped'
          /\ NextCandidate /\ UNCHANGED mutations
    /\ UNCHANGED <<stopped, latched, registered, fresh, creds, active, workRelay, complete,
                   sup, hb, op, atRelay, orphaned, sent, crashed>>

\* The register POST is answered.  The evidence is written inside the mutation.
RegisterSucceeds ==
    LET r == poll.relay IN
    /\ PollAt("registering")
    /\ RecordRegistration(r) /\ EndMutation
    /\ atRelay' = atRelay \cup {r}
    /\ StepTo("registered")
    /\ UNCHANGED <<stopPolling, stopped, latched, fresh, active, workRelay, failures,
                   sup, hb, op, sent, crashed>>

\* A non-200 reply: an error result, nothing changes but the barrier count.
RegisterRefused ==
    /\ PollAt("registering")
    /\ EndMutation /\ NextCandidate
    /\ UNCHANGED <<stopped, latched, registered, fresh, creds, active, workRelay, complete,
                   sup, hb, op, atRelay, orphaned, sent, crashed>>

\* An exception: the relay may have registered the node; evidence is dropped
\* unless Stop has latched.
RegisterRaises ==
    LET r == poll.relay IN
    /\ PollAt("registering")
    /\ EndMutation /\ RelayMayHold(r)
    /\ IF stopped
       THEN RoundFailed /\ UNCHANGED <<registered, fresh>>
       ELSE NextCandidate /\ Forget(r)
    /\ orphaned' = orphaned \cup {r}
    /\ UNCHANGED <<stopped, latched, creds, active, workRelay, complete, sup, hb, op, sent, crashed>>

\* Back in poll_api_v1_encrypted_work, after the mutation has ended: the same
\* evidence is written once more, then the stop flag is read.
BookRegistration ==
    LET r == poll.relay IN
    /\ PollAt("registered")
    /\ registered' = registered \cup {r}
    /\ fresh' = fresh \cup {r}
    /\ complete' = FALSE
    /\ IF stopped THEN RoundFailed ELSE StepTo("send") /\ UNCHANGED <<failures, stopPolling>>
    /\ UNCHANGED <<stopped, latched, mutations, creds, active, workRelay, sup, hb, op,
                   atRelay, orphaned, sent, crashed>>

\* The long poll is sent unless Stop arrived; it is not a counted mutation.
SendPoll ==
    /\ PollAt("send")
    /\ IF stopped THEN RoundFailed ELSE StepTo("polling") /\ UNCHANGED <<failures, stopPolling>>
    /\ UNCHANGED <<stopped, latched, mutations, registered, fresh, creds, active, workRelay,
                   complete, sup, hb, op, atRelay, orphaned, sent, crashed>>

\* The reply, the 404 of a relay that does not know the node, another refusal,
\* an exception, or (single relay) a read timeout after the server's wait.  The
\* stop flag is read here, and the verdict applied in a later step.
PollReply ==
    /\ PollAt("polling")
    /\ \E v \in Verdicts \ {"none"} :
        /\ v \in {"idle", "work"} => poll.relay \in atRelay
        /\ v = "gone" => poll.relay \notin atRelay
        /\ v = "longpoll" => N = 1 /\ poll.relay \in registered
        /\ IF stopped THEN RoundFailed
           ELSE /\ poll' = [poll EXCEPT !.pc = "apply", !.verdict = v]
                /\ UNCHANGED <<failures, stopPolling>>
    /\ UNCHANGED <<stopped, latched, mutations, registered, fresh, creds, active, workRelay,
                   complete, sup, hb, op, atRelay, orphaned, sent, crashed>>

ApplyPoll ==
    LET r == poll.relay IN
    /\ PollAt("apply")
    /\ \/ /\ poll.verdict \in {"idle", "work"}
          /\ fresh' = fresh \cup {r} /\ active' = IndexOf(r) /\ workRelay' = r
          /\ IF poll.verdict = "work"
             THEN failures' = 0 /\ StepTo("decode") /\ UNCHANGED stopPolling
             ELSE RoundAnswered
          /\ UNCHANGED <<registered, orphaned>>
       \/ /\ poll.verdict = "longpoll"
          /\ fresh' = fresh \cup {r}
          /\ RoundAnswered
          /\ UNCHANGED <<registered, orphaned, active, workRelay>>
       \/ /\ poll.verdict \in {"gone", "failed"}
          /\ Forget(r) /\ NextCandidate
          /\ orphaned' = orphaned \cup ({r} \cap atRelay)
          /\ UNCHANGED <<active, workRelay>>
       \/ /\ poll.verdict = "refused"
          /\ NextCandidate
          /\ UNCHANGED <<registered, fresh, orphaned, active, workRelay>>
    /\ UNCHANGED <<stopped, latched, mutations, creds, complete, sup, hb, op, atRelay,
                   sent, crashed>>

------------------------------------------------------------------------------
(* The poll thread: one request, process_client_request_result.             *)

\* A payload that does not validate, decrypt or bind is dropped; one that
\* decrypts to a legacy chat history is answered on the legacy route.
SkipRequest ==
    /\ PollAt("decode")
    /\ RoundAnswered
    /\ UNCHANGED <<stopped, latched, mutations, registered, fresh, creds, active, workRelay,
                   complete, sup, hb, op, atRelay, orphaned, sent, crashed>>

\* The heartbeat worker is started unless one is alive or being stopped.
StartedHeartbeat ==
    IF registered # {} /\ ~hb.stopping /\ hb.pc = "off"
    THEN [hb EXCEPT !.pc = "idle", !.stop = FALSE]
    ELSE hb

\* An API v1 request: heartbeat worker, credential check, inference submitted.
BeginRequest ==
    LET available == workRelay \in registered
        missing == available /\ workRelay \notin creds IN
    /\ PollAt("decode")
    /\ hb' = StartedHeartbeat
    /\ sent' = FALSE
    /\ sup' = [NoRequest EXCEPT
                 !.available = available,
                 !.inference = IF missing THEN "none" ELSE "running",
                 !.terminal = IF missing THEN "missing_control_credential" ELSE "none"]
    /\ StepTo(IF missing THEN "finish" ELSE "supervise")
    /\ UNCHANGED <<clientVars, op, atRelay, orphaned, crashed>>

\* The supervisor decides the request without a result.
Terminal(t) ==
    /\ sup' = [sup EXCEPT !.terminal = t]
    /\ StepTo("terminate")

\* The outer loop of _supervise_api_v1_inference.  Its four tests read state that
\* other threads change, so any of them may be the one that fires.
Supervise_NoDeadline ==   \* Fault: the local deadline is not tested
    /\ PollAt("supervise")
    /\ \/ stopped /\ ~latched /\ Terminal("operator_stop")
       \/ sup.inference = "ok" /\ StepTo("quiesce") /\ UNCHANGED sup
       \/ sup.inference = "raised" /\ Terminal("inference_failure")
       \/ /\ sup.available /\ ~sup.expired
          /\ sup' = [sup EXCEPT !.control = IF workRelay \in creds THEN "inflight" ELSE "denied"]
          /\ StepTo("control")
    /\ UNCHANGED <<clientVars, hb, op, atRelay, orphaned, sent, crashed>>
Supervise ==
    /\ PollAt("supervise")
    /\ \/ stopped /\ ~latched /\ Terminal("operator_stop")
       \/ sup.inference = "ok" /\ StepTo("quiesce") /\ UNCHANGED sup
       \/ sup.inference = "raised" /\ Terminal("inference_failure")
       \/ sup.expired /\ Terminal("local_deadline")
       \/ /\ sup.available /\ ~sup.expired
          /\ sup' = [sup EXCEPT !.control = IF workRelay \in creds THEN "inflight" ELSE "denied"]
          /\ StepTo("control")
    /\ UNCHANGED <<clientVars, hb, op, atRelay, orphaned, sent, crashed>>

\* The inner wait for the control poll.  It does not look at the inference; after
\* an answer it reads the stop flag and the deadline before the status.
AwaitControl ==
    /\ PollAt("control")
    /\ \/ sup.control = "inflight" /\ stopped /\ Terminal("operator_stop")
       \/ sup.control = "inflight" /\ sup.expired /\ Terminal("local_deadline")
       \/ /\ sup.control = "denied"
          /\ sup' = [sup EXCEPT !.control = "none", !.terminal = "owner_proof_failed"]
          /\ StepTo("terminate")
       \/ /\ sup.control = "failed"
          /\ sup' = [sup EXCEPT !.control = "none"]
          /\ StepTo("supervise")
       \/ /\ sup.control \in {"active", "terminal"}
          /\ LET seen == IF stopped THEN "operator_stop"
                         ELSE IF sup.expired THEN "local_deadline"
                         ELSE IF sup.control = "terminal" THEN "relay_terminal" ELSE "none" IN
             /\ sup' = [sup EXCEPT !.control = "none", !.terminal = seen]
             /\ StepTo(IF seen = "none" THEN "supervise" ELSE "terminate")
    /\ UNCHANGED <<clientVars, hb, op, atRelay, orphaned, sent, crashed>>

\* _terminate_current_llama_worker: the killed worker's future raises, or hangs.
TerminateWorker ==
    /\ PollAt("terminate")
    /\ sup' \in {sup, [sup EXCEPT !.inference = IF @ = "running" THEN "raised" ELSE @]}
    /\ StepTo("quiesce")
    /\ UNCHANGED <<clientVars, hb, op, atRelay, orphaned, sent, crashed>>

Quiesced == sup.inference # "running" /\ sup.control # "inflight"

\* The finally block: both futures are done, so their executors shut down.
ReturnFromSupervisor_NoWait ==   \* Fault: the futures are not waited for
    /\ PollAt("quiesce")
    /\ StepTo(IF sup.terminal = "none" THEN "submit" ELSE "finish")
    /\ UNCHANGED <<clientVars, sup, hb, op, atRelay, orphaned, sent, crashed>>
ReturnFromSupervisor_Submits ==   \* Fault: the outcome is not looked at
    /\ PollAt("quiesce") /\ Quiesced
    /\ StepTo("submit")
    /\ UNCHANGED <<clientVars, sup, hb, op, atRelay, orphaned, sent, crashed>>
ReturnFromSupervisor ==
    /\ PollAt("quiesce") /\ Quiesced
    /\ StepTo(IF sup.terminal = "none" THEN "submit" ELSE "finish")
    /\ UNCHANGED <<clientVars, sup, hb, op, atRelay, orphaned, sent, crashed>>

\* A future outlived its deadline.  With the bridge's callback the process ends;
\* without it a hung inference stops polling and its thread is left behind.
AbandonFutures ==
    /\ PollAt("quiesce") /\ ~Quiesced
    /\ IF FatalWired
       THEN crashed' = TRUE /\ UNCHANGED <<clientVars, poll, sup>>
       ELSE /\ stopPolling' = (stopPolling \/ sup.inference = "running")
            /\ stopped' = (stopped \/ sup.inference = "running")
            /\ sup' = [sup EXCEPT !.control = "none"]
            /\ StepTo(IF sup.terminal = "none" THEN "submit" ELSE "finish")
            /\ UNCHANGED <<latched, mutations, registered, fresh, creds, active, workRelay,
                           complete, failures, crashed>>
    /\ UNCHANGED <<hb, op, atRelay, orphaned, sent>>

Suppressed == stopped \/ sup.expired \/ sup.cancelled

\* The recheck before submission, and the mutation that submission is.
Submit ==
    /\ PollAt("submit")
    /\ IF latched \/ Suppressed
       THEN StepTo("finish") /\ UNCHANGED mutations
       ELSE BeginMutation /\ StepTo("posting")
    /\ UNCHANGED <<stopPolling, stopped, latched, registered, fresh, creds, active, workRelay,
                   complete, failures, sup, hb, op, atRelay, orphaned, sent, crashed>>

\* _post_api_v1_response encrypts, rechecks, and only then posts.
PostResponse ==
    /\ PollAt("posting")
    /\ IF Suppressed
       THEN EndMutation /\ StepTo("finish") /\ UNCHANGED sent
       ELSE sent' = TRUE /\ StepTo("post") /\ UNCHANGED mutations
    /\ UNCHANGED <<stopPolling, stopped, latched, registered, fresh, creds, active, workRelay,
                   complete, failures, sup, hb, op, atRelay, orphaned, crashed>>

PostReplied ==
    /\ PollAt("post")
    /\ EndMutation /\ StepTo("finish")
    /\ UNCHANGED <<stopPolling, stopped, latched, registered, fresh, creds, active, workRelay,
                   complete, failures, sup, hb, op, atRelay, orphaned, sent, crashed>>

\* The finally block of the request: its heartbeat worker is told to stop ...
FinishRequest ==
    /\ PollAt("finish")
    /\ hb' = [hb EXCEPT !.stopping = TRUE, !.stop = TRUE]
    /\ StepTo("joining")
    /\ UNCHANGED <<clientVars, sup, op, atRelay, orphaned, sent, crashed>>

\* ... and joined; the join only times out on a worker that is blocked in HTTP.
JoinReturns == hb.pc \in {"off", "registering"}
JoinHeartbeat ==
    /\ PollAt("joining") /\ JoinReturns
    /\ hb' = [hb EXCEPT !.stopping = FALSE]
    /\ RoundAnswered
    /\ sup' = [NoRequest EXCEPT !.inference = IF sup.inference = "running" THEN "running" ELSE "none"]
    /\ sent' = FALSE
    /\ UNCHANGED <<stopped, latched, mutations, registered, fresh, creds, active, workRelay,
                   complete, op, atRelay, orphaned, crashed>>

------------------------------------------------------------------------------
(* The heartbeat worker.                                                    *)

HbAt(pc) == ~crashed /\ hb.pc = pc

HeartbeatRefresh ==
    /\ HbAt("idle") /\ ~hb.stop /\ ~stopped
    /\ \E r \in registered \ fresh : hb' = [hb EXCEPT !.pc = "registering", !.relay = r]
    /\ BeginMutation
    /\ UNCHANGED <<stopPolling, stopped, latched, registered, fresh, creds, active, workRelay,
                   complete, failures, poll, sup, op, atRelay, orphaned, sent, crashed>>

HeartbeatRegistered ==
    /\ HbAt("registering")
    /\ RecordRegistration(hb.relay) /\ EndMutation
    /\ atRelay' = atRelay \cup {hb.relay}
    /\ hb' = [hb EXCEPT !.pc = "book"]
    /\ UNCHANGED <<stopPolling, stopped, latched, fresh, active, workRelay, failures,
                   poll, sup, op, sent, crashed>>

HeartbeatFails ==
    /\ HbAt("registering")
    /\ EndMutation /\ RelayMayHold(hb.relay)
    /\ orphaned' = IF hb.relay \in registered THEN orphaned ELSE orphaned \cup {hb.relay}
    /\ hb' = [hb EXCEPT !.pc = "idle"]
    /\ UNCHANGED <<stopPolling, stopped, latched, registered, fresh, creds, active, workRelay,
                   complete, failures, poll, sup, op, sent, crashed>>

HeartbeatBook ==
    /\ HbAt("book")
    /\ hb' = [hb EXCEPT !.pc = "idle"]
    /\ IF hb.stop \/ stopped THEN UNCHANGED <<registered, fresh>>
       ELSE registered' = registered \cup {hb.relay} /\ fresh' = fresh \cup {hb.relay}
    /\ UNCHANGED <<stopPolling, stopped, latched, mutations, creds, active, workRelay,
                   complete, failures, poll, sup, op, atRelay, orphaned, sent, crashed>>

HeartbeatExits ==
    /\ HbAt("idle") /\ (hb.stop \/ stopped)
    /\ hb' = [hb EXCEPT !.pc = "off", !.relay = "none"]
    /\ UNCHANGED <<clientVars, poll, sup, op, atRelay, orphaned, sent, crashed>>

------------------------------------------------------------------------------
(* The stopping thread: ComputeNodeRuntime.stop.                            *)

OpAt(pc) == ~crashed /\ op.pc = pc
OpTo(pc) == op' = [op EXCEPT !.pc = pc]

\* _api_v1_latch_shutdown writes the flags first ...
StopFlags ==
    /\ OpAt("idle") /\ poll.pc # "off"
    /\ stopPolling' = TRUE /\ stopped' = TRUE
    /\ OpTo("latching")
    /\ UNCHANGED <<latched, mutations, registered, fresh, creds, active, workRelay, complete,
                   failures, poll, sup, hb, atRelay, orphaned, sent, crashed>>

\* ... then closes the mutation barrier and sets the heartbeat's stop event.
StopLatch ==
    /\ OpAt("latching")
    /\ latched' = TRUE
    /\ hb' = [hb EXCEPT !.stop = TRUE, !.stopping = TRUE]
    /\ OpTo("joining")
    /\ UNCHANGED <<stopPolling, stopped, mutations, registered, fresh, creds, active, workRelay,
                   complete, failures, poll, sup, atRelay, orphaned, sent, crashed>>

\* stop() has joined the heartbeat worker (or given up); unregister only if there
\* is registration evidence.
StopDecides ==
    /\ OpAt("joining") /\ JoinReturns
    /\ hb' = [hb EXCEPT !.stopping = FALSE]
    /\ OpTo(IF registered # {} THEN "barrier" ELSE "stopped")
    /\ UNCHANGED <<clientVars, poll, sup, atRelay, orphaned, sent, crashed>>

\* unregister_from_relay: the worker must be gone and every counted mutation over
\* before the deadline, else the evidence is kept for a retry.  The registered relays
\* are tried from the active one on.
UnregisterTargets == Only([i \in 1 .. N |-> Candidate(i - 1)], registered)
PassBarrier_SkipsQuiescence ==   \* Fault: in-flight mutations are not waited for
    /\ OpAt("barrier") /\ hb.pc = "off"
    /\ op' = [pc |-> "unregister", todo |-> UnregisterTargets, failed |-> FALSE]
    /\ UNCHANGED <<clientVars, poll, sup, hb, atRelay, orphaned, sent, crashed>>
PassBarrier ==
    /\ OpAt("barrier") /\ hb.pc = "off" /\ mutations = 0
    /\ op' = [pc |-> "unregister", todo |-> UnregisterTargets, failed |-> FALSE]
    /\ UNCHANGED <<clientVars, poll, sup, hb, atRelay, orphaned, sent, crashed>>

BarrierTimesOut ==
    /\ OpAt("barrier") /\ ~(hb.pc = "off" /\ mutations = 0)
    /\ complete' = FALSE
    /\ OpTo("stopped")
    /\ UNCHANGED <<stopPolling, stopped, latched, mutations, registered, fresh, creds, active,
                   workRelay, failures, poll, sup, hb, atRelay, orphaned, sent, crashed>>

\* One target: refused without a credential, given up at the deadline, or posted.
UnregisterSkips ==
    /\ OpAt("unregister") /\ op.todo # <<>>
    /\ op' = [op EXCEPT !.todo = Tail(@), !.failed = TRUE]
    /\ UNCHANGED <<clientVars, poll, sup, hb, atRelay, orphaned, sent, crashed>>

UnregisterSends ==
    /\ OpAt("unregister") /\ op.todo # <<>> /\ Head(op.todo) \in creds
    /\ OpTo("unregistering")
    /\ UNCHANGED <<clientVars, poll, sup, hb, atRelay, orphaned, sent, crashed>>

\* 200: the relay has dropped the node, and so does the client.
UnregisterConfirmed ==
    LET r == Head(op.todo) IN
    /\ OpAt("unregistering")
    /\ atRelay' = atRelay \ {r}
    /\ registered' = registered \ {r} /\ fresh' = fresh \ {r} /\ creds' = creds \ {r}
    /\ active' = IndexOf(r)
    /\ op' = [op EXCEPT !.pc = "unregister", !.todo = Tail(@)]
    /\ UNCHANGED <<stopPolling, stopped, latched, mutations, workRelay, complete, failures,
                   poll, sup, hb, orphaned, sent, crashed>>

\* Any other answer, or none: the relay may have acted; the evidence stays.
UnregisterUnconfirmed ==
    LET r == Head(op.todo) IN
    /\ OpAt("unregistering")
    /\ atRelay' \in {atRelay, atRelay \ {r}}
    /\ op' = [op EXCEPT !.pc = "unregister", !.todo = Tail(@), !.failed = TRUE]
    /\ UNCHANGED <<clientVars, poll, sup, hb, orphaned, sent, crashed>>

UnregisterReturns ==
    /\ OpAt("unregister") /\ op.todo = <<>>
    /\ complete' = ~op.failed
    /\ OpTo("stopped")
    /\ UNCHANGED <<stopPolling, stopped, latched, mutations, registered, fresh, creds, active,
                   workRelay, failures, poll, sup, hb, atRelay, orphaned, sent, crashed>>

\* A fresh session of the same client, once the old one is over.  Only the desktop
\* bridge has one (recover_shared_runtime); server.py stops once.
NewSession ==
    /\ FatalWired /\ OpAt("stopped") /\ poll.pc = "exited" /\ hb.pc = "off"
    /\ op' = [pc |-> "idle", todo |-> <<>>, failed |-> FALSE]
    /\ poll' = [poll EXCEPT !.pc = "off", !.offset = 0, !.relay = "none"]
    /\ UNCHANGED <<clientVars, sup, hb, atRelay, orphaned, sent, crashed>>

------------------------------------------------------------------------------
(* External steps: futures, clock, relays.                                  *)

InferenceEnds ==
    /\ ~crashed /\ sup.inference = "running"
    /\ \E res \in {"ok", "raised"} : sup' = [sup EXCEPT !.inference = res]
    /\ UNCHANGED <<clientVars, poll, hb, op, atRelay, orphaned, sent, crashed>>

ControlReplies ==
    /\ ~crashed /\ sup.control = "inflight"
    /\ \E res \in {"active", "terminal", "denied", "failed"} : sup' = [sup EXCEPT !.control = res]
    /\ UNCHANGED <<clientVars, poll, hb, op, atRelay, orphaned, sent, crashed>>

InRequest == poll.pc \in {"supervise", "control", "terminate", "quiesce", "submit", "posting"}

\* The request's deadline passes; its cancellation generation is overtaken.
DeadlinePasses ==
    /\ ~crashed /\ InRequest /\ ~sup.expired
    /\ sup' = [sup EXCEPT !.expired = TRUE]
    /\ UNCHANGED <<clientVars, poll, hb, op, atRelay, orphaned, sent, crashed>>

GenerationCancelled ==
    /\ ~crashed /\ poll.pc \in {"submit", "posting"} /\ ~sup.cancelled
    /\ sup' = [sup EXCEPT !.cancelled = TRUE]
    /\ UNCHANGED <<clientVars, poll, hb, op, atRelay, orphaned, sent, crashed>>

LeaseAges ==
    /\ ~crashed
    /\ \E r \in fresh : fresh' = fresh \ {r}
    /\ UNCHANGED <<stopPolling, stopped, latched, mutations, registered, creds, active, workRelay,
                   complete, failures, poll, sup, hb, op, atRelay, orphaned, sent, crashed>>

RelayForgets ==
    /\ \E r \in atRelay : atRelay' = atRelay \ {r}
    /\ UNCHANGED <<clientVars, poll, sup, hb, op, orphaned, sent, crashed>>

\* The process is gone (torn down, or server.py after its one stop) and every relay
\* has let its lease run out.
Ended ==
    /\ crashed \/ (~FatalWired /\ op.pc = "stopped" /\ poll.pc = "exited")
    /\ atRelay = {} /\ UNCHANGED vars

PollThread ==
    \/ Start \/ PollStart \/ PollCandidate \/ RegisterSucceeds \/ RegisterRefused
    \/ RegisterRaises \/ BookRegistration \/ SendPoll \/ PollReply \/ ApplyPoll
    \/ SkipRequest \/ BeginRequest \/ Supervise \/ AwaitControl \/ TerminateWorker
    \/ ReturnFromSupervisor \/ AbandonFutures \/ Submit \/ PostResponse \/ PostReplied
    \/ FinishRequest \/ JoinHeartbeat
HeartbeatThread ==
    \/ HeartbeatRefresh \/ HeartbeatRegistered \/ HeartbeatFails \/ HeartbeatBook
    \/ HeartbeatExits
StopThread ==
    \/ StopFlags \/ StopLatch \/ StopDecides \/ PassBarrier \/ BarrierTimesOut
    \/ UnregisterSkips \/ UnregisterSends \/ UnregisterConfirmed \/ UnregisterUnconfirmed
    \/ UnregisterReturns \/ NewSession
External ==
    \/ InferenceEnds \/ ControlReplies \/ DeadlinePasses \/ GenerationCancelled
    \/ LeaseAges \/ RelayForgets

Next == PollThread \/ HeartbeatThread \/ StopThread \/ External \/ Ended
Spec == Init /\ [][Next]_vars

\* Threads run, HTTP calls return (requests timeouts) and deadlines pass.  Nothing
\* makes an inference end, a lease age or the operator press Stop.
StopProceeds == StopThread /\ op.pc \notin {"idle", "stopped"}
PollProceeds == PollThread /\ poll.pc # "off"
FairSpec ==
    Spec /\ WF_vars(PollProceeds) /\ WF_vars(HeartbeatThread) /\ WF_vars(StopProceeds)
         /\ WF_vars(ControlReplies) /\ WF_vars(DeadlinePasses)

------------------------------------------------------------------------------
\* A shutdown that reports success leaves no registration behind, except at relays
\* whose evidence the client had lost: a reply that never came, a failed poll, or
\* a session reset.
NoGhostRegistration ==
    op.pc = "stopped" /\ complete => atRelay \subseteq orphaned

\* Once the relay (or Stop, or the deadline) has ended a request, its response is
\* never handed to HTTP, however the inference finishes afterwards.
TerminalNeverSent == sup.terminal # "none" => ~sent

\* The poll thread never goes on to other work while the request's inference still
\* runs, unless there is no teardown callback, and then polling has been stopped.
NoAbandonedInference ==
    sup.inference = "running" /\ ~InRequest => ~FatalWired /\ stopPolling

\* Stop is carried through: the stopping thread and the poll thread both end.
StopCompletes == op.pc = "latching" ~> (op.pc = "stopped" /\ poll.pc = "exited") \/ crashed

\* Every supervised request ends, whatever the inference, the control poll and the
\* relay do.
RequestEnds == poll.pc = "supervise" ~> poll.pc \in {"start", "exited"} \/ crashed
=============================================================================
