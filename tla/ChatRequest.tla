---------------------------- MODULE ChatRequest ----------------------------
(***************************************************************************)
(* One chat or text completion request of api/v1: the handler's checks     *)
(* (routes.py), the choice of a compute provider from the environment and  *)
(* the request, and the provider (compute_provider.py), which runs the     *)
(* model in process or carries the request through a relay: choose a       *)
(* node, post the envelope, poll for the answer until a deadline, cancel.  *)
(* The relay is the abstract RequestLifecycle seen over an unreliable      *)
(* connection: a call may be lost on either side, and a posted envelope    *)
(* may be admitted after its sender has given up.  Time is discrete.       *)
(***************************************************************************)
EXTENDS Naturals, Sequences, FiniteSets, SequencesExt

CONSTANTS Envs,       \* process environments to start from
          TTL,        \* the relay's inference TTL
          Grace,      \* INFERENCE_RESPONSE_GRACE_SECONDS
          Pause,      \* poll interval
          MaxTime,    \* bound: length of a run
          MaxLost,    \* bound: calls lost
          None

VARIABLES
    env,      \* environment and config: provider mode, relay URLs set, fallback, timeout
    req,      \* the request
    pc,       \* where the handler is
    provider, \* provider built for the request
    now, deadline, wake,
    enqueued,     \* relay_request_enqueued
    cancelTried,  \* relay_cancel_attempted
    post,         \* the envelope on its way: None, "sent", "admitted"
    relay,        \* the relay's record: absent, pending, answered, delivered, ended
    due,          \* deadline of the relay's record
    out,          \* the response to the requester
    lost          \* history: calls lost

call == <<deadline, wake, enqueued, cancelTried>>
link == <<post, relay, due>>
vars == <<env, req, pc, provider, now, call, link, out, lost>>

------------------------------------------------------------------------------
(* The request and the checks of the two handlers, in their order. *)

Faults == {"empty", "model", "stream", "envelope", "decrypt", "parse", "messages", "policy"}

\* The text handler takes its prompt as it is, encrypted or not.
Checks(kind, encrypted) ==
    IF kind = "text" THEN <<"empty", "model", "stream", "policy">>
    ELSE <<"empty", "model", "stream">>
         \o (IF encrypted THEN <<"envelope", "decrypt", "parse">> ELSE <<>>)
         \o <<"messages", "policy">>

Request == [kind : {"chat", "text"}, encrypted : BOOLEAN, desktop : BOOLEAN,
            loopback : BOOLEAN, known : BOOLEAN, faults : {{}} \cup {{f} : f \in Faults}]

Refused(r) == \E i \in 1..Len(Checks(r.kind, r.encrypted)) :
                 Checks(r.kind, r.encrypted)[i] \in r.faults

------------------------------------------------------------------------------
(* The provider. *)

Provider(path, target) == [path |-> path, target |-> target]
Local == Provider("local", "unset")
Error(code) == Provider("error", code)

\* _select_distributed_target
Precedence == <<"explicit", "internal", "public", "config", "production">>
SelectTarget(e) ==
    LET set == SelectSeq(Precedence, LAMBDA s : s \in e.sources)
    IN  IF set = <<>> THEN "unset" ELSE Head(set)

\* is_api_v1_implicit_relay_only_selection: no mode is configured, a public relay URL is.
ImplicitRelayOnly(e) == e.mode = "" /\ "public" \in e.sources

\* _build_api_v1_compute_provider
BuildProvider(mode, target, fallback) ==
    IF mode # "distributed" THEN Local
    ELSE IF target = "unset" THEN IF fallback THEN Local ELSE Error("compute_provider_error")
    ELSE Provider(IF fallback THEN "distributed_with_local_fallback" ELSE "distributed", target)

\* _should_force_desktop_bridge_distributed
ForceDesktop(r) == r.kind = "chat" /\ r.encrypted /\ r.desktop

\* _request_relay_target_selection
DesktopTarget(e, r) ==
    IF SelectTarget(e) = "explicit" THEN "explicit"
    ELSE IF r.loopback THEN "loopback" ELSE SelectTarget(e)

DesktopProvider(e, r) ==
    IF DesktopTarget(e, r) = "unset" THEN Error("untrusted_relay_origin")
    ELSE BuildProvider("distributed", DesktopTarget(e, r), FALSE)

\* get_api_v1_compute_provider
EnvProvider(e) ==
    IF ImplicitRelayOnly(e) THEN BuildProvider("distributed", "public", FALSE)
    ELSE BuildProvider(e.mode, SelectTarget(e), e.fallback)

Init ==
    /\ env \in Envs
    /\ req \in Request
    /\ pc = "received" /\ provider = None
    /\ now = 0 /\ deadline = 0 /\ wake = 0
    /\ enqueued = FALSE /\ cancelTried = FALSE
    /\ post = None /\ relay = "absent" /\ due = 0
    /\ out = None /\ lost = 0

Respond(code) == pc' = "done" /\ out' = code

ProviderFor(r) == IF ForceDesktop(r) THEN DesktopProvider(env, r) ELSE EnvProvider(env)

\* _handle_chat_completion_request and _handle_text_completion_request up to the provider
\* call.  A model no catalogue entry names is refused only when it would run in process.
Handle ==
    /\ pc = "received"
    /\ LET p == ProviderFor(req)
       IN  IF Refused(req) THEN Respond("invalid") /\ UNCHANGED <<provider, deadline>>
           ELSE IF p.path = "error" THEN Respond(p.target) /\ UNCHANGED <<provider, deadline>>
           ELSE IF p = Local /\ ~req.known
                THEN Respond("model_not_supported") /\ UNCHANGED <<provider, deadline>>
           ELSE /\ provider' = p
                /\ pc' = IF p = Local THEN "local" ELSE "select"
                /\ deadline' = now + env.timeout
                /\ UNCHANGED out
    /\ UNCHANGED <<env, req, now, wake, enqueued, cancelTried, link, lost>>

\* The answer is encrypted for the client that asked for it, which may fail.
Release == \E code \in {"ok"} \cup (IF req.encrypted THEN {"encryption_error"} ELSE {}) :
              Respond(code)

\* LocalApiV1ComputeProvider.complete_chat; model errors pass every handler unchanged.
RunLocal ==
    /\ pc = "local"
    /\ Release \/ Respond("model_error") \/ Respond("compute_provider_error")
    /\ UNCHANGED <<env, req, provider, now, call, link, lost>>

\* How the handlers name a ComputeProviderError; only the chat handler renames one.
PublicCode(code) ==
    IF code = "no_registered_compute_nodes" /\ req.kind = "chat"
       /\ ImplicitRelayOnly(env) /\ ~ForceDesktop(req)
    THEN "no_compute_node_available" ELSE code

\* A ComputeProviderError: FallbackApiV1ComputeProvider runs the model in process, the
\* plain provider reports the code.
Fail(code) ==
    IF provider.path = "distributed_with_local_fallback"
    THEN pc' = "local" /\ UNCHANGED out
    ELSE Respond(PublicCode(code))

\* GET servers/next, and the envelope encrypted for the node it names.
Select ==
    /\ pc = "select"
    /\ \/ pc' = "enqueue" /\ post' = "sent" /\ now < deadline /\ UNCHANGED out
       \/ /\ \E code \in {"compute_node_unreachable", "no_registered_compute_nodes",
                          "compute_node_invalid_payload", "compute_node_timeout"} :
                /\ code = "compute_node_timeout" => now >= deadline
                /\ Fail(code)
          /\ UNCHANGED post
    /\ UNCHANGED <<env, req, provider, now, call, relay, due, lost>>

\* Fault: the transport clock keeps running from before the admission.
AdmittedDeadline_NotReset == deadline

\* The clock starts again when the relay's reply says how long the request may live.
AdmittedDeadline ==
    now + (IF env.timeout < TTL + Grace THEN env.timeout ELSE TTL + Grace)

\* The reply to POST relay/requests: the admission, or a refusal.
EnqueueReply ==
    /\ pc = "enqueue"
    /\ \/ /\ post = "admitted"
          /\ pc' = "poll" /\ enqueued' = TRUE
          /\ deadline' = AdmittedDeadline /\ wake' = now
          /\ UNCHANGED <<out, post>>
       \/ /\ post = "sent" /\ post' = None
          /\ Fail("no_registered_compute_nodes") \/ Fail("compute_node_bridge_error")
          /\ UNCHANGED <<enqueued, deadline, wake>>
    /\ UNCHANGED <<env, req, provider, now, cancelTried, relay, due, lost>>

\* No reply: the provider cannot tell whether the envelope was admitted.
EnqueueLost ==
    /\ pc = "enqueue" /\ (lost < MaxLost \/ now >= deadline)
    /\ lost' = IF lost < MaxLost THEN lost + 1 ELSE lost
    /\ Fail("compute_node_unreachable")
    /\ UNCHANGED <<env, req, provider, now, call, link>>

\* Sleep, and at most as long again for the exchange that came before it.
Sleep ==
    /\ pc' = "poll"
    /\ \E d \in {0, Pause} : wake' = LET w == now + d + Pause IN IF w < deadline THEN w ELSE deadline

\* The relay's first look for the answer: found it is taken, an ended request is reported.
Retrieve ==
    /\ pc = "poll" /\ now >= wake /\ now < deadline
    /\ CASE relay = "answered" -> relay' = "delivered" /\ pc' = "answer"
         [] relay = "ended" \/ (relay = "pending" /\ now >= due) ->
               relay' = (IF relay = "pending" THEN "ended" ELSE relay) /\ pc' = "gone"
         [] OTHER -> pc' = "missed" /\ UNCHANGED relay
    /\ UNCHANGED <<env, req, provider, now, call, post, due, out, lost>>

\* The relay's second look, for a pending record.
Recheck ==
    /\ pc = "missed"
    /\ pc' = CASE relay = "pending" -> "wait"
               [] relay = "ended" -> "gone"
               [] OTHER -> "unknown"
    /\ UNCHANGED <<env, req, provider, now, call, link, out, lost>>

\* The reply arrives, or is lost and the provider polls again.  An answer that cannot be
\* opened or names another request is passed over, one bound to another client is an error.
\* "unknown_request_id" is the compute_node_bridge_error that a 404 becomes.
RetrieveReply ==
    /\ pc \in {"answer", "gone", "wait", "unknown"}
    /\ \/ pc = "answer" /\ Release /\ UNCHANGED wake
       \/ pc = "answer" /\ UNCHANGED wake
          /\ (Fail("compute_node_invalid_payload") \/ Fail("compute_node_bridge_error"))
       \/ pc = "gone" /\ Fail("compute_node_request_cancelled") /\ UNCHANGED wake
       \/ pc = "unknown" /\ Fail("unknown_request_id") /\ UNCHANGED wake
       \/ pc \in {"answer", "wait"} /\ Sleep /\ UNCHANGED out
    /\ UNCHANGED <<env, req, provider, now, deadline, enqueued, cancelTried, link, lost>>

RetrieveLost ==
    /\ pc \in {"answer", "gone", "wait", "unknown"} /\ lost < MaxLost
    /\ lost' = lost + 1
    /\ Sleep
    /\ UNCHANGED <<env, req, provider, now, deadline, enqueued, cancelTried, link, out>>

\* Fault: the provider stops waiting and says nothing to the relay.
GiveUp_Silent ==
    /\ pc = "poll" /\ now >= deadline
    /\ Fail("compute_node_timeout")
    /\ UNCHANGED <<env, req, provider, now, call, link, lost>>

\* The poll loop ends: one cancel, whose own failure is ignored.
GiveUp ==
    /\ pc = "poll" /\ now >= deadline
    /\ cancelTried' = TRUE
    /\ \/ relay' = (IF relay = "pending" THEN "ended" ELSE relay) /\ UNCHANGED lost
       \/ lost < MaxLost /\ lost' = lost + 1 /\ UNCHANGED relay
    /\ Fail("compute_node_timeout")
    /\ UNCHANGED <<env, req, provider, now, deadline, wake, enqueued, post, due>>

------------------------------------------------------------------------------
(* The relay and its node (external to api/v1), and the clock. *)

RelayAdmit ==
    /\ post = "sent" /\ pc # "received"
    /\ post' = "admitted" /\ relay' = "pending" /\ due' = now + TTL
    /\ UNCHANGED <<env, req, pc, provider, now, call, out, lost>>

PostVanishes ==
    /\ post = "sent" /\ pc # "enqueue"
    /\ post' = None
    /\ UNCHANGED <<env, req, pc, provider, now, call, relay, due, out, lost>>

RelayAnswer ==
    /\ relay = "pending" /\ now < due
    /\ relay' = "answered"
    /\ UNCHANGED <<env, req, pc, provider, now, call, post, due, out, lost>>

RelayEnd ==
    /\ relay = "pending"
    /\ relay' = "ended"
    /\ UNCHANGED <<env, req, pc, provider, now, call, post, due, out, lost>>

\* A provider that is awake or past its deadline does not let the time pass.
Waiting == \/ pc \in {"select", "enqueue"} /\ now < deadline
           \/ pc = "poll" /\ now < wake

Tick ==
    /\ Waiting /\ now < MaxTime
    /\ now' = now + 1
    /\ UNCHANGED <<env, req, pc, provider, call, link, out, lost>>

Provide == Handle \/ RunLocal \/ Select \/ EnqueueReply \/ EnqueueLost
             \/ Retrieve \/ Recheck \/ RetrieveReply \/ RetrieveLost \/ GiveUp

Next == Provide \/ RelayAdmit \/ PostVanishes \/ RelayAnswer \/ RelayEnd \/ Tick

Spec == Init /\ [][Next]_vars

------------------------------------------------------------------------------
(* Properties *)

\* Time spent on choosing a node and on posting the envelope never costs the answer: a
\* provider that may wait for TTL + Grace and has lost no call does not time out while the
\* relay holds the answer or still waits for it.
AdmissionRestartsClock ==
    out = "compute_node_timeout" /\ enqueued /\ env.timeout >= TTL + Grace /\ lost = 0
        => relay # "answered" /\ now >= due + Grace

\* A provider that knows its request was admitted and turns away from it has seen its
\* end, or has asked the relay to cancel it: no node is left working for nobody unless
\* the cancel itself was lost.
NoAbandonedRequest ==
    enqueued /\ pc \in {"local", "done"} /\ relay = "pending" /\ now < due => cancelTried

\* "relay reported unknown API v1 response request id": the relay does not call a request
\* unknown whose answer it holds.
UnknownIsUnknown == out = "unknown_request_id" => relay # "answered"
=============================================================================
