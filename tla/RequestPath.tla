----------------------------- MODULE RequestPath -----------------------------
(***************************************************************************)
(* The stations of a request outside the compute node, one per behaviour:  *)
(* the rate limiter in front of the relay, the relay's choice of a node,   *)
(* the chat endpoint that uses the relay, the relay's legacy and streaming *)
(* routes, and a streamed completion as its client sees it.  They share no *)
(* state; the stations not chosen stay in one initial state.               *)
(***************************************************************************)
EXTENDS Integers, Sequences, FiniteSets

CONSTANTS
    Thread, Key, IpLimit, IdLimit, MaxWindows,                  \* limiter
    Envs, TTL, Grace, Pause, MaxTime, MaxLost,                  \* chat
    Node, Model, Tiers, Capabilities, MaxQueue, MaxRegistered,  \* selection
    MaxLoad, MaxChosen,
    Server, Client, MaxItems, MaxChunks,                        \* legacy
    Chunks, MaxRetries, MaxNoise,                               \* stream
    None

VARIABLES station,
          decr, count, th, windows, passed, strays,
          env, req, pc, provider, now, deadline, wake, enqueued, cancelTried, post, relay, due,
          out, lost,
          known, caps, quiet, queued, flying, next, position, reply, registrations, chosen,
          served,
          polled, queue, posting, sinking, leaving, sessions, byClient, responses, node, items,
          chunks,
          message, sealing, phase, attempt, posts, conn, keys, cached, given, base, partial,
          told, noise, cut, unopened

Limiter == INSTANCE ControlPlaneLimiter
Chat == INSTANCE ChatRequest
Selection == INSTANCE RelaySelection
Legacy == INSTANCE RelayLegacy WITH known <- polled
Stream == INSTANCE ChatStream

limiterVars == <<decr, count, th, windows, passed, strays>>
chatVars == <<env, req, pc, provider, now, deadline, wake, enqueued, cancelTried, post, relay,
              due, out, lost>>
selectionVars == <<known, caps, quiet, queued, flying, next, position, reply, registrations,
                   chosen, served>>
legacyVars == <<polled, queue, posting, sinking, leaving, sessions, byClient, responses, node,
                items, chunks>>
streamVars == <<message, sealing, phase, attempt, posts, conn, keys, cached, given, base,
                partial, told, noise, cut, unopened>>
vars == <<station, limiterVars, chatVars, selectionVars, legacyVars, streamVars>>

Init ==
    /\ station \in {"limiter", "chat", "selection", "legacy", "stream"}
    /\ Limiter!Init /\ Chat!Init /\ Selection!Init /\ Legacy!Init /\ Stream!Init
    /\ station # "chat" => /\ env = CHOOSE e \in Envs : TRUE
                           /\ req = CHOOSE r \in Chat!Request : TRUE
    /\ station # "limiter" => decr
    /\ station # "stream" => message = "text" /\ ~sealing

LimiterStep ==
    /\ station = "limiter" /\ Limiter!Next
    /\ UNCHANGED <<station, chatVars, selectionVars, legacyVars, streamVars>>
ChatStep ==
    /\ station = "chat" /\ Chat!Next
    /\ UNCHANGED <<station, limiterVars, selectionVars, legacyVars, streamVars>>
SelectionStep ==
    /\ station = "selection" /\ Selection!Next
    /\ UNCHANGED <<station, limiterVars, chatVars, legacyVars, streamVars>>
LegacyStep ==
    /\ station = "legacy" /\ Legacy!Next
    /\ UNCHANGED <<station, limiterVars, chatVars, selectionVars, streamVars>>
StreamStep ==
    /\ station = "stream" /\ Stream!Next
    /\ UNCHANGED <<station, limiterVars, chatVars, selectionVars, legacyVars>>

Next == LimiterStep \/ ChatStep \/ SelectionStep \/ LegacyStep \/ StreamStep
Spec == Init /\ [][Next]_vars

------------------------------------------------------------------------------
\* A rate-limit window admits its limit, and refused requests leave no charge that the
\* storage can take back.
BudgetExact == Limiter!BudgetExact
\* The wait for an answer is measured from the relay's admission.
AdmissionRestartsClock == Chat!AdmissionRestartsClock
\* A request the endpoint gave up on is not left at the relay.
NoAbandonedRequest == Chat!NoAbandonedRequest
\* A request the endpoint is told is unknown is not one whose answer is waiting.
UnknownIsUnknown == Chat!UnknownIsUnknown
\* Equally loaded nodes take turns.
EqualsRotate == Selection!EqualsRotate
\* The node whose turn it is keeps it when another one leaves.
TurnSurvivesRemoval == Selection!TurnSurvivesRemoval
\* Every open streaming session can be reached by its client.
SessionsReachable == Legacy!SessionsReachable
\* A streamed completion loses nothing it received and ends with an answer or a reason.
StreamSound == Stream!StreamSound
=============================================================================
