----------------------------- MODULE RelayLegacy -----------------------------
(***************************************************************************)
(* The legacy and streaming routes of relay.py (faucet, sink, source,      *)
(* retrieve, stream/source, stream/retrieve), served by the process that   *)
(* also serves API v1 and sharing its queues and its response table.       *)
(* Locks cut the handlers into steps: sink renews the registration and     *)
(* then takes a batch; unregister drops the node and its queue and clears  *)
(* the node's sessions in a later step.  API v1 requests appear as what    *)
(* they leave in the shared tables.                                        *)
(***************************************************************************)
EXTENDS Naturals, Sequences, FiniteSets, FiniteSetsExt, SequencesExt, ListFilter

CONSTANTS Server, Client,
          MaxItems,    \* bound: requests posted
          MaxChunks,   \* bound: chunks posted
          None

VARIABLES
    known,      \* known_servers
    queue,      \* client_inference_requests, per server
    posting,    \* requests between the two steps of a faucet
    sinking,    \* servers between the two steps of a sink
    leaving,    \* servers between the two steps of an unregister
    sessions,   \* streaming_sessions: id -> server, client, chunks waiting, status
    byClient,   \* streaming_sessions_by_client: client -> id
    responses,  \* client_responses: client -> envelopes, in order
    node,       \* the nodes' side: requests taken and not finished
    items, chunks  \* ids handed out, for the bounds

stream == <<sessions, byClient>>
ids == <<items, chunks>>
vars == <<known, queue, posting, sinking, leaving, stream, responses, node, ids>>

Empty == [x \in {} |-> None]
Drop(f, K) == [x \in DOMAIN f \ K |-> f[x]]

Init ==
    /\ known = {} /\ queue = [s \in Server |-> <<>>]
    /\ posting = {} /\ sinking = {} /\ leaving = {}
    /\ sessions = Empty /\ byClient = Empty
    /\ responses = [c \in Client |-> <<>>]
    /\ node = {} /\ items = 0 /\ chunks = 0

\* What a /faucet envelope may be; an API v1 envelope comes through the submit route.
FaucetKinds == {"plain", "stream"}

\* /faucet, first step: the server is known.  The API v1 submit (kind "e2ee") tests and
\* appends in one.
FaucetCheck(s, c, kind) ==
    /\ s \in known /\ items < MaxItems
    /\ items' = items + 1
    /\ posting' = posting \cup {[server |-> s, req |-> [id |-> items + 1, client |-> c, kind |-> kind]]}
    /\ UNCHANGED <<known, queue, sinking, leaving, stream, responses, node, chunks>>
Enqueue(p) == queue' = [queue EXCEPT ![p.server] = Append(@, p.req)]

\* Second step: the request is appended, also when the server has left since.
FaucetAppend(p) ==
    /\ p \in posting /\ posting' = posting \ {p} /\ Enqueue(p)
    /\ UNCHANGED <<known, sinking, leaving, stream, responses, node, ids>>
Submit(s, c) ==
    /\ s \in known /\ items < MaxItems
    /\ items' = items + 1
    /\ Enqueue([server |-> s, req |-> [id |-> items + 1, client |-> c, kind |-> "e2ee"]])
    /\ UNCHANGED <<known, posting, sinking, leaving, stream, responses, node, chunks>>

\* /sink, first step: the registration.
SinkRegister(s) ==
    /\ s \notin sinking
    /\ known' = known \cup {s} /\ sinking' = sinking \cup {s}
    /\ UNCHANGED <<posting, queue, leaving, stream, responses, node, ids>>

\* _register_stream_session for each stream of a batch: a client has one session, an
\* earlier one is dropped.
Latest(batch) ==
    {i \in DOMAIN batch : /\ batch[i].kind = "stream"
                          /\ \A j \in DOMAIN batch :
                               j > i => batch[j].kind # "stream" \/ batch[j].client # batch[i].client}
Open(r, s) == [server |-> s, client |-> r.client, chunks |-> 0, open |-> TRUE]
RegisterSessions_Keeps(batch, s) ==   \* Fault: the client's earlier session stays in the table
    LET new == {batch[i] : i \in Latest(batch)}
        owners == {r.client : r \in new}
    IN  /\ sessions' = [id \in DOMAIN sessions \cup {r.id : r \in new} |->
                           IF \E r \in new : r.id = id
                           THEN Open(CHOOSE r \in new : r.id = id, s) ELSE sessions[id]]
        /\ byClient' = [c \in DOMAIN byClient \cup owners |->
                           IF c \in owners THEN (CHOOSE r \in new : r.client = c).id
                           ELSE byClient[c]]
RegisterSessions(batch, s) ==
    LET new == {batch[i] : i \in Latest(batch)}
        owners == {r.client : r \in new}
        old == {byClient[c] : c \in owners \cap DOMAIN byClient}
    IN  /\ sessions' = [id \in (DOMAIN sessions \ old) \cup {r.id : r \in new} |->
                           IF \E r \in new : r.id = id
                           THEN Open(CHOOSE r \in new : r.id = id, s) ELSE sessions[id]]
        /\ byClient' = [c \in DOMAIN byClient \cup owners |->
                           IF c \in owners THEN (CHOOSE r \in new : r.client = c).id
                           ELSE byClient[c]]

\* /sink, second step: a batch from the front, up to the first API v1 envelope.
SinkTake(s, size) ==
    LET q == queue[s]
        clear == {k \in 0..Len(q) : k <= size /\ \A j \in 1..k : q[j].kind # "e2ee"}
        batch == SubSeq(q, 1, Max(clear))
    IN  /\ s \in sinking /\ sinking' = sinking \ {s}
        /\ queue' = [queue EXCEPT ![s] = SubSeq(q, Len(batch) + 1, Len(q))]
        /\ node' = node \cup {[server |-> s, req |-> batch[i]] : i \in DOMAIN batch}
        /\ RegisterSessions(batch, s)
        /\ UNCHANGED <<posting, known, leaving, responses, ids>>

\* A poll opens no session: the node answers a stream it got this way like a plain request.
Polled(r) == [r EXCEPT !.kind = IF @ = "stream" THEN "plain" ELSE @]

\* /servers/poll, _pop_next_api_v1_request: the first API v1 envelope, and every legacy
\* request of the queue is dropped with it; if there is no envelope, the first request.
\* The node was looked up a step earlier and again after: if it has left, or the
\* deadline of the envelope has passed, nobody gets the request.
PollTake(s) ==
    LET q == queue[s]
        envelopes == {i \in DOMAIN q : q[i].kind = "e2ee"}
        kept == IF envelopes = {} THEN DOMAIN q ELSE envelopes
    IN  \E first \in kept :
          /\ \A i \in kept : first <= i
          /\ queue' = [queue EXCEPT ![s] = EntriesAt(q, kept \ {first})]
          /\ \/ (s \notin known \/ q[first].kind = "e2ee") /\ UNCHANGED node
             \/ s \in known /\ node' = node \cup {[server |-> s, req |-> Polled(q[first])]}
          /\ UNCHANGED <<posting, known, sinking, leaving, stream, responses, ids>>

\* _queue_client_response: the API v1 responses route appends.
QueueResponse(waiting, req) == Append(waiting, req)
\* /source replaces whatever waits for the client.
Source(w) ==
    /\ w \in node /\ w.req.kind # "stream"
    /\ node' = node \ {w}
    /\ responses' = [responses EXCEPT ![w.req.client] =
         IF w.req.kind = "e2ee" THEN QueueResponse(@, w.req) ELSE <<w.req>>]
    /\ UNCHANGED <<posting, known, queue, sinking, leaving, stream, ids>>

\* _append_stream_chunk; for an unknown session the reply is 404.
AppendChunk(w, final) ==
    sessions' = IF w.req.id \notin DOMAIN sessions THEN sessions
                ELSE [sessions EXCEPT ![w.req.id].chunks = @ + 1,
                                      ![w.req.id].open = @ /\ ~final]

\* /stream/source; the node stops on its last chunk or when it is refused.
StreamSource(w, final) ==
    /\ w \in node /\ w.req.kind = "stream" /\ chunks < MaxChunks
    /\ chunks' = chunks + 1
    /\ AppendChunk(w, final)
    /\ node' = IF final \/ w.req.id \notin DOMAIN sessions THEN node \ {w} ELSE node
    /\ UNCHANGED <<posting, known, queue, sinking, leaving, byClient, responses, items>>

\* _pop_stream_chunks_for_client: a finished session goes with its last chunks.
PopChunks(c) ==
    LET id == byClient[c] IN
    IF id \in DOMAIN sessions /\ sessions[id].open
    THEN sessions' = [sessions EXCEPT ![id].chunks = 0] /\ UNCHANGED byClient
    ELSE sessions' = Drop(sessions, {id}) /\ byClient' = Drop(byClient, {c})

\* /stream/retrieve
StreamRetrieve(c) ==
    /\ c \in DOMAIN byClient /\ PopChunks(c)
    /\ UNCHANGED <<posting, known, queue, sinking, leaving, responses, node, ids>>

\* /retrieve hands out whatever there is, API v1 envelopes included.
Retrieve(c) ==
    /\ responses[c] # <<>>
    /\ responses' = [responses EXCEPT ![c] = <<>>]
    /\ UNCHANGED <<posting, known, queue, sinking, leaving, stream, node, ids>>

\* Unregister or eviction, first step: the node and its queue.
UnregisterNode(s) ==
    /\ s \in known
    /\ known' = known \ {s}
    /\ queue' = [queue EXCEPT ![s] = <<>>]
    /\ leaving' = leaving \cup {s}
    /\ UNCHANGED <<posting, sinking, stream, responses, node, ids>>

\* Second step, under stream_lock: every session of the node, also one that began since.
UnregisterSessions(s) ==
    /\ s \in leaving /\ leaving' = leaving \ {s}
    /\ LET gone == {id \in DOMAIN sessions : sessions[id].server = s} IN
       /\ sessions' = Drop(sessions, gone)
       /\ byClient' = Drop(byClient, {c \in DOMAIN byClient : byClient[c] \in gone})
    /\ UNCHANGED <<posting, known, queue, sinking, responses, node, ids>>

Next ==
    \/ \E s \in Server, c \in Client :
         Submit(s, c) \/ \E kind \in FaucetKinds : FaucetCheck(s, c, kind)
    \/ \E p \in posting : FaucetAppend(p)
    \/ \E s \in Server : \/ SinkRegister(s) \/ PollTake(s)
                         \/ \E size \in 1..2 : SinkTake(s, size)
                         \/ UnregisterNode(s) \/ UnregisterSessions(s)
    \/ \E w \in node : Source(w) \/ \E final \in BOOLEAN : StreamSource(w, final)
    \/ \E c \in Client : StreamRetrieve(c) \/ Retrieve(c)

Spec == Init /\ [][Next]_vars

------------------------------------------------------------------------------
(* Properties *)

\* The two session tables agree: every session is the one its client will read, so
\* neither a second stream of the client nor an unregister in between leaves a session
\* that nobody can read or close.
SessionsReachable ==
    /\ \A id \in DOMAIN sessions : LET c == sessions[id].client IN
          c \in DOMAIN byClient /\ byClient[c] = id
    /\ \A c \in DOMAIN byClient : byClient[c] \in DOMAIN sessions
=============================================================================
