------------------------------ MODULE ChatStream ------------------------------
(***************************************************************************)
(* A streamed chat completion: the iterator that                           *)
(* CryptoClient.stream_chat_completion (utils/crypto_helpers.py) returns,  *)
(* and the endpoint that answers it (create_chat_completion of             *)
(* api/v2/routes.py).  The iterator survives lost connections: it posts    *)
(* again up to MaxRetries times, then drains what it has cached into one   *)
(* partial_response and asks for the whole answer without streaming.       *)
(* Every new connection runs the completion again under a new stream       *)
(* session, whose key travels with its first chunk only.  The iterator's   *)
(* own request is plain, and API v2 then streams plain events; it also     *)
(* opens the sealed events of that endpoint's encrypted form, which        *)
(* `sealing' selects.                                                      *)
(***************************************************************************)
EXTENDS Integers, Sequences, ListFilter

CONSTANTS Chunks,      \* events of one answer: role, content segments, tool calls, finish reason
          MaxRetries,
          MaxNoise,    \* bound: lines that are not chunks of the answer
          None

VARIABLES
    message,   \* what the request asks for
    sealing,   \* whether the endpoint's events are sealed
    phase,     \* "connect", "reading", "drain", "post"; "ended" and "closed" are final
    attempt,
    posts,     \* requests made, streaming or not
    conn,      \* the endpoint's generator: stream session, next chunk, session key made
    keys,      \* decrypt_sessions
    cached,    \* cached_events
    given,     \* the data events yielded
    base,      \* how many of them before this connection
    partial,   \* what partial_response carried
    told,      \* how a run that did not end with its stream ended
    noise,
    cut,       \* the endpoint ended the stream early, without [DONE]
    unopened   \* decrypt_failed errors for chunks of the answer

client == <<attempt, keys, cached, given, base, partial, told>>
vars == <<message, sealing, phase, posts, conn, client, noise, cut, unopened>>

\* What the checks of create_chat_completion tell apart.
Messages == {"text", "image", "unknown_model", "bad_messages", "blocked"}
Refused(m) == m \in {"unknown_model", "bad_messages", "blocked"}
\* An image is summarised in the handler; only a text goes to the model, which may fail.
MayFail(m) == m = "text"

Init ==
    /\ message \in Messages /\ sealing \in BOOLEAN
    /\ phase = "connect" /\ attempt = 0 /\ posts = 0
    /\ conn = [id |-> 0, next |-> 1, keyed |-> FALSE] /\ keys = {} /\ cached = <<>> /\ given = <<>> /\ base = 0
    /\ partial = None /\ told = None /\ noise = 0 /\ cut = FALSE /\ unopened = 0

Event(name, n) == [event |-> name, n |-> n]
\* A data event is cached and yielded.
Yield(e) == cached' = Append(cached, e) /\ given' = Append(given, e)

\* _emit_non_stream_response: whatever the status, a JSON body is the response.
Emit(body) == told' = CASE body = "json" -> "response" [] body = "text" -> "text" [] body = "" -> "error"

Reconnect_FreshCache ==   \* Fault: each connection starts with an empty cache
    /\ attempt < MaxRetries
    /\ attempt' = attempt + 1 /\ phase' = "connect" /\ cached' = <<>>
\* A failed connection or a broken one is tried again; the cache lives on.
Reconnect ==
    /\ attempt < MaxRetries
    /\ attempt' = attempt + 1 /\ phase' = "connect" /\ UNCHANGED cached
GiveUpStreaming == attempt >= MaxRetries /\ phase' = "drain" /\ UNCHANGED <<attempt, cached>>
Interrupted == Reconnect \/ GiveUpStreaming

ConnectRaises ==
    /\ phase = "connect" /\ posts' = posts + 1
    /\ Interrupted
    /\ UNCHANGED <<message, sealing, conn, keys, given, base, partial, told, noise, cut, unopened>>

\* The endpoint refuses the request, or its model fails: any status but 200.
ConnectRefused ==
    /\ phase = "connect" /\ posts' = posts + 1
    /\ Refused(message) \/ MayFail(message)
    /\ phase' = "drain"
    /\ UNCHANGED <<message, sealing, conn, client, noise, cut, unopened>>

\* A 200 that is not an event stream (an endpoint that does not stream) is the answer.
ConnectWhole(body) ==
    /\ phase = "connect" /\ ~Refused(message) /\ posts' = posts + 1
    /\ phase' = "ended" /\ keys' = {} /\ Emit(body)
    /\ UNCHANGED <<message, sealing, conn, attempt, cached, given, base, partial, noise, cut, unopened>>

ConnectStreams ==
    /\ phase = "connect" /\ ~Refused(message) /\ posts' = posts + 1
    /\ phase' = "reading" /\ conn' = [id |-> posts + 1, next |-> 1, keyed |-> FALSE]
    /\ base' = Len(given)
    /\ UNCHANGED <<message, sealing, attempt, keys, cached, given, partial, told, noise, cut, unopened>>

\* iter_chunk_payloads has another chunk.
More == conn.next <= Chunks

\* encrypt_stream_chunk: the key is made, and sent, with the session's first chunk.
SealedChunk == [session |-> conn.id, cipherkey |-> ~conn.keyed]
\* decrypt_stream_chunk: a known session takes no second key, a new one needs it.
Opens(e) == e.cipherkey = (e.session \notin keys)

\* _decrypt_stream_payload: the session is remembered; a chunk that does not open is an error.
Unseal(e) ==
    \/ /\ Opens(e) /\ keys' = keys \cup {e.session}
       /\ Yield(Event("delta", conn.next)) /\ UNCHANGED unopened
    \/ ~Opens(e) /\ unopened' = unopened + 1 /\ UNCHANGED <<keys, cached, given>>

\* The endpoint's next chunk arrives and is read.
ReadChunk ==
    /\ phase = "reading" /\ ~cut /\ More
    /\ conn' = [conn EXCEPT !.next = @ + 1, !.keyed = @ \/ sealing]
    /\ IF sealing THEN Unseal(SealedChunk)
       ELSE Yield(Event("chunk", conn.next)) /\ UNCHANGED <<keys, unopened>>
    /\ UNCHANGED <<message, sealing, phase, attempt, posts, base, partial, told, noise, cut>>

\* A line that is no chunk of the answer: one that is not JSON is yielded as text, a sealed
\* event without a body as an error, which is not cached.
ReadNoise ==
    /\ phase = "reading" /\ noise < MaxNoise /\ noise' = noise + 1
    /\ Yield(Event("text", 0)) \/ UNCHANGED <<cached, given>>
    /\ UNCHANGED <<message, sealing, phase, attempt, posts, conn, keys, base, partial, told, cut, unopened>>

\* A chunk cannot be serialised or encrypted: the endpoint's error event is an ordinary
\* chunk to the iterator, and nothing follows it.
EndpointFails ==
    /\ phase = "reading" /\ sealing /\ ~cut /\ More
    /\ cut' = TRUE /\ Yield(Event("chunk", 0))
    /\ UNCHANGED <<message, sealing, phase, posts, conn, attempt, keys, base, partial, told, noise, unopened>>

\* The lines end: at [DONE], or because the peer closed the stream, which looks the same.
ReadEnd ==
    /\ phase = "reading" /\ phase' = "ended" /\ keys' = {}
    /\ cut' = (cut \/ More)
    /\ UNCHANGED <<message, sealing, posts, conn, attempt, cached, given, base, partial, told, noise, unopened>>

ConnectionLost ==
    /\ phase = "reading" /\ cut' = FALSE
    /\ Interrupted
    /\ UNCHANGED <<message, sealing, posts, conn, keys, given, base, partial, told, noise, unopened>>

\* _fallback_to_non_stream: first what was received, as one partial_response ...
DrainPartial ==
    /\ phase = "drain" /\ phase' = "post"
    /\ partial' = cached /\ cached' = <<>>
    /\ UNCHANGED <<message, sealing, posts, conn, attempt, keys, given, base, told, noise, cut, unopened>>

\* ... then the request without streaming.  A refusal's body is JSON and passes for a response.
PostFallback ==
    /\ phase = "post" /\ phase' = "ended" /\ posts' = posts + 1 /\ keys' = {}
    /\ told' = "error" \/ \E body \in {"json", "text", ""} : Emit(body)
    /\ UNCHANGED <<message, sealing, conn, attempt, cached, given, base, partial, noise, cut, unopened>>

\* The consumer abandons the iterator at a yield.
Close ==
    /\ phase \in {"connect", "reading", "post"} /\ posts > 0 /\ phase' = "closed"
    /\ UNCHANGED <<message, sealing, posts, conn, client, noise, cut, unopened>>

Next ==
    \/ ConnectRaises \/ ConnectRefused \/ (\E body \in {"json", "text", ""} : ConnectWhole(body))
    \/ ConnectStreams \/ ReadChunk \/ ReadNoise \/ EndpointFails \/ ReadEnd \/ ConnectionLost
    \/ DrainPartial \/ PostFallback \/ Close
Spec == Init /\ [][Next]_vars

------------------------------------------------------------------------------
\* Once the iterator falls back, partial_response carries every data event it yielded, in
\* order, over all its connections (cached_events survives a reconnect).
PartialComplete == partial # None => partial = given

\* Every chunk of a sealed stream opens, on every connection: decrypt_sessions outlives a
\* lost connection and never answers for another connection's key.
SealedStreamOpens == unopened = 0

\* The chunks of the present connection, without the lines that were not chunks.
Received == EntriesAt(given, {i \in base + 1 .. Len(given) : given[i].n # 0})
\* An iterator that ends has yielded the whole answer in order on its last connection, or
\* a response, a text or an error; otherwise the peer ended the stream early.
WholeOrTold ==
    phase = "ended" =>
        told # None \/ cut \/ [i \in DOMAIN Received |-> Received[i].n] = [i \in 1..Chunks |-> i]

\* Retries are bounded over failed and lost connections together, so a completion is asked
\* for at most MaxRetries + 2 times.
PostsBounded == posts <= MaxRetries + 2

\* A streamed completion loses nothing it received and ends with an answer or a reason.
StreamSound == PartialComplete /\ SealedStreamOpens /\ WholeOrTold /\ PostsBounded

===============================================================================
