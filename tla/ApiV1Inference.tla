--------------------------- MODULE ApiV1Inference ---------------------------
(***************************************************************************)
(* One API v1 request in the compute node, from the decrypted messages to  *)
(* the response envelope: _generate_api_v1_response_with_runtime_model of  *)
(* utils/networking/relay_client.py.  Requests follow one another on one   *)
(* relay client; what a request leaves behind for the next is the cache of *)
(* generation keywords the runtime rejected, kept per runtime object, and  *)
(* the tokenizer diagnostics stored on the runtime object itself.  The     *)
(* runtime is external: which keywords it rejects, what it counts and what *)
(* it returns is open, and a recovery may replace it at any time.          *)
(***************************************************************************)
EXTENDS Integers, Sequences, FiniteSets, FiniteSetsExt, SequencesExt

CONSTANTS
    Optional,      \* client options besides max_tokens and stream
    Defaults,      \* generation keywords added from the configuration and the profile
    Window,        \* context_window_tokens
    DefaultMax,    \* model.max_tokens
    MaxBytes,      \* _API_V1_MAX_TOTAL_MESSAGE_UTF8_BYTES
    MaxMessages,   \* _API_V1_MAX_MESSAGES
    MaxPieces,     \* bound: tags, markers and texts of a completion
    RuntimeIds,    \* values of id(runtime)
    MaxRequests,   \* bound: requests served
    MaxRuntimes,   \* bound: runtime objects
    None

VARIABLES
    nonThinking,   \* configuration: the profile forbids reasoning output (Qwen)
    served,    \* requests begun
    pc,        \* where the request stands
    req,       \* the request at hand
    llm,       \* the runtime object: its id, the keywords it rejects; None
    objects,   \* runtime objects created
    diag,      \* _token_place_last_render_tokenize_error of the runtime object
    cache,     \* _api_v1_generation_kwarg_cache: filtered keywords per key
    removed,   \* keywords this request removed
    budget,    \* prompt and effective output tokens of the admission
    call,      \* keywords and max_tokens of the latest runtime call
    answer     \* the response envelope

vars == <<nonThinking, served, pc, req, llm, objects, diag, cache, removed, budget, call, answer>>

------------------------------------------------------------------------------
(* Validation of a request *)

Faults == {"none", "message_not_object", "unknown_message_keys", "invalid_role",
           "invalid_name", "missing_content", "invalid_content"}
Message == [fault : Faults, bytes : 0..1]

\* _validate_api_v1_chat_messages: the first message that is malformed, or with which the
\* total size passes the limit, decides; a malformed message is not counted.
Total(msgs, i) == MapThenSumSet(LAMBDA j : msgs[j].bytes, 1..i)
Offending(msgs) ==
    {i \in 1..Len(msgs) : msgs[i].fault # "none" \/ Total(msgs, i) > MaxBytes}
ChatVerdict(msgs) ==
    IF msgs = <<>> \/ Len(msgs) > MaxMessages THEN "compute_node_invalid_request"
    ELSE IF Offending(msgs) = {} THEN "ok"
    ELSE IF msgs[Min(Offending(msgs))].fault # "none" THEN "compute_node_invalid_request"
    ELSE "compute_node_request_too_large"

\* _api_v1_validate_and_normalise_options: an option nobody supports decides first, then
\* the first bad value; stream may only be False.
OptionsVerdict(opts) ==
    LET bad == {i \in 1..Len(opts) : opts[i].value = "bad"} IN
    IF \E i \in 1..Len(opts) : opts[i].name = "foreign" THEN "compute_node_options_unsupported"
    ELSE IF bad = {} THEN "ok"
    ELSE IF opts[Min(bad)].name = "stream" THEN "compute_node_options_unsupported"
    ELSE "compute_node_invalid_request"

\* The verdicts requests can get, and their options once accepted.
ChatVerdicts == {ChatVerdict(m) : m \in SeqOf(Message, MaxMessages + 1)}
OptionLists ==
    {o \in SeqOf([name : Optional \cup {"stream", "foreign"}, value : {"good", "bad"}], 2) :
        \A i, j \in 1..Len(o) : o[i].name = o[j].name => i = j}
OptionInputs ==
    {[verdict |-> OptionsVerdict(o), names |-> {o[i].name : i \in 1..Len(o)} \ {"stream"}] :
        o \in OptionLists}

------------------------------------------------------------------------------
(* Output: _assistant_message_from_runtime_completion *)

\* Content as a sequence of think tags, end markers and text.
Piece == {"open", "close", "end", "text"}
Completion == [shape : {"message", "text", "string", "other"}, tools : BOOLEAN,
               reasoning : BOOLEAN, content : SeqOf(Piece, MaxPieces)]

\* Empty wrappers at the front: open, close pairs.
Wrappers(c) ==
    Max({k \in 0..Len(c) : 2 * k <= Len(c)
            /\ \A i \in 1..k : c[2 * i - 1] = "open" /\ c[2 * i] = "close"})
DropEnd(c) == IF c # <<>> /\ Last(c) = "end" THEN Front(c) ELSE c
Tagged(c) == \E i \in 1..Len(c) : c[i] \in {"open", "close"}

\* _api_v1_normalize_qwen_non_thinking_content (nt: the profile is non-thinking); None
\* when it fails closed.
Normalize(nt, c) ==
    LET rest == SubSeq(c, 2 * Wrappers(c) + 1, Len(c)) IN
    CASE ~nt -> IF c = <<>> THEN None ELSE c
      [] OTHER -> IF Tagged(rest) \/ DropEnd(rest) = <<>> THEN None ELSE DropEnd(rest)

Assistant(content, tools, reasoning) ==
    [content |-> content, tools |-> tools, reasoning |-> reasoning]

AssistantMessage_ContentOnly(nt, r) ==   \* Fault: only the text is searched for reasoning
    LET text == r.content # <<>>
        whole == text \/ (r.shape = "message" /\ r.tools) IN
    IF r.shape = "other" \/ ~whole THEN None
    ELSE IF ~text THEN Assistant(<<>>, TRUE, r.reasoning)
    ELSE IF Normalize(nt, r.content) = None THEN None
    ELSE Assistant(Normalize(nt, r.content), r.tools /\ r.shape = "message", r.reasoning)
AssistantMessage(nt, r) ==
    LET text == r.content # <<>>
        whole == text \/ (r.shape = "message" /\ r.tools) IN
    IF r.shape = "other" \/ ~whole THEN None
    ELSE IF nt /\ r.reasoning THEN None
    ELSE IF ~text THEN Assistant(<<>>, TRUE, r.reasoning)
    ELSE IF Normalize(nt, r.content) = None THEN None
    ELSE Assistant(Normalize(nt, r.content), r.tools /\ r.shape = "message", r.reasoning)

\* What a runtime's completions come to: only a message has tool calls, a plain string has
\* no reasoning field.
Outputs ==
    [nt \in BOOLEAN |-> {AssistantMessage(nt, r) : r \in {c \in Completion :
        (c.shape # "message" => ~c.tools) /\ (c.shape = "string" => ~c.reasoning)}}]

------------------------------------------------------------------------------
(* Keywords of a runtime call *)

\* The cache entry is looked up by the runtime object the manager has right now.
Filtered == IF llm = None THEN {} ELSE cache[llm.id]
Protected == {"messages", "max_tokens", "stream"}
RenderKeywords == {"token_place_provider", "token_place_template_policy"}

\* _api_v1_runtime_completion_kwargs, for the chat path; the client's options come last.
ChatKeywords == (Defaults \ Filtered) \cup req.options \cup {"max_tokens", "stream"}

\* The rendered-prompt path of a non-thinking profile: no sampling keywords at all.
RenderedKeywords == {"max_tokens", "enable_thinking"} \cup (RenderKeywords \ Filtered)

Keywords == IF nonThinking THEN RenderedKeywords ELSE ChatKeywords

\* Keywords whose rejection ends the request: the client's own, and the fixed ones.
Untouchable == req.options \cup Protected \cup {"seed", "enable_thinking"}
MaxRemoved == 3   \* max_removed_kwargs

------------------------------------------------------------------------------
NoBudget == [prompt |-> 0, effective |-> 0]

Init ==
    /\ nonThinking \in BOOLEAN
    /\ served = 0 /\ pc = "idle" /\ req = None /\ llm = None /\ objects = 0
    /\ diag = None /\ cache = [k \in RuntimeIds |-> {}] /\ removed = 0
    /\ budget = NoBudget /\ call = None /\ answer = None

\* A blame names the request whose diagnostics an error carries.
Answer(code, message, blame) ==
    /\ pc' = "idle"
    /\ answer' = [code |-> code, message |-> message, blame |-> blame]
    /\ req' = None /\ removed' = 0 /\ budget' = NoBudget /\ call' = None
    /\ UNCHANGED <<nonThinking, served, llm, objects, cache>>
Refuse(code) == Answer(code, None, None) /\ UNCHANGED diag

\* The checks before the runtime is touched, in their order: messages, model, options.
Verdict(chat, known, o) ==
    CASE chat # "ok" -> chat
      [] chat = "ok" /\ ~known -> "compute_node_model_unsupported"
      [] OTHER -> o.verdict

\* The decrypted request.
Receive ==
    /\ pc = "idle" /\ served < MaxRequests
    /\ served' = served + 1 /\ pc' = "validate"
    /\ \E chat \in ChatVerdicts, known \in BOOLEAN, o \in OptionInputs, max \in {1, DefaultMax},
         tier \in BOOLEAN :
         req' = [verdict |-> Verdict(chat, known, o), max |-> max, tier |-> tier,
                 options |-> IF Verdict(chat, known, o) = "ok" THEN o.names ELSE {}]
    /\ answer' = None
    /\ UNCHANGED <<nonThinking, llm, objects, diag, cache, removed, budget, call>>

Validate ==
    /\ pc = "validate"
    /\ IF req.verdict # "ok" THEN Refuse(req.verdict)
       ELSE /\ pc' = "instance"
            /\ UNCHANGED <<nonThinking, served, req, llm, objects, diag, cache, removed, budget, call, answer>>

\* get_llm_instance, then get_llm_instance_with_recovery: a runtime, an exception, or None,
\* which the admission meets.
GetInstance ==
    /\ pc = "instance"
    /\ \/ pc' = "tokenize"
          /\ UNCHANGED <<nonThinking, served, req, llm, objects, diag, cache, removed, budget, call, answer>>
       \/ llm = None /\ Refuse("compute_node_internal_error")

\* External: the model manager loads a runtime, or a recovery or a cancellation replaces
\* or takes away the one there is.  Python may give a new object the id of a dead one.
NewRuntime ==
    /\ objects < MaxRuntimes /\ objects' = objects + 1
    /\ llm' \in [id : RuntimeIds,
                rejects : SUBSET IF nonThinking THEN RenderKeywords \cup {"enable_thinking"}
                                 ELSE Defaults \cup Optional]
    /\ diag' = None
    /\ UNCHANGED <<nonThinking, served, pc, req, cache, removed, budget, call, answer>>
LoseRuntime ==
    /\ llm # None /\ llm' = None /\ diag' = None
    /\ UNCHANGED <<nonThinking, served, pc, req, objects, cache, removed, budget, call, answer>>

------------------------------------------------------------------------------
(* Context admission *)

Counted(n) == /\ pc' = "admit" /\ budget' = [prompt |-> n, effective |-> 0]
              /\ UNCHANGED <<nonThinking, served, req, llm, objects, cache, removed, call, answer>>

\* render_and_tokenize_chat in the worker.  A refusal leaves its diagnostics on the
\* runtime object, any other failure leaves there what was there before.
Tokenize ==
    /\ pc = "tokenize"
    /\ \/ llm # None /\ diag' = None /\ \E n \in 0..(Window + 1) : Counted(n)
       \/ /\ pc' = "render"
          /\ \/ /\ llm # None
                /\ \E code \in {"compute_node_invalid_request", "unavailable"} :
                     diag' = [by |-> served, code |-> code]
             \/ UNCHANGED diag
          /\ UNCHANGED <<nonThinking, served, req, llm, objects, cache, removed, budget, call, answer>>

AdmissionError(d) ==
    /\ Answer(IF d # None /\ d.code = "compute_node_invalid_request" THEN d.code
              ELSE "compute_node_context_admission_unavailable",
              None, IF d = None THEN None ELSE d.by)
    /\ diag' = IF llm = None THEN None ELSE d

\* The fallback: _api_v1_render_chat_prompt and _api_v1_tokenize_rendered_prompt.  A
\* template that cannot switch thinking off is recorded; without that, the diagnostics
\* already on the object stand.
HardSwitch == [by |-> served, code |-> "unavailable"]
Render ==
    /\ pc = "render"
    /\ \/ /\ llm # None
          /\ \/ diag' = None /\ \E n \in 0..(Window + 1) : Counted(n)
             \/ AdmissionError(None)
       \/ ~nonThinking /\ llm # None /\ UNCHANGED diag /\ \E n \in 0..(Window + 1) : Counted(n)
       \/ ~nonThinking /\ AdmissionError(diag)
       \/ nonThinking /\ AdmissionError(HardSwitch)
       \/ nonThinking /\ diag # None /\ AdmissionError(diag)

\* _api_v1_authoritative_context_admission: the output is capped to what the window leaves.
Admit_Uncapped ==   \* Fault: the request's own output limit is passed on
    /\ pc = "admit"
    /\ IF ~req.tier THEN Refuse("compute_node_context_tier_unsupported")
       ELSE IF budget.prompt >= Window THEN Refuse("compute_node_context_window_exceeded")
       ELSE /\ pc' = "generate" /\ budget' = [budget EXCEPT !.effective = req.max]
            /\ UNCHANGED <<nonThinking, served, req, llm, objects, diag, cache, removed, call, answer>>
Admit ==
    /\ pc = "admit"
    /\ IF ~req.tier THEN Refuse("compute_node_context_tier_unsupported")
       ELSE IF budget.prompt >= Window THEN Refuse("compute_node_context_window_exceeded")
       ELSE /\ pc' = "generate"
            /\ budget' = [budget EXCEPT !.effective = Min({req.max, Window - budget.prompt})]
            /\ UNCHANGED <<nonThinking, served, req, llm, objects, diag, cache, removed, call, answer>>

------------------------------------------------------------------------------
(* Generation with keyword filtering: _api_v1_create_chat_completion_filtered and         *)
(* _api_v1_create_completion_from_rendered_prompt_filtered.                               *)

\* A non-thinking profile needs the rendered-prompt bridge, which takes no client options.
Generate ==
    /\ pc = "generate"
    /\ \/ nonThinking /\ Refuse("compute_node_runtime_unavailable")
       \/ nonThinking /\ req.options # {} /\ Refuse("compute_node_options_unsupported")
       \/ /\ nonThinking => req.options = {}
          /\ pc' = "running" /\ call' = [keywords |-> Keywords, max |-> budget.effective]
          /\ UNCHANGED <<nonThinking, served, req, llm, objects, diag, cache, removed, budget, answer>>

\* The runtime rejects a keyword.  One of the defaults is dropped, remembered under the
\* runtime of this moment, and the call repeated.
Rejected ==
    /\ pc = "running" /\ llm # None
    /\ \E k \in call.keywords \cap llm.rejects :
         IF k \in Untouchable \/ removed >= MaxRemoved
         THEN Refuse(IF k = "enable_thinking" THEN "compute_node_internal_error"
                     ELSE "compute_node_options_unsupported")
         ELSE /\ removed' = removed + 1 /\ pc' = "generate"
              /\ cache' = [cache EXCEPT ![llm.id] = @ \cup {k}]
              /\ UNCHANGED <<nonThinking, served, req, llm, objects, diag, budget, call, answer>>

\* The call fails for another reason, a missing runtime included.
Failed ==
    /\ pc = "running"
    /\ \E code \in {"compute_node_internal_error", "compute_node_options_unsupported",
                    "compute_node_invalid_request"} : Refuse(code)

Completed ==
    /\ pc = "running" /\ llm # None /\ call.keywords \cap llm.rejects = {}
    /\ \E m \in Outputs[nonThinking] :
         IF m = None THEN Refuse("compute_node_invalid_model_output") ELSE Answer("ok", m, None) /\ UNCHANGED diag

------------------------------------------------------------------------------
Next == \/ Receive \/ Validate \/ GetInstance \/ NewRuntime \/ LoseRuntime
        \/ Tokenize \/ Render \/ Admit \/ Generate \/ Rejected \/ Failed \/ Completed
Spec == Init /\ [][Next]_vars

------------------------------------------------------------------------------
\* Every runtime call, each retry after a rejected keyword included, carries all the
\* client's options whatever earlier requests taught about the runtime, and stays inside
\* the context window and within the output that was asked for.
CallHonoursRequest ==
    call # None =>
        /\ req.options \subseteq call.keywords
        /\ call.max \in 1..req.max /\ budget.prompt + call.max <= Window

\* A non-thinking profile never releases reasoning: no think tag in the text, no reasoning
\* field, and every call carried the hard switch.
NoReasoningReleased ==
    nonThinking =>
        /\ call # None => "enable_thinking" \in call.keywords
        /\ (answer # None /\ answer.code = "ok") =>
              ~answer.message.reasoning /\ ~Tagged(answer.message.content)
=============================================================================
