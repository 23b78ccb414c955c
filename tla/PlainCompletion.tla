--------------------------- MODULE PlainCompletion ---------------------------
(***************************************************************************)
(* create_chat_completion_from_rendered_prompt in the worker child of      *)
(* utils/llm/model_manager.py: the ladder of ways to call a llama.cpp      *)
(* build whose signature is unknown.  Keyword prompt, positional prompt,   *)
(* calling the model, then token ids by keyword and by position for every  *)
(* tokenization, then the chat API.  An attempt raises or returns; what it *)
(* returns is judged when its stage ends.                                  *)
(*                                                                         *)
(* An attempt's outcome is "valid", "empty" (or malformed), "thinking",    *)
(* "fatal" (a category after which the worker must not be used) or "shape" *)
(* (any other exception).  Diagnostics are left out.                       *)
(***************************************************************************)
EXTENDS Integers

CONSTANTS MaxVariants, None     \* tokenizations of the prompt, at most three in the code

VARIABLES
    caps,       \* what the build offers, and how many tokenizations differ
    pc,         \* the stage
    variant,    \* the tokenization at hand
    last,       \* outcome of the last attempt, or None
    result,     \* what is held as result: None or an outcome that returned
    invalid,    \* last_invalid_reason
    tried,      \* number of attempts
    reply       \* None, or the frame: ok, or an error with its category

vars == <<caps, pc, variant, last, result, invalid, tried, reply>>

Returned == {"valid", "empty", "thinking"}
Raised == {"fatal", "shape"}

Init ==
    /\ caps \in [create : BOOLEAN, call : BOOLEAN, chat : BOOLEAN, variants : 0 .. MaxVariants]
    /\ pc = "render" /\ variant = 1 /\ last = None /\ result = None /\ invalid = None
    /\ tried = 0 /\ reply = None

\* The chat template; a failure is answered with its reason.
Render ==
    /\ pc = "render"
    /\ \/ pc' = "keyword" /\ UNCHANGED reply
       \/ pc' = "done" /\ reply' = [status |-> "error", category |-> "render"]
    /\ UNCHANGED <<caps, variant, last, result, invalid, tried>>

\* _attempt_plain_completion
MayTry_Ignored(cap) == cap /\ result = None   \* Fault: a fatal failure does not stop the ladder
MayTry(cap) == cap /\ result = None /\ last # "fatal"
Attempt(o) ==
    /\ last' = o /\ tried' = tried + 1
    /\ result' = IF o \in Returned THEN o ELSE None

\* The first stage: three calls with the prompt as text, one after the other until
\* something is returned.
TextStage(here, cap, next) ==
    /\ pc = here /\ pc' = next
    /\ IF MayTry(cap) THEN \E o \in Returned \cup Raised : Attempt(o)
       ELSE UNCHANGED <<last, tried, result>>
    /\ UNCHANGED <<caps, variant, invalid, reply>>
Keyword == TextStage("keyword", caps.create, "positional")
Positional == TextStage("positional", caps.create, "call")
Call == TextStage("call", caps.call, "judge")

\* What the stage returned is normalised: leaked thinking is kept as the result, so
\* that nothing else is tried; other invalid output is dropped.
Judge ==
    /\ pc = "judge" /\ pc' = "ids"
    /\ invalid' = IF result \in {"empty", "thinking"} THEN result ELSE invalid
    /\ result' = IF result = "empty" THEN None ELSE result
    /\ UNCHANGED <<caps, variant, last, tried, reply>>

\* The second stage, per tokenization: judged after every attempt.
TryIds(o) ==
    /\ last' = o /\ tried' = tried + 1
    /\ result' = IF o = "valid" THEN o ELSE None
    /\ invalid' = IF o \in {"empty", "thinking"} THEN o ELSE invalid
Ids ==
    /\ pc = "ids"
    /\ IF MayTry(caps.create) /\ variant <= caps.variants /\ invalid # "thinking"
       THEN pc' = "idsPositional" /\ \E o \in Returned \cup Raised : TryIds(o)
       ELSE pc' = "chat" /\ UNCHANGED <<last, tried, result, invalid>>
    /\ UNCHANGED <<caps, variant, reply>>
IdsPositional ==
    /\ pc = "idsPositional" /\ pc' = "ids" /\ variant' = variant + 1
    /\ IF MayTry(TRUE) /\ invalid # "thinking"
       THEN \E o \in Returned \cup Raised : TryIds(o)
       ELSE UNCHANGED <<last, tried, result, invalid>>
    /\ UNCHANGED <<caps, reply>>

\* The optional chat fallback, non-thinking by chat_template_kwargs.
Chat ==
    /\ pc = "chat" /\ pc' = "report"
    /\ IF MayTry(caps.chat) /\ invalid # "thinking"
       THEN \E o \in Returned \cup Raised :
              Attempt(o) /\ invalid' = IF o \in {"empty", "thinking"} THEN o ELSE invalid
       ELSE UNCHANGED <<last, tried, result, invalid>>
    /\ UNCHANGED <<caps, variant, reply>>

\* The frame: an error carries the last invalid output before the last exception, also
\* when that exception was fatal.
Report ==
    /\ pc = "report" /\ pc' = "done"
    /\ reply' = IF result = "valid" THEN [status |-> "ok", category |-> None]
                ELSE [status |-> "error",
                      category |-> IF result # None THEN result
                                   ELSE IF invalid # None THEN invalid
                                   ELSE IF last # None THEN last ELSE "unsupported"]
    /\ UNCHANGED <<caps, variant, last, result, invalid, tried>>

Done == pc = "done" /\ UNCHANGED vars

Next == Render \/ Keyword \/ Positional \/ Call \/ Judge \/ Ids \/ IdsPositional
        \/ Chat \/ Report \/ Done
Spec == Init /\ [][Next]_vars

------------------------------------------------------------------------------
\* The worker is not called again once an attempt returned usable output, failed fatally
\* or leaked thinking: a broken llama.cpp context is never reused, an answer is never
\* replaced by a later attempt, and a model that thinks is not asked twice.
LadderStops == [][tried' # tried => last \notin {"valid", "fatal", "thinking"}]_vars
=============================================================================
