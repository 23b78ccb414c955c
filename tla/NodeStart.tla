------------------------------ MODULE NodeStart ------------------------------
(***************************************************************************)
(* Six independent parts of a compute node's runtime, one per behaviour:   *)
(* the model file (ModelArtifact, which this module extends), the          *)
(* readiness of the runtime, the command pipe to the worker process, the   *)
(* completion the worker runs for a rendered prompt, the inference of an   *)
(* API v1 answer and the progress it publishes.  They share no state; the  *)
(* parts not chosen stay in one initial state.                             *)
(***************************************************************************)
EXTENDS ModelArtifact, Sequences

CONSTANTS
    MaxCalls,                                                      \* readiness
    MaxVariants,                                                   \* completion
    Callers, Streams, Import, InitCmd, MaxFrames, MaxUnclaimed,    \* pipe
    Optional, Defaults, Window, DefaultMax, MaxBytes, MaxMessages, \* inference
    MaxPieces, RuntimeIds, MaxRequests, MaxRuntimes,
    Publisher, MaxUpdates                                          \* progress

VARIABLES part,
          ladder, known, cursor, selected, attempted, slot, made, rd,
          caps, pc, variant, last, result, invalid, tried, reply,
          boot, lock, at, ended, pending, completed, inbox, progress, unclaimed, closed,
          reader, stdin, stdout, child, busy,
          nonThinking, served, stage, req, llm, objects, diag, cache, removed, budget, call,
          answer,
          stopped, quiet, shown, sequence, handing, updates, mail, rested, hand, work,
          overdue, late

Readiness == INSTANCE RuntimeReadiness
Completion == INSTANCE PlainCompletion
Proxy == INSTANCE LlamaProxy WITH pc <- at, result <- ended
Inference == INSTANCE ApiV1Inference WITH pc <- stage
Progress == INSTANCE ProgressPublisher WITH slot <- mail, at <- hand

readinessVars == <<ladder, known, cursor, selected, attempted, slot, made, rd>>
completionVars == <<caps, pc, variant, last, result, invalid, tried, reply>>
proxyVars == <<boot, lock, at, ended, pending, completed, inbox, progress, unclaimed, closed,
               reader, stdin, stdout, child, busy>>
inferenceVars == <<nonThinking, served, stage, req, llm, objects, diag, cache, removed, budget,
                   call, answer>>
progressVars == <<stopped, quiet, shown, sequence, handing, updates, mail, rested, hand, work,
                  overdue, late>>
allVars == <<part, vars, readinessVars, completionVars, proxyVars, inferenceVars, progressVars>>

NodeInit ==
    /\ part \in {"artifact", "readiness", "completion", "proxy", "inference", "progress"}
    /\ Init /\ Readiness!Init /\ Completion!Init /\ Proxy!Init /\ Inference!Init /\ Progress!Init
    /\ part # "artifact" => file = None
    /\ part # "readiness" => ladder = Readiness!BuildProfiles("safe", {})
    /\ part # "completion" =>
         caps = [create |-> TRUE, call |-> TRUE, chat |-> TRUE, variants |-> 0]
    /\ part # "inference" => ~nonThinking

ArtifactStep ==
    /\ part = "artifact" /\ Next
    /\ UNCHANGED <<part, readinessVars, completionVars, proxyVars, inferenceVars, progressVars>>
OfReadiness(A) ==
    /\ part = "readiness" /\ A
    /\ UNCHANGED <<part, vars, completionVars, proxyVars, inferenceVars, progressVars>>
CompletionStep ==
    /\ part = "completion" /\ Completion!Next
    /\ UNCHANGED <<part, vars, readinessVars, proxyVars, inferenceVars, progressVars>>
OfProxy(A) ==
    /\ part = "proxy" /\ A
    /\ UNCHANGED <<part, vars, readinessVars, completionVars, inferenceVars, progressVars>>
InferenceStep ==
    /\ part = "inference" /\ Inference!Next
    /\ UNCHANGED <<part, vars, readinessVars, completionVars, proxyVars, progressVars>>
ProgressStep ==
    /\ part = "progress" /\ Progress!Next
    /\ UNCHANGED <<part, vars, readinessVars, completionVars, proxyVars, inferenceVars>>
\* No further request or update need come.
Rest == part \in {"inference", "progress"} /\ UNCHANGED allVars

NodeNext ==
    \/ ArtifactStep \/ OfReadiness(Readiness!Next) \/ CompletionStep \/ OfProxy(Proxy!Next)
    \/ InferenceStep \/ ProgressStep \/ Rest

\* A readiness call, the reader thread of the pipe and its callers take their next step;
\* nothing is assumed of the worker process or of timeouts.
Fairness ==
    /\ WF_allVars(OfReadiness(Readiness!Step))
    /\ WF_allVars(OfProxy(Proxy!ReaderStep))
    /\ \A c \in Callers \cup {Import, InitCmd} : WF_allVars(OfProxy(Proxy!CallerStep(c)))

NodeSpec == NodeInit /\ [][NodeNext]_allVars /\ Fairness

------------------------------------------------------------------------------
\* Every readiness call ends although the manager forgets most attempts.
ReadinessEnds == Readiness!ReadinessEnds
\* The worker is not called again after an answer, a fatal failure or leaked thinking.
LadderStops == Completion!LadderStops
\* Nobody waits for a dead worker.
DeadWorkerAnswersAll == Proxy!DeadWorkerAnswersAll
\* Every call to the runtime honours the client's options and the context window.
CallHonoursRequest == Inference!CallHonoursRequest
\* A non-thinking profile never releases reasoning.
NoReasoningReleased == Inference!NoReasoningReleased
\* A finished request publishes no further progress.
StoppedStaysQuiet == Progress!StoppedStaysQuiet
=============================================================================
