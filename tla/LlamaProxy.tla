----------------------------- MODULE LlamaProxy -----------------------------
(***************************************************************************)
(* The transport between a node and its llama.cpp worker process:          *)
(* _SubprocessLlamaProxy of utils/llm/model_manager.py and the command     *)
(* loop of the child.  Callers are serialised by _lock; one stdout reader  *)
(* routes the child's frames to per-command queues; the child works one    *)
(* command at a time, dies at any moment, and is not interrupted by a      *)
(* caller that gave up.                                                    *)
(*                                                                         *)
(* A command id is never used twice and a caller issues one command, so    *)
(* the caller names its command.  The two commands of the constructor,     *)
(* Import and InitCmd, are callers too.  Frame contents are their kind.    *)
(***************************************************************************)
EXTENDS Integers, Sequences, FiniteSets

CONSTANTS Callers,       \* inference calls, one command each
          Streams,       \* those that stream
          Import, InitCmd, \* the constructor's commands
          MaxFrames,     \* bound on frames the child sends per command
          MaxUnclaimed,  \* capacity of the queue of unclaimed frames
          None

Commands == Callers \cup {Import, InitCmd}

VARIABLES
    boot,       \* the constructor: the command it is at, or "ready", "failed"
    lock,       \* holder of _lock, or None
    pc,         \* "idle", "send", "wait" or "done", per command
    result,     \* how the call ended
    pending,    \* keys of _pending
    completed,  \* _completed_commands
    inbox,      \* the per-command queues
    progress,   \* keys of _latest_progress
    unclaimed,  \* length of _unclaimed_frames
    closed,     \* _closed
    reader,     \* the reader: what it does and with which frame
    stdin,      \* commands written and not yet read by the child
    stdout,     \* frames written and not yet read by the reader
    child,      \* the process: "alive" or "dead"
    busy        \* the command the child works on, and how many frames it sent

callerVars == <<boot, lock, pc, result>>
tableVars == <<pending, completed, inbox, progress, unclaimed>>
childVars == <<stdin, stdout, child, busy>>
vars == <<callerVars, tableVars, closed, reader, childVars>>

Frame(c, kind) == [cmd |-> c, kind |-> kind]
Terminal(f) == f.kind \in {"result", "error", "done", "eof"}
Idle == [cmd |-> None, sent |-> 0]
Reading == [at |-> "read", frame |-> None]

Init ==
    /\ boot = "import" /\ lock = None
    /\ pc = [c \in Commands |-> "idle"] /\ result = [c \in Commands |-> None]
    /\ pending = {} /\ completed = {} /\ inbox = [c \in Commands |-> <<>>]
    /\ progress = {} /\ unclaimed = 0
    /\ closed = FALSE /\ reader = Reading
    /\ stdin = <<>> /\ stdout = <<>> /\ child = "alive" /\ busy = Idle

------------------------------------------------------------------------------
(* A call: create_chat_completion, the other RPCs, the streamed completion. *)

MayStart(c) ==
    \/ c \in Callers /\ boot = "ready"
    \/ c = Import /\ boot = "import"
    \/ c = InitCmd /\ boot = "init"

\* _lock is taken, the command registered.
Register(c) ==
    /\ pc[c] = "idle" /\ lock = None /\ MayStart(c)
    /\ lock' = c /\ pc' = [pc EXCEPT ![c] = "send"]
    /\ pending' = pending \cup {c}
    /\ UNCHANGED <<boot, result, completed, inbox, progress, unclaimed, closed, reader, childVars>>

\* The call returns or raises: the tables forget the command, the lock is released.
\* A failed constructor command ends the constructor, which closes the proxy.
Leave(c, res, forget) ==
    /\ pc' = [pc EXCEPT ![c] = "done"] /\ result' = [result EXCEPT ![c] = res] /\ lock' = None
    /\ boot' = CASE c \in Callers -> boot
                 [] c = Import -> IF res = "result" THEN "init" ELSE "failed"
                 [] OTHER -> IF res = "result" THEN "ready" ELSE "failed"
    /\ pending' = IF forget THEN pending \ {c} ELSE pending
    /\ completed' = IF forget THEN completed \ {c} ELSE completed
    /\ progress' = progress \ {c}
    /\ inbox' = [inbox EXCEPT ![c] = <<>>]
    /\ UNCHANGED unclaimed

\* _send.  The write of the streamed completion is outside its try block: when it
\* raises, the command stays registered.
Send(c) ==
    /\ pc[c] = "send"
    /\ \/ /\ ~closed /\ child = "alive"
          /\ stdin' = Append(stdin, c) /\ pc' = [pc EXCEPT ![c] = "wait"]
          /\ UNCHANGED <<boot, lock, result, tableVars, closed>>
       \/ /\ closed \/ child = "dead"          \* assert_healthy, for callers
          /\ c \in Callers
          /\ Leave(c, "dead", c \notin Streams)
          /\ UNCHANGED <<stdin, closed>>
       \/ /\ child = "dead" /\ (c \notin Callers \/ ~closed)   \* the write fails
          /\ closed' = TRUE
          /\ Leave(c, "broken", c \notin Streams)
          /\ UNCHANGED stdin
    /\ UNCHANGED <<reader, stdout, child, busy>>

\* The waiting caller hands coalesced progress to its observer, or drops it.
DispatchProgress(c) ==
    /\ pc[c] = "wait" /\ c \in progress
    /\ progress' = progress \ {c}
    /\ UNCHANGED <<callerVars, pending, completed, inbox, unclaimed, closed, reader, childVars>>

Receive(c) ==
    /\ pc[c] = "wait" /\ inbox[c] # <<>>
    /\ LET f == Head(inbox[c]) IN
       \/ /\ ~Terminal(f)                       \* a chunk is yielded
          /\ inbox' = [inbox EXCEPT ![c] = Tail(@)]
          /\ UNCHANGED <<callerVars, pending, completed, progress, unclaimed, closed>>
       \/ /\ Terminal(f)
          /\ Leave(c, f.kind, TRUE)
          /\ closed' = (closed \/ f.kind = "eof" \/ (c \notin Callers /\ f.kind # "result"))
    /\ UNCHANGED <<reader, childVars>>

\* A timeout leaves the child at work, unless the caller streams or constructs:
\* those terminate it.
Timeout(c) ==
    /\ pc[c] = "wait" /\ inbox[c] = <<>>
    /\ Leave(c, "timeout", TRUE)
    /\ IF c \in Callers \ Streams
       THEN UNCHANGED <<closed, childVars>>
       ELSE /\ closed' = TRUE /\ child' \in {child, "dead"}
            /\ stdin' = IF child' = "dead" THEN <<>> ELSE stdin
            /\ busy' = IF child' = "dead" THEN Idle ELSE busy
            /\ UNCHANGED stdout
    /\ UNCHANGED reader

\* The consumer of a stream closes the generator between two chunks.
Abandon(c) ==
    /\ c \in Streams /\ pc[c] = "wait"
    /\ Leave(c, "abandoned", TRUE)
    /\ UNCHANGED <<closed, reader, childVars>>

\* close() and the manager's teardown: stdin closed, terminate, kill.
Close ==
    /\ boot \in {"ready", "failed"} /\ ~closed
    /\ closed' = TRUE /\ child' \in {child, "dead"}
    /\ stdin' = IF child' = "dead" THEN <<>> ELSE stdin
    /\ busy' = IF child' = "dead" THEN Idle ELSE busy
    /\ UNCHANGED <<callerVars, tableVars, reader, stdout>>

------------------------------------------------------------------------------
(* The stdout reader.                                                       *)

\* One frame: unclaimed when its command is gone, coalesced when it is progress,
\* dropped behind a terminal frame, else on its way to the queue.
Route(f) ==
    \/ /\ f.cmd \notin pending
       /\ unclaimed' = IF unclaimed < MaxUnclaimed THEN unclaimed + 1 ELSE unclaimed
       /\ UNCHANGED <<progress, reader>>
    \/ /\ f.cmd \in pending /\ f.kind = "progress"
       /\ progress' = progress \cup {f.cmd}
       /\ UNCHANGED <<unclaimed, reader>>
    \/ /\ f.cmd \in pending /\ f.kind # "progress" /\ f.cmd \in completed
       /\ UNCHANGED <<progress, unclaimed, reader>>
    \/ /\ f.cmd \in pending /\ f.kind # "progress" /\ f.cmd \notin completed
       /\ reader' = [at |-> "put", frame |-> f]
       /\ UNCHANGED <<progress, unclaimed>>
ReadFrame ==
    /\ reader.at = "read" /\ stdout # <<>>
    /\ stdout' = Tail(stdout)
    /\ Route(Head(stdout))
    /\ UNCHANGED <<callerVars, pending, completed, inbox, closed, stdin, child, busy>>

\* The frame is put into the queue the reader looked up; its caller may be gone.
PutFrame ==
    /\ reader.at = "put"
    /\ LET f == reader.frame IN
       /\ inbox' = IF pc[f.cmd] = "done" THEN inbox
                   ELSE [inbox EXCEPT ![f.cmd] = Append(@, [kind |-> f.kind, cmd |-> f.cmd])]
       /\ reader' = IF Terminal(f) THEN [reader EXCEPT !.at = "mark"] ELSE Reading
    /\ UNCHANGED <<callerVars, pending, completed, progress, unclaimed, closed, childVars>>

\* Then the command is marked completed: after the caller has left, for good.
MarkCompleted ==
    /\ reader.at = "mark"
    /\ completed' = completed \cup {reader.frame.cmd}
    /\ reader' = Reading
    /\ UNCHANGED <<callerVars, pending, inbox, progress, unclaimed, closed, childVars>>

\* End of file: the transport is closed first, then every command that is still
\* pending fails.
ReadEof ==
    /\ reader.at = "read" /\ stdout = <<>> /\ child = "dead"
    /\ closed' = TRUE /\ reader' = [reader EXCEPT !.at = "fail"]
    /\ UNCHANGED <<callerVars, tableVars, childVars>>
FailPending_Nobody ==   \* Fault: the loop ends without the finally clause
    /\ reader.at = "fail"
    /\ reader' = [reader EXCEPT !.at = "end"]
    /\ UNCHANGED <<callerVars, tableVars, closed, childVars>>
FailPending ==
    /\ reader.at = "fail"
    /\ inbox' = [c \in Commands |->
                   IF c \in pending \ completed /\ pc[c] # "done"
                   THEN Append(inbox[c], Frame(c, "eof")) ELSE inbox[c]]
    /\ reader' = [reader EXCEPT !.at = "end"]
    /\ UNCHANGED <<callerVars, pending, completed, progress, unclaimed, closed, childVars>>

------------------------------------------------------------------------------
(* The child: reads a line, works, emits.                                   *)

ChildTake ==
    /\ child = "alive" /\ busy.cmd = None /\ stdin # <<>>
    /\ busy' = [cmd |-> Head(stdin), sent |-> 0] /\ stdin' = Tail(stdin)
    /\ UNCHANGED <<callerVars, tableVars, closed, reader, stdout, child>>

\* Progress, and chunks of a stream.
ChildEmits ==
    /\ child = "alive" /\ busy.cmd \in Callers /\ busy.sent < MaxFrames
    /\ \E k \in {"progress"} \cup (IF busy.cmd \in Streams THEN {"chunk"} ELSE {}) :
         stdout' = Append(stdout, Frame(busy.cmd, k))
    /\ busy' = [busy EXCEPT !.sent = @ + 1]
    /\ UNCHANGED <<callerVars, tableVars, closed, reader, stdin, child>>

\* The one terminal frame; a failed import or construction also ends the process.
ChildAnswers ==
    /\ child = "alive" /\ busy.cmd # None
    /\ \E k \in {IF busy.cmd \in Streams THEN "done" ELSE "result", "error"} :
        /\ stdout' = Append(stdout, Frame(busy.cmd, k))
        /\ child' = IF k = "error" /\ busy.cmd \notin Callers THEN "dead" ELSE child
        /\ stdin' = IF child' = "dead" THEN <<>> ELSE stdin
    /\ busy' = Idle
    /\ UNCHANGED <<callerVars, tableVars, closed, reader>>

ChildDies ==
    /\ child = "alive"
    /\ child' = "dead" /\ stdin' = <<>> /\ busy' = Idle
    /\ UNCHANGED <<callerVars, tableVars, closed, reader, stdout>>

\* The process is gone, everything read, every call made.
Finished ==
    /\ \/ boot = "failed" \/ \A c \in Callers : pc[c] = "done"
    /\ reader.at = "end"
    /\ UNCHANGED vars

ReaderStep == ReadFrame \/ PutFrame \/ MarkCompleted \/ ReadEof \/ FailPending
CallerStep(c) == Send(c) \/ DispatchProgress(c) \/ Receive(c)

Next ==
    \/ \E c \in Commands : Register(c) \/ CallerStep(c) \/ Timeout(c) \/ Abandon(c)
    \/ ReaderStep \/ Close
    \/ ChildTake \/ ChildEmits \/ ChildAnswers \/ ChildDies \/ Finished

Spec == Init /\ [][Next]_vars

\* Threads of the node run; nothing is assumed of the child or of timeouts.
FairSpec ==
    Spec /\ WF_vars(ReaderStep) /\ \A c \in Commands : WF_vars(CallerStep(c))

------------------------------------------------------------------------------
\* Nobody waits for a dead worker: whatever the process was doing when it died, and
\* without any timeout, its callers are answered or fail.
DeadWorkerAnswersAll ==
    \A c \in Commands : (pc[c] = "wait" /\ child = "dead") ~> pc[c] = "done"
=============================================================================
