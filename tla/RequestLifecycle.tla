-------------------------- MODULE RequestLifecycle --------------------------
(***************************************************************************)
(* What the relay promises about API v1 requests, whatever its threads,    *)
(* nodes and clocks do.  A request is admitted once.  It is answered at    *)
(* most once, and never while a record says that it was cancelled or       *)
(* expired.  Whatever else ends a pending request leaves such a record, so *)
(* that a requester who asks in time hears "gone"; "unknown" is said only  *)
(* of a request that is neither pending nor recorded.  What is over never  *)
(* comes back.                                                             *)
(*                                                                         *)
(* A request cancelled while a thread or a node still has it is withdrawn. *)
(* It ends silently, unless its record is forgotten first: then the node's *)
(* late answer is taken.                                                   *)
(*                                                                         *)
(* Requests are independent, so one step of the relay may move several.    *)
(* RelayApiV1 implements this; ChatRequest is a requester that relies on   *)
(* it.                                                                     *)
(***************************************************************************)
CONSTANT Request

VARIABLES
    status,    \* request -> its stage
    told,      \* request -> the final answer its requester got
    recorded   \* requests with a remembered terminal record

vars == <<status, told, recorded>>

Init ==
    /\ status = [r \in Request |-> "absent"]
    /\ told = [r \in Request |-> "nothing"]
    /\ recorded = {}

\* A requester takes one final answer and keeps it.
Hears(r, answers) ==
    told'[r] = told[r] \/ (told[r] = "nothing" /\ told'[r] \in answers)

\* A record may run out, and none is written.
NoNewRecord(r) == r \in recorded' => r \in recorded

Admit(r) ==
    /\ status[r] = "absent" /\ status'[r] = "pending"
    /\ Hears(r, {}) /\ NoNewRecord(r)

Answer(r) ==
    /\ status[r] \in {"pending", "withdrawn"} /\ r \notin recorded
    /\ status'[r] = "answered"
    /\ Hears(r, {}) /\ NoNewRecord(r)

\* The reply that carries the answer may be lost.
Take(r) ==
    /\ status[r] = "answered" /\ status'[r] = "over"
    /\ Hears(r, {"delivered"}) /\ NoNewRecord(r)

\* Cancelled, expired, or lost with its node.
End(r) ==
    /\ status[r] = "pending" /\ status'[r] \in {"withdrawn", "over"}
    /\ r \in recorded'
    /\ Hears(r, {"gone"})

\* What a requester may be told of a request that is not pending.
Truth(r) ==
    IF r \in recorded THEN {"gone"}
    ELSE IF status[r] \in {"withdrawn", "answered", "over"} THEN {"unknown"} ELSE {}

\* Whoever still had a withdrawn request lets go of it.
LetGo(r) ==
    /\ status[r] = "withdrawn" /\ status'[r] = "over"
    /\ Hears(r, Truth(r))

\* A withdrawn request may be found and cancelled again.
Stay(r) ==
    /\ status'[r] = status[r]
    /\ status[r] = "withdrawn" \/ NoNewRecord(r)
    /\ Hears(r, Truth(r))

Move(r) == Admit(r) \/ Answer(r) \/ Take(r) \/ End(r) \/ LetGo(r) \/ Stay(r)

Next == \A r \in Request : Move(r)

Spec == Init /\ [][Next]_vars
=============================================================================
