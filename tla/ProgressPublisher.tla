-------------------------- MODULE ProgressPublisher --------------------------
(***************************************************************************)
(* Encrypted progress updates of the compute node                          *)
(* (_ApiV1ProgressPublisher and _ApiV1ProgressHttpWorker of                *)
(* utils/networking/relay_client.py).  Each request has a publisher; the   *)
(* runtime's observer thread submits to it and the thread that serves the  *)
(* request stops it.  One HTTP worker serves the publishers of every relay *)
(* client of the process through a slot that holds the newest update not   *)
(* yet started.  The publisher's lock and the worker's condition are       *)
(* separate, and the worker holds neither while it prepares and posts.     *)
(***************************************************************************)
EXTENDS Naturals, FiniteSets

CONSTANTS Publisher,
          MaxUpdates,  \* bound: updates each observer submits
          None

VARIABLES
    stopped,   \* publishers whose _stopped is set and _active cleared
    quiet,     \* publishers whose stop() has returned
    shown,     \* _last_phase
    sequence,  \* _sequence
    handing,   \* observers between their own check and the worker's slot
    updates,   \* submissions so far
    slot,      \* _pending: publisher, urgent
    rested,    \* the interval since the last publication has passed
    at,        \* the worker: "wait", "check", "prepared", "cleared", "posted"
    work,      \* the publisher it serves
    overdue,   \* that publisher's stop() had returned when the worker took the update
    late       \* publishers with an overdue update that was posted

worker == <<at, work, overdue, rested>>
vars == <<stopped, quiet, shown, sequence, handing, updates, slot, worker, late>>

Phases == {"prefill", "generating"}

Init ==
    /\ stopped = {} /\ quiet = {} /\ shown = [p \in Publisher |-> None]
    /\ sequence = [p \in Publisher |-> 0]
    /\ handing = [p \in Publisher |-> None] /\ updates = [p \in Publisher |-> 0]
    /\ slot = None /\ rested = TRUE /\ at = "wait" /\ work = None
    /\ overdue = FALSE /\ late = {}

Active_Ignored(p) == TRUE   \* Fault: a stopped publisher passes for an active one
Active(p) == p \notin stopped

\* submit(): a stopped publisher takes nothing; a new phase is urgent.
Submit(p, phase) ==
    /\ handing[p] = None /\ updates[p] < MaxUpdates /\ Active(p)
    /\ updates' = [updates EXCEPT ![p] = @ + 1]
    /\ shown' = [shown EXCEPT ![p] = phase]
    /\ handing' = [handing EXCEPT ![p] = [urgent |-> phase # shown[p]]]
    /\ UNCHANGED <<stopped, quiet, sequence, slot, worker, late>>

\* The update takes the slot from whoever is in it; urgency outlives an update of the same
\* publisher that was not started.
HandOff(p) ==
    /\ handing[p] # None
    /\ slot' = [pub |-> p,
                urgent |-> handing[p].urgent \/ (slot # None /\ slot.pub = p /\ slot.urgent)]
    /\ handing' = [handing EXCEPT ![p] = None]
    /\ UNCHANGED <<stopped, quiet, shown, sequence, updates, worker, late>>

\* stop(): the flags under the publisher's lock, then the slot under the worker's.
StopFlags(p) ==
    /\ p \notin quiet /\ stopped' = stopped \cup {p}
    /\ UNCHANGED <<quiet, shown, sequence, handing, updates, slot, worker, late>>
Invalidate(p) ==
    /\ p \in stopped \ quiet /\ quiet' = quiet \cup {p}
    /\ slot' = IF slot # None /\ slot.pub = p THEN None ELSE slot
    /\ UNCHANGED <<stopped, shown, sequence, handing, updates, worker, late>>

\* The worker takes an update that is urgent, or due at the cadence.
Take ==
    /\ at = "wait" /\ slot # None /\ (slot.urgent \/ rested)
    /\ work' = slot.pub /\ overdue' = (slot.pub \in quiet) /\ slot' = None /\ at' = "check"
    /\ UNCHANGED <<stopped, quiet, shown, sequence, handing, updates, rested, late>>

\* The publication is over, sent or not, and the interval starts.
Rest == at' = "wait" /\ work' = None /\ overdue' = FALSE /\ rested' = FALSE

\* _prepare draws a number, then encrypts, which may raise.
Prepare ==
    /\ at = "check"
    /\ \/ /\ Active(work) /\ sequence' = [sequence EXCEPT ![work] = @ + 1]
          /\ at' = "prepared" /\ UNCHANGED <<work, overdue, rested>>
       \/ Active(work) /\ sequence' = [sequence EXCEPT ![work] = @ + 1] /\ Rest
       \/ ~Active(work) /\ Rest /\ UNCHANGED sequence
    /\ UNCHANGED <<stopped, quiet, shown, handing, updates, slot, late>>

\* The publisher may have stopped while the update was prepared.
Recheck ==
    /\ at = "prepared"
    /\ IF Active(work) THEN at' = "cleared" /\ UNCHANGED <<work, overdue, rested>> ELSE Rest
    /\ UNCHANGED <<stopped, quiet, shown, sequence, handing, updates, slot, late>>
Post ==
    /\ at = "cleared" /\ at' = "posted"
    /\ late' = IF overdue THEN late \cup {work} ELSE late
    /\ UNCHANGED <<stopped, quiet, shown, sequence, handing, updates, slot, work, overdue, rested>>

\* A refusal stops the publisher from the worker's side; other replies and errors do not.
Reply(refused) ==
    /\ at = "posted" /\ Rest
    /\ stopped' = IF refused THEN stopped \cup {work} ELSE stopped
    /\ UNCHANGED <<quiet, shown, sequence, handing, updates, slot, late>>

IntervalPasses ==
    /\ ~rested /\ rested' = TRUE
    /\ UNCHANGED <<stopped, quiet, shown, sequence, handing, updates, slot, at, work, overdue, late>>

Next ==
    \/ \E p \in Publisher : \/ \E phase \in Phases : Submit(p, phase)
                            \/ HandOff(p) \/ StopFlags(p) \/ Invalidate(p)
    \/ Take \/ Prepare \/ Recheck \/ Post \/ (\E r \in BOOLEAN : Reply(r)) \/ IntervalPasses
Spec == Init /\ [][Next]_vars

------------------------------------------------------------------------------
\* No update the worker takes up after stop() has returned is posted: at most the one in
\* the worker's hands at that moment still goes out.  An update checked before the stop and
\* handed over after the slot was cleared does not speak for a finished request.
StoppedStaysQuiet == late = {}
=============================================================================
