------------------------- MODULE ComputeNodeBridge -------------------------
(***************************************************************************)
(* The desktop bridge process, run() of                                    *)
(* desktop-tauri/src-tauri/python/compute_node_bridge.py: one relay client *)
(* per configured relay over one shared model runtime.  Threads:           *)
(*   reader   the stdin reader: an operator Stop latches a flag, then      *)
(*            stops every active relay client;                             *)
(*   main     the warm-load gate, the pollers, the bounded cleanup;        *)
(*   pl[r]    the poll loop of relay r, which hands each poll to           *)
(*   wk[r]    its poll worker, which goes on after the loop gave up, or,   *)
(*            while a request is served, the heartbeat in a registration;  *)
(*   a poll loop whose request left the runtime broken coordinates the     *)
(*   recovery of the shared runtime, the others join it;                   *)
(*   cu[r]    the cleanup thread of relay r.                               *)
(* A relay client is its stop latch, its registration evidence and its     *)
(* mutations in flight (RelayClient has the rest).  Relays are external,   *)
(* and deadlines are flags.                                                *)
(***************************************************************************)
EXTENDS Integers, Sequences, FiniteSets, SequencesExt

CONSTANTS Relays,     \* sequence of distinct relay targets, in configured order
          Attempts,   \* TOKENPLACE_DESKTOP_API_V1_RECOVERY_ATTEMPTS
          WarmLoad,   \* TOKENPLACE_DESKTOP_WARM_LOAD
          Flaky,      \* bound: relays whose client's calls may raise or fail
          None

ASSUME RelaysAssumption ==
    Relays \in Seq(ToSet(Relays)) /\ Len(Relays) > 0 /\ IsInjective(Relays)
ASSUME BoundsAssumption == Attempts \in Nat /\ WarmLoad \in BOOLEAN
ASSUME NoneAssumption == None \notin {"complete", "not_required", "partial", "timed_out"}

VARIABLES
    stop,        \* _stop_requested_latched
    signal,      \* the reader has yet to stop the active clients
    warm,        \* warm_load_state
    future,      \* the warm-load future
    latched,     \* relays whose client is latched (stop flags and mutation latch)
    evidence,    \* relays in their client's _api_v1_registered_relays
    succeeded,   \* registration_succeeded_by_relay
    cancelled,   \* poll_cancel_requested_by_relay
    latchOk,     \* poll_cancel_result_by_relay: relays with a true result
    wk,          \* poll workers and heartbeats
    pl,          \* poll loops
    work,        \* relays that sent work, see NextBusy
    rec,         \* recovery: holder of recovery_lock, attempt, relay at hand
    main,        \* main thread and relay at hand
    cu,          \* cleanup threads
    late,        \* the cleanup deadline has passed
    outcome,     \* unregister_outcome of the stopped event, None before
    listed,      \* external: relays that list this node
    excused,     \* history: relays whose client a recovery restarted after a Stop
    lost         \* history: relays that listed the node when the client last lost its evidence

clientVars == <<latched, evidence, listed, excused, lost>>
cancelVars == <<cancelled, latchOk>>
bridgeVars == <<stop, signal, warm, future, succeeded, rec, main, cu, late, outcome, work>>
vars == <<bridgeVars, clientVars, cancelVars, wk, pl>>

R == ToSet(Relays)
mutating == {r \in R : wk[r] \in {"registering", "beating"}}   \* _api_v1_mutation_count > 0
Cleaning == {"latching", "collect", "drain", "stopped"}

NoRecovery == [holder |-> None, attempt |-> 0, at |-> 1]

Init ==
    /\ stop = FALSE /\ signal = FALSE /\ warm = "not_started" /\ future = "none"
    /\ latched = {} /\ evidence = {} /\ listed = {} /\ excused = {} /\ lost = {}
    /\ succeeded = {} /\ cancelled = {} /\ latchOk = {}
    /\ wk = [r \in R |-> "idle"] /\ pl = [r \in R |-> "off"]
    /\ work = {}
    /\ rec = NoRecovery
    /\ main = [pc |-> "gate", at |-> 1]
    /\ cu = [r \in R |-> "off"] /\ late = FALSE /\ outcome = None

MainTo(pc, at) == main' = [pc |-> pc, at |-> at]
PollerTo(r, pc) == pl' = [pl EXCEPT ![r] = pc]
WorkerTo(r, pc) == wk' = [wk EXCEPT ![r] = pc]
CleanupTo(r, pc) == cu' = [cu EXCEPT ![r] = pc]

------------------------------------------------------------------------------
(* The stdin reader. *)

\* A cancel line: the flag, and a snapshot of _active_relay_clients, which run() empties
\* when cleanup starts.
Cancel ==
    /\ ~stop /\ main.pc # "stopped"
    /\ stop' = TRUE
    /\ signal' = (main.pc \notin Cleaning)
    /\ UNCHANGED <<warm, future, succeeded, rec, main, cu, late, outcome, work,
                   clientVars, cancelVars, wk, pl>>

\* _signal_active_relay_clients: stop() of every client; one that raises is logged.
Signal ==
    /\ signal /\ signal' = FALSE
    /\ \E raised \in SUBSET Flaky : latched' = latched \cup (R \ raised)
    /\ UNCHANGED <<stop, warm, future, succeeded, rec, main, cu, late, outcome, work,
                   evidence, listed, excused, lost, cancelVars, wk, pl>>

------------------------------------------------------------------------------
(* Main thread: warm-load gate, watch. *)

\* ensure_runtime_ready starts the daemon future; warm load may be switched off.
StartWarmLoad ==
    /\ main.pc = "gate"
    /\ IF WarmLoad
       THEN MainTo("warming", 1) /\ warm' = "warming" /\ future' = "running" /\ UNCHANGED pl
       ELSE MainTo("watch", 1) /\ pl' = [r \in R |-> "top"] /\ UNCHANGED <<warm, future>>
    /\ UNCHANGED <<stop, signal, succeeded, rec, cu, late, outcome, work,
                   clientVars, cancelVars, wk>>

\* The warm load ends, perhaps long after the gate gave up on it.
WarmLoadEnds ==
    /\ future = "running" /\ future' \in {"ok", "failed"}
    /\ UNCHANGED <<stop, signal, warm, succeeded, rec, main, cu, late, outcome, work,
                   clientVars, cancelVars, wk, pl>>

\* warm_runtime_before_registration: a result is accepted only before the absolute
\* deadline, a failure or the deadline is fatal, a Stop leaves the gate.
GateResult_NoDeadline ==   \* Fault: the deadline opens the gate
    /\ main.pc = "warming"
    /\ \/ future \in {"ok", "running"} /\ warm' = "ready" /\ MainTo("watch", 1)
          /\ pl' = [r \in R |-> "top"]
       \/ warm' = "failed" /\ MainTo("latching", 1) /\ UNCHANGED pl
       \/ stop /\ MainTo("latching", 1) /\ UNCHANGED <<warm, pl>>
    /\ UNCHANGED <<stop, signal, future, succeeded, rec, cu, late, outcome, work,
                   clientVars, cancelVars, wk>>
GateResult ==
    /\ main.pc = "warming"
    /\ \/ future = "ok" /\ warm' = "ready" /\ MainTo("watch", 1)
          /\ pl' = [r \in R |-> "top"]
       \/ warm' = "failed" /\ MainTo("latching", 1) /\ UNCHANGED pl
       \/ stop /\ MainTo("latching", 1) /\ UNCHANGED <<warm, pl>>
    /\ UNCHANGED <<stop, signal, future, succeeded, rec, cu, late, outcome, work,
                   clientVars, cancelVars, wk>>

AllExited == \A r \in R : pl[r] \in {"off", "exited"}

\* The join loop: every poller gone, or a Stop.
Watch ==
    /\ main.pc = "watch"
    /\ AllExited \/ stop
    /\ MainTo("latching", 1)
    /\ UNCHANGED <<stop, signal, warm, future, succeeded, rec, cu, late, outcome, work,
                   clientVars, cancelVars, wk, pl>>

\* request_poll_cancel in two steps: the request is recorded, then the client is latched
\* and the result stored; a latch that raises leaves the client as it is and the result
\* false.  A second caller gets the stored result, false before that.
Latch(r) ==
    \/ latched' = latched \cup {r} /\ latchOk' = latchOk \cup {r}
    \/ r \in Flaky /\ UNCHANGED <<latched, latchOk>>

\* Main walks over the relays; the walk that cleanup repeats finds only stored results.
\* Its two steps are one: nobody uses the result a poller gets in between.
CancelPolls ==
    LET r == Relays[main.at] IN
    /\ main.pc = "latching" /\ main.at <= Len(Relays) /\ MainTo("latching", main.at + 1)
    /\ cancelled' = cancelled \cup {r}
    /\ IF r \in cancelled THEN UNCHANGED <<latched, latchOk>> ELSE Latch(r)
    /\ UNCHANGED <<stop, signal, warm, future, succeeded, rec, cu, late, outcome, work,
                   evidence, listed, excused, lost, wk, pl>>

------------------------------------------------------------------------------
(* Poll workers, poll_api_v1_encrypted_work of the client of one relay, and the poll   *)
(* loops that wait for them in _CancelablePollWorker.call.                             *)

\* Top of the loop, which the cancellable sleep returns to: left on Stop or a failed
\* runtime, held while a recovery runs, else the poll is queued for the worker.
LoopTop(r) ==
    /\ pl[r] = "top"
    /\ \/ (stop \/ warm = "failed") /\ PollerTo(r, "exited") /\ UNCHANGED wk
       \/ ~stop /\ warm \notin {"failed", "recovering"} /\ PollerTo(r, "wait") /\ WorkerTo(r, "queued")
    /\ UNCHANGED <<bridgeVars, clientVars, cancelVars>>

\* The worker's result reaches the loop if it still waits; else it is dropped.
Return(r, result) ==
    /\ WorkerTo(r, "idle")
    /\ IF pl[r] # "wait" THEN UNCHANGED <<pl, succeeded, work>>
       ELSE /\ PollerTo(r, CASE result = "raise" -> "exited" [] result = "work" -> "work"
                              [] OTHER -> "top")
            /\ succeeded' = IF result \in {"empty", "work"} /\ r \in evidence /\ warm # "failed"
                            THEN succeeded \cup {r} ELSE succeeded
            /\ work' = IF result = "work" THEN work \cup {r} ELSE work

\* The worker takes up the poll, perhaps after a Stop: the client's stop flags are read, and
\* again in _api_v1_begin_mutation; fresh evidence skips the registration.
WorkerBegins_Unlatched(r) ==   \* Fault: the client's latch is not looked at
    /\ wk[r] = "queued"
    /\ \/ WorkerTo(r, "registering")
       \/ r \in evidence /\ WorkerTo(r, "polling")
    /\ UNCHANGED <<bridgeVars, clientVars, cancelVars, pl>>
WorkerBegins(r) ==
    /\ wk[r] = "queued"
    /\ \/ r \in latched /\ Return(r, "error")
       \/ r \notin latched /\ WorkerTo(r, "registering") /\ UNCHANGED <<pl, succeeded, work>>
       \/ r \notin latched /\ r \in evidence /\ WorkerTo(r, "polling") /\ UNCHANGED <<pl, succeeded, work>>
    /\ UNCHANGED <<stop, signal, warm, future, rec, main, cu, late, outcome, clientVars, cancelVars>>

\* register_api_v1_compute_node at relay r, by the poll worker or the heartbeat.  A
\* registration that raises may have been booked; dropped: the caller discards what
\* evidence there was.
Booked(r) ==
    /\ evidence' = evidence \cup {r} /\ listed' = listed \cup {r} /\ lost' = lost \ {r}
Raised(r, dropped) ==
    /\ r \in Flaky
    /\ evidence' = IF dropped THEN evidence \ {r} ELSE evidence
    /\ listed' \in {listed, listed \cup {r}}
    /\ lost' = IF r \in listed' \ evidence' THEN lost \cup {r} ELSE lost

\* The worker's registration: refused, booked, or an exception, which costs an unlatched
\* client its evidence.
WorkerRegisters(r) ==
    /\ wk[r] = "registering"
    /\ \/ Return(r, "error") /\ UNCHANGED <<evidence, listed, lost>>
       \/ Return(r, "error") /\ Raised(r, r \notin latched)
       \/ r \in latched /\ Booked(r) /\ Return(r, "error")
       \/ r \notin latched /\ Booked(r) /\ WorkerTo(r, "polling") /\ UNCHANGED <<pl, succeeded, work>>
    /\ UNCHANGED <<stop, signal, warm, future, rec, main, cu, late, outcome, latched, excused,
                   cancelVars>>

\* Bound: each relay sends one request, in configured order.
NextBusy(r) == Cardinality(work) < Len(Relays) /\ r = Relays[Cardinality(work) + 1]

\* The long poll: nothing changes once the client is latched; an exception, or a relay
\* that does not know the node, costs the evidence; any other answer keeps it.
WorkerPolls(r) ==
    /\ wk[r] = "polling"
    /\ \/ r \in latched /\ Return(r, "error") /\ UNCHANGED <<evidence, lost>>
       \/ /\ r \notin latched /\ Return(r, "error")
          /\ r \in listed => r \in Flaky
          /\ evidence' = evidence \ {r} /\ lost' = lost \cup ({r} \cap listed)
       \/ /\ r \notin latched /\ UNCHANGED <<evidence, lost>>
          /\ \/ \E res \in {"error", "raise"} : Return(r, res)
             \/ r \in listed /\ Return(r, "empty")
             \/ r \in listed /\ NextBusy(r) /\ Return(r, "work")
    /\ UNCHANGED <<stop, signal, warm, future, rec, main, cu, late, outcome, latched, listed,
                   excused, cancelVars>>

\* A registration of the heartbeat thread of a request, which a latched client does not
\* begin.  The request ends after it (the join allows a second more than the registration's
\* timeout); between registrations the thread sleeps and ends at once when it is joined.
HeartbeatBegins(r) ==
    /\ pl[r] = "work" /\ wk[r] = "idle" /\ r \in evidence \ latched
    /\ WorkerTo(r, "beating")
    /\ UNCHANGED <<bridgeVars, clientVars, cancelVars, pl>>
HeartbeatEnds(r) ==
    /\ wk[r] = "beating" /\ WorkerTo(r, "idle")
    /\ Booked(r) \/ Raised(r, FALSE)
    /\ UNCHANGED <<bridgeVars, latched, excused, cancelVars, pl>>

\* A Stop noticed while waiting.
GiveUpPoll(r) ==
    /\ pl[r] = "wait" /\ stop
    /\ PollerTo(r, IF r \in cancelled THEN "exited" ELSE "cancel")
    /\ cancelled' = cancelled \cup {r}
    /\ UNCHANGED <<bridgeVars, clientVars, latchOk, wk>>
LatchPoll(r) ==
    /\ pl[r] = "cancel" /\ PollerTo(r, "exited")
    /\ Latch(r)
    /\ UNCHANGED <<bridgeVars, evidence, listed, excused, lost, cancelled, wk>>

\* "work" is a request waiting for inference_lock, under inference, or with its verdict
\* not yet applied.  A request that left the runtime healthy; one after which the runtime
\* recovered by itself, or nobody tried: the shared state is overwritten.
Process(r) ==
    /\ pl[r] = "work" /\ wk[r] = "idle" /\ PollerTo(r, "top")
    /\ UNCHANGED <<bridgeVars, clientVars, cancelVars, wk>>
ApplyVerdict(r) ==
    /\ pl[r] = "work" /\ wk[r] = "idle" /\ PollerTo(r, "top")
    /\ warm' \in {"ready", "failed"}
    /\ UNCHANGED <<stop, signal, future, succeeded, rec, main, cu, late, outcome, work,
                   clientVars, cancelVars, wk>>

------------------------------------------------------------------------------
(* recover_shared_runtime, of a request that left the runtime broken *)

Coordinate(r) ==
    /\ pl[r] = "work" /\ wk[r] = "idle"
    /\ IF rec.holder = None
       THEN /\ rec' = [holder |-> r, attempt |-> 1, at |-> 1]
            /\ warm' = "recovering" /\ PollerTo(r, "unadvertise")
       ELSE UNCHANGED <<rec, warm>> /\ PollerTo(r, "join")
    /\ UNCHANGED <<stop, signal, future, succeeded, main, cu, late, outcome, work,
                   clientVars, cancelVars, wk>>

\* A joiner waits for the coordinator, or for a Stop.
Join(r) ==
    /\ pl[r] = "join" /\ PollerTo(r, "top")
    /\ stop \/ (rec.holder = None)
    /\ UNCHANGED <<bridgeVars, clientVars, cancelVars, wk>>

\* unregister_from_relay once its barrier is passed; without evidence nothing is sent.
\* ok: the relay confirmed, or there was nothing to do; else it may still have obeyed.
Unregister(c, ok) ==
    IF c \notin evidence THEN ok /\ UNCHANGED <<evidence, listed>>
    ELSE \/ ok /\ evidence' = evidence \ {c} /\ listed' = listed \ {c}
         \/ ~ok /\ UNCHANGED evidence /\ listed' \in {listed, listed \ {c}} /\ c \in Flaky

\* best_effort_unadvertise_all_relays: a relay without registration is skipped and its
\* client stays unlatched; otherwise the client is latched first.
UnadvertiseLatch(r) ==
    /\ pl[r] = "unadvertise" /\ rec.at <= Len(Relays)
    /\ LET c == Relays[rec.at] IN
       IF c \in succeeded \cup evidence
       THEN latched' = latched \cup {c} /\ PollerTo(r, "unadvertiseOne") /\ UNCHANGED rec
       ELSE rec' = [rec EXCEPT !.at = @ + 1] /\ UNCHANGED <<latched, pl>>
    /\ UNCHANGED <<stop, signal, warm, future, succeeded, main, cu, late, outcome, work,
                   evidence, listed, excused, lost, cancelVars, wk>>
Unadvertise(r) ==
    /\ pl[r] = "unadvertiseOne" /\ PollerTo(r, "unadvertise")
    /\ rec' = [rec EXCEPT !.at = @ + 1]
    /\ LET c == Relays[rec.at] IN
       \/ c \notin mutating /\ \E ok \in BOOLEAN : Unregister(c, ok)
       \/ c \in mutating /\ UNCHANGED <<evidence, listed>>
    /\ UNCHANGED <<stop, signal, warm, future, succeeded, main, cu, late, outcome, work,
                   latched, excused, lost, cancelVars, wk>>

\* The finally of a recovery: recovery_done is set and the lock released.
Release == rec' = NoRecovery

\* One attempt: cancelled, ready, another one, or exhausted.
Attempt(r) ==
    /\ pl[r] = "unadvertise" /\ rec.at > Len(Relays)
    /\ \/ rec.attempt <= Attempts /\ stop /\ Release /\ PollerTo(r, "top") /\ UNCHANGED warm
       \/ rec.attempt <= Attempts /\ ~stop /\ PollerTo(r, "attempting") /\ UNCHANGED <<rec, warm>>
       \/ rec.attempt > Attempts /\ Release /\ PollerTo(r, "top") /\ warm' = "failed"
    /\ UNCHANGED <<stop, signal, future, succeeded, main, cu, late, outcome, work,
                   clientVars, cancelVars, wk>>
AttemptEnds(r) ==
    /\ pl[r] = "attempting"
    /\ \/ warm' = "ready" /\ rec' = [rec EXCEPT !.at = 1] /\ PollerTo(r, "revive")
       \/ rec' = [rec EXCEPT !.attempt = @ + 1] /\ PollerTo(r, "unadvertise") /\ UNCHANGED warm
    /\ UNCHANGED <<stop, signal, future, succeeded, main, cu, late, outcome, work,
                   clientVars, cancelVars, wk>>

\* start_relay_session of every client: a latched client is unlatched and forgets its
\* registrations, whoever latched it.
Revive(r) ==
    /\ pl[r] = "revive"
    /\ IF rec.at > Len(Relays)
       THEN Release /\ PollerTo(r, "top") /\ UNCHANGED <<latched, evidence, excused, lost>>
       ELSE LET c == Relays[rec.at] IN
            /\ rec' = [rec EXCEPT !.at = @ + 1] /\ UNCHANGED pl
            /\ latched' = latched \ {c}
            /\ evidence' = IF c \in latched THEN evidence \ {c} ELSE evidence
            /\ excused' = IF c \in latched /\ stop THEN excused \cup {c} ELSE excused
            /\ lost' = IF c \in latched \cap listed THEN lost \cup {c} ELSE lost
    /\ UNCHANGED <<stop, signal, warm, future, succeeded, main, cu, late, outcome, work,
                   listed, cancelVars, wk>>

------------------------------------------------------------------------------
(* Cleanup, bounded by one deadline. *)

Required(r) == r \in succeeded \cup evidence   \* _relay_requires_unregister

\* A relay whose latch is not reported ok is not cleaned up; a relay that needs it makes
\* the cleanup a required one, whatever its thread finds later.
StartCleanup ==
    /\ main.pc = "latching" /\ main.at > Len(Relays)
    /\ MainTo("collect", 1)
    /\ cu' = [r \in R |-> IF r \notin latchOk THEN "failed"
                          ELSE IF Required(r) THEN "due" ELSE "begin"]
    /\ UNCHANGED <<stop, signal, warm, future, succeeded, rec, late, outcome, work,
                   clientVars, cancelVars, wk, pl>>

DeadlinePasses ==
    /\ main.pc \in {"collect", "drain"} /\ ~late /\ late' = TRUE
    /\ UNCHANGED <<stop, signal, warm, future, succeeded, rec, main, cu, outcome, work,
                   clientVars, cancelVars, wk, pl>>

\* cleanup_one_relay with unregister_with_shared_deadline: the two barriers (mutations and
\* heartbeat thread), which fail at the deadline or raise, then whether the relay needs it,
\* then the unregister call, which latches the client again.
CleanupRelay(r) ==
    /\ cu[r] \in {"begin", "due"}
    /\ \/ r \in Flaky /\ CleanupTo(r, "failed") /\ UNCHANGED <<latched, evidence, listed>>
       \/ /\ r \in mutating /\ late /\ CleanupTo(r, "failed")
          /\ UNCHANGED <<latched, evidence, listed>>
       \/ /\ r \notin mutating /\ ~Required(r)
          /\ CleanupTo(r, IF cu[r] = "due" THEN "dropped" ELSE "skipped")
          /\ UNCHANGED <<latched, evidence, listed>>
       \/ /\ r \notin mutating /\ Required(r) /\ latched' = latched \cup {r}
          /\ \E ok \in BOOLEAN : Unregister(r, ok) /\ CleanupTo(r, IF ok THEN "done" ELSE "failed")
    /\ UNCHANGED <<stop, signal, warm, future, succeeded, rec, main, late, outcome, work,
                   excused, lost, cancelVars, wk, pl>>

Finished(r) == cu[r] \in {"done", "failed", "dropped", "skipped"}

\* Results are collected until all are in or the deadline passes.
Collect_Patient ==   \* Fault: results are awaited without a deadline
    /\ main.pc = "collect"
    /\ \A r \in R : Finished(r)
    /\ MainTo("drain", 1)
    /\ UNCHANGED <<stop, signal, warm, future, succeeded, rec, cu, late, outcome, work,
                   clientVars, cancelVars, wk, pl>>
Collect ==
    /\ main.pc = "collect"
    /\ late \/ \A r \in R : Finished(r)
    /\ MainTo("drain", IF \A r \in R : Finished(r) THEN 1 ELSE 2)
    /\ UNCHANGED <<stop, signal, warm, future, succeeded, rec, cu, late, outcome, work,
                   clientVars, cancelVars, wk, pl>>

\* The pollers are joined until the deadline, and the stopped event is emitted.  A
\* result that arrives after the collection counts as a failure.
Failures == main.at = 2 \/ (\E r \in R : cu[r] = "failed") \/ ~AllExited
Drain ==
    /\ main.pc = "drain" /\ MainTo("stopped", 1)
    /\ AllExited \/ late
    /\ outcome' = CASE Failures -> IF late THEN "timed_out" ELSE "partial"
                    [] ~Failures /\ \E r \in R : cu[r] \in {"done", "dropped"} -> "complete"
                    [] OTHER -> "not_required"
    /\ UNCHANGED <<stop, signal, warm, future, succeeded, rec, cu, late, work,
                   clientVars, cancelVars, wk, pl>>

Stopped == main.pc = "stopped" /\ UNCHANGED vars

------------------------------------------------------------------------------
MainThread == StartWarmLoad \/ GateResult \/ Watch \/ CancelPolls
              \/ StartCleanup \/ Collect \/ Drain
Worker(r) == WorkerBegins(r) \/ WorkerRegisters(r) \/ WorkerPolls(r)
             \/ HeartbeatBegins(r) \/ HeartbeatEnds(r)
Poller(r) == LoopTop(r) \/ GiveUpPoll(r) \/ LatchPoll(r) \/ Process(r)
             \/ ApplyVerdict(r) \/ Coordinate(r) \/ Join(r)
             \/ UnadvertiseLatch(r) \/ Unadvertise(r) \/ Attempt(r) \/ AttemptEnds(r) \/ Revive(r)
Running == main.pc # "stopped"
Next == \/ Running /\ (Cancel \/ Signal \/ MainThread \/ WarmLoadEnds \/ DeadlinePasses)
        \/ Running /\ \E r \in R : Worker(r) \/ Poller(r) \/ CleanupRelay(r)
        \/ Stopped
Spec == Init /\ [][Next]_vars

\* The main thread runs and time passes.  Nothing else is fair: workers, relays, requests
\* and recoveries may hang.
FairSpec == Spec /\ WF_vars(MainThread \/ DeadlinePasses)

------------------------------------------------------------------------------
\* A node whose runtime never became ready is listed at no relay: neither a warm load
\* that ends after its deadline nor a Stop in the gate opens the way to registration.
NeverListedCold == (WarmLoad /\ listed # {}) => future = "ok"

\* The stopped event is honest as far as the clients know: with outcome "complete" or
\* "not_required" the only relays that list the node are those whose client a recovery
\* restarted after the Stop, and those whose client had discarded its registration
\* evidence on an error (a poll or a registration that raised, a restart after a failed
\* unregister) and not registered since; whatever mutation, heartbeat, poll or recovery
\* was under way when Stop came.
HonestOutcome == outcome \in {"complete", "not_required"} => listed \subseteq excused \cup lost

\* A Stop ends the run within the cleanup budget, also when pollers, workers, relays and
\* the model hang.
StopEndsRun == stop ~> main.pc = "stopped"
=============================================================================
