---------------------------- MODULE ModelManager ----------------------------
(***************************************************************************)
(* The llama.cpp worker slot of utils/llm/model_manager.py, shared by the  *)
(* inference threads of a node (create_chat_completion_with_recovery and   *)
(* get_llm_instance_with_recovery), the supervisors that cancel requests   *)
(* (terminate_active_worker_for_cancellation) and the readiness check that *)
(* moves to another Qwen profile.  A step is one section under llm_lock,   *)
(* one unlocked read of self.llm, one RPC or one worker teardown.  Only    *)
(* worker construction holds the lock over more than one step.             *)
(*                                                                         *)
(* The cancel event is rotated exactly when the cancellation epoch grows,  *)
(* so "the observed event is set" and "the epoch moved" are one condition. *)
(* worker_state, restart counters, error codes and timestamps are only     *)
(* reported, nothing branches on them, and are left out.                   *)
(***************************************************************************)
EXTENDS Integers, FiniteSets

CONSTANTS Requests,      \* inference threads, one request each
          Warm,          \* those that only ask for the runtime, with recovery
          Cancellers,    \* supervisor threads, one cancellation each
          Readiness,     \* readiness threads, one profile change each
          MaxWorkers,    \* bound on worker processes ever started
          None

ASSUME MaxWorkersAssumption == MaxWorkers \in Nat \ {0}
ASSUME ThreadsAssumption ==
    /\ IsFiniteSet(Requests) /\ IsFiniteSet(Cancellers) /\ IsFiniteSet(Readiness)
    /\ Warm \subseteq Requests /\ Requests \cap Cancellers = {} /\ Requests \cap Readiness = {}
    /\ Cancellers \cap Readiness = {}
ASSUME NoneAssumption == None \notin Nat /\ None \notin Requests \cup Cancellers \cup Readiness

Threads == Requests \cup Cancellers \cup Readiness
Workers == 1 .. MaxWorkers

VARIABLES
    llm,        \* self.llm: a worker, or None
    generation, \* _llm_generation
    epoch,      \* _llm_cancellation_epoch, and the identity of the cancel event
    barrier,    \* _cleanup_barrier_generation, or None
    lock,       \* the thread that holds llm_lock over a construction, or None
    alive,      \* external: worker processes that run
    usable,     \* workers whose transport is open (is_alive of the proxy)
    started,    \* number of workers ever started
    stray,      \* history: workers left behind by a construction that failed
    th          \* the threads: position, the worker they hold, what they observed

managerVars == <<llm, generation, epoch, barrier>>
workerVars == <<alive, usable, started, stray>>
vars == <<managerVars, lock, workerVars, th>>

Pcs == {"idle", "peek", "locked", "init", "publish", "take", "got", "snapshot", "call", "invalidate",
        "close", "closed", "check", "ensure", "recheck", "call2", "done"}

\* stage: which call of get_llm_instance the thread is in ("first", "warm", "retry",
\* "eager", "profile"); after: where it goes when the teardown it runs is over.
NoThread == [pc |-> "idle", stage |-> "first", got |-> None, gen |-> 0, epoch |-> 0,
             victim |-> None, cleanup |-> None, dead |-> TRUE, after |-> "done"]

Init ==
    /\ llm = None /\ generation = 0 /\ epoch = 0 /\ barrier = None
    /\ lock = None /\ alive = {} /\ usable = {} /\ started = 0 /\ stray = {}
    /\ th = [t \in Threads |-> NoThread]

At(t, pc) == th[t].pc = pc
To(t, pc) == th' = [th EXCEPT ![t].pc = pc]
LockFree == lock = None
Ends(t) ==    \* its locals go; what a failed teardown left behind is remembered
    th' = [th EXCEPT ![t] = [NoThread EXCEPT
                !.pc = "done", !.dead = th[t].dead,
                !.victim = IF th[t].dead THEN None ELSE th[t].victim,
                !.stage = IF th[t].dead THEN "first" ELSE th[t].stage,
                !.cleanup = IF th[t].dead THEN None ELSE th[t].cleanup]]

------------------------------------------------------------------------------
(* get_llm_instance                                                         *)

\* The quick check reads self.llm without the lock; the return statement reads
\* it a second time (Take).
Peek(t) ==
    /\ At(t, "peek")
    /\ To(t, IF llm = None THEN "locked" ELSE "take")
    /\ UNCHANGED <<managerVars, lock, workerVars>>

\* Under the lock: another thread was faster, the barrier is up, the model file
\* is missing, or this thread starts a construction and keeps the lock.
EnterInit_NoBarrier(t) ==   \* Fault: the barrier is not looked at
    /\ At(t, "locked") /\ LockFree
    /\ \/ llm # None /\ To(t, "take") /\ UNCHANGED lock
       \/ llm = None /\ th' = [th EXCEPT ![t].pc = "got", ![t].got = None] /\ UNCHANGED lock
       \/ llm = None /\ lock' = t /\ To(t, "init")
    /\ UNCHANGED <<managerVars, workerVars>>
EnterInit(t) ==
    /\ At(t, "locked") /\ LockFree
    /\ \/ llm # None /\ To(t, "take") /\ UNCHANGED lock
       \/ llm = None /\ th' = [th EXCEPT ![t].pc = "got", ![t].got = None] /\ UNCHANGED lock
       \/ llm = None /\ barrier = None /\ lock' = t /\ To(t, "init")
    /\ UNCHANGED <<managerVars, workerVars>>

\* A construction that got as far as a worker publishes it; the diagnostics are put
\* together after that, still under the lock.
InitPublishes(t) ==
    /\ At(t, "init") /\ lock = t /\ started < MaxWorkers
    /\ started' = started + 1
    /\ alive' = alive \cup {started + 1} /\ usable' = usable \cup {started + 1}
    /\ llm' = started + 1
    /\ To(t, "publish")
    /\ UNCHANGED <<generation, epoch, barrier, lock, stray>>
InitSucceeds(t) ==
    /\ At(t, "publish") /\ lock = t
    /\ lock' = None
    /\ To(t, "take")
    /\ UNCHANGED <<managerVars, workerVars>>

\* Something raises after the publication: the slot is emptied, the worker is not closed,
\* and a thread that read the slot meanwhile has it.
InitDrops(t) ==
    /\ At(t, "publish") /\ lock = t
    /\ llm' = None /\ stray' = stray \cup {llm}
    /\ lock' = None
    /\ th' = [th EXCEPT ![t].pc = "got", ![t].got = None]
    /\ UNCHANGED <<generation, epoch, barrier, alive, usable, started>>

\* The constructor fails and closes its proxy: it signals the process it started, does
\* not wait after the kill and drops the verdict, and no barrier goes up.  The next
\* profile of the ladder is constructed at once, or the call returns nothing.
InitFails(t) ==
    /\ At(t, "init") /\ lock = t
    /\ \E survives, ladder \in BOOLEAN :
        /\ survives => started < MaxWorkers
        /\ IF survives
           THEN /\ started' = started + 1
                /\ alive' = alive \cup {started + 1} /\ stray' = stray \cup {started + 1}
                /\ UNCHANGED usable
           ELSE UNCHANGED workerVars
        /\ lock' = IF ladder THEN t ELSE None
        /\ th' = [th EXCEPT ![t].pc = IF ladder THEN "init" ELSE "got", ![t].got = None]
    /\ UNCHANGED managerVars

Take(t) ==
    /\ At(t, "take")
    /\ th' = [th EXCEPT ![t].pc = "got", ![t].got = llm]
    /\ UNCHANGED <<managerVars, lock, workerVars>>

\* Back in the caller.
Got(t) ==
    LET none == th[t].got = None IN
    /\ At(t, "got")
    /\ \/ th[t].stage = "first" /\ none /\ Ends(t)
       \/ th[t].stage = "first" /\ ~none /\ To(t, "snapshot")
       \/ th[t].stage = "warm" /\ ~none /\ Ends(t)
       \/ th[t].stage = "warm" /\ none /\ LockFree
          /\ th' = [th EXCEPT ![t].pc = "ensure", ![t].gen = generation]
       \/ th[t].stage = "retry" /\ none /\ Ends(t)
       \/ th[t].stage = "retry" /\ ~none /\ To(t, "recheck")
       \/ th[t].stage \in {"eager", "profile"} /\ Ends(t)
    /\ UNCHANGED <<managerVars, lock, workerVars>>

------------------------------------------------------------------------------
(* create_chat_completion_with_recovery                                     *)

BeginRequest(t) ==
    /\ t \in Requests /\ At(t, "idle")
    /\ th' = [th EXCEPT ![t].pc = "peek", ![t].stage = IF t \in Warm THEN "warm" ELSE "first"]
    /\ UNCHANGED <<managerVars, lock, workerVars>>

Snapshot(t) ==
    /\ At(t, "snapshot") /\ LockFree
    /\ th' = [th EXCEPT ![t].pc = "call", ![t].gen = generation, ![t].epoch = epoch]
    /\ UNCHANGED <<managerVars, lock, workerVars>>

\* The RPC on a worker that answers: a result, a request-scoped error, or a
\* timeout (not a restartable error: the slot keeps the busy worker).  A sticky
\* backend failure invalidates the worker before the error goes up.
CallReturns(t) ==
    /\ At(t, "call") /\ th[t].got \in usable
    /\ \/ Ends(t)
       \/ th' = [th EXCEPT ![t].pc = "invalidate", ![t].after = "done"]
    /\ UNCHANGED <<managerVars, lock, workerVars>>

\* The transport is gone: a restartable error.
CallBreaks(t) ==
    /\ At(t, "call") /\ th[t].got \notin usable
    /\ th' = [th EXCEPT ![t].pc = "invalidate", ![t].after = "check"]
    /\ UNCHANGED <<managerVars, lock, workerVars>>

\* The slot is emptied and the barrier raised in one section, so that nobody
\* builds a worker before the old one is known to be dead.
Detach(t, after) ==
    /\ llm' = None /\ barrier' = generation
    /\ th' = [th EXCEPT ![t].pc = "close", ![t].victim = llm, ![t].cleanup = generation,
                        ![t].after = after]

\* _invalidate_llm_if_current
Invalidate(t) ==
    /\ At(t, "invalidate") /\ LockFree
    /\ IF llm = th[t].got
       THEN /\ Detach(t, th[t].after)
            /\ generation' = generation + 1
            /\ UNCHANGED epoch
       ELSE /\ IF th[t].after = "done" THEN Ends(t) ELSE To(t, th[t].after)
            /\ UNCHANGED managerVars
    /\ UNCHANGED <<lock, workerVars>>

\* _close_llm_proxy: terminate, wait, kill, wait.  The pipes are closed, and a call that
\* waits on them is woken, only when the process is seen dead; it may survive.
CloseProxy(t) ==
    /\ At(t, "close")
    /\ \E dead \in {TRUE, th[t].victim \notin alive} :
        /\ alive' = IF dead THEN alive \ {th[t].victim} ELSE alive
        /\ usable' = IF dead THEN usable \ {th[t].victim} ELSE usable
        /\ th' = [th EXCEPT ![t].pc = "closed", ![t].dead = dead]
    /\ UNCHANGED <<managerVars, lock, started, stray>>

\* The barrier of this cleanup is lifted only if the process is dead; it stays,
\* and the slot stays empty for good, otherwise.
CloseDone(t) ==
    LET ok == th[t].dead
        mine == th[t].cleanup # None /\ barrier = th[t].cleanup
        goOn == th[t].after = "check" \/ (th[t].after = "peek" /\ (ok \/ th[t].stage = "profile")) IN
    /\ At(t, "closed") /\ LockFree
    /\ barrier' = IF mine /\ ok THEN None ELSE barrier
    /\ IF goOn
       THEN th' = [th EXCEPT ![t].pc = th[t].after, ![t].got = None,
                             ![t].victim = IF ok THEN None ELSE @,
                             ![t].cleanup = IF ok THEN None ELSE @]
       ELSE Ends(t)
    /\ UNCHANGED <<llm, generation, epoch, lock, workerVars>>

CheckCancelled(t) ==
    /\ At(t, "check") /\ LockFree
    /\ IF epoch # th[t].epoch THEN Ends(t) ELSE To(t, "ensure")
    /\ UNCHANGED <<managerVars, lock, workerVars>>

\* _ensure_replacement_llm
EnsureReplacement(t) ==
    LET stage == IF th[t].stage = "warm" THEN "eager" ELSE "retry"
        bumped == IF generation = th[t].gen THEN generation + 1 ELSE generation IN
    /\ At(t, "ensure") /\ LockFree
    /\ \/ /\ llm # None /\ llm \in usable
          /\ th' = [th EXCEPT ![t].pc = "got", ![t].got = llm, ![t].stage = stage]
          /\ UNCHANGED managerVars
       \/ /\ llm # None /\ llm \notin usable
          /\ llm' = None /\ barrier' = generation
          /\ generation' = bumped
          /\ th' = [th EXCEPT ![t].pc = "close", ![t].victim = llm, ![t].cleanup = generation,
                              ![t].after = "peek", ![t].stage = stage]
          /\ UNCHANGED epoch
       \/ /\ llm = None
          /\ generation' = bumped
          /\ th' = [th EXCEPT ![t].pc = "peek", ![t].stage = stage]
          /\ UNCHANGED <<llm, barrier, epoch>>
    /\ UNCHANGED <<lock, workerVars>>

\* The epoch once more, under the lock, before the one retry.
Recheck(t) ==
    /\ At(t, "recheck") /\ LockFree
    /\ IF epoch # th[t].epoch THEN Ends(t) ELSE To(t, "call2")
    /\ UNCHANGED <<managerVars, lock, workerVars>>

\* The retry: a result or a request error goes up, a second restartable error is
\* terminal.
RetryReturns(t) ==
    /\ At(t, "call2") /\ th[t].got \in usable
    /\ Ends(t)
    /\ UNCHANGED <<managerVars, lock, workerVars>>
RetryBreaks(t) ==
    /\ At(t, "call2") /\ th[t].got \notin usable
    /\ th' = [th EXCEPT ![t].pc = "invalidate", ![t].after = "done"]
    /\ UNCHANGED <<managerVars, lock, workerVars>>

------------------------------------------------------------------------------
(* terminate_active_worker_for_cancellation, and the Qwen profile change.   *)

Cancel_LeavesWorker(t) ==   \* Fault: the slot is emptied, its worker is not closed
    /\ t \in Cancellers /\ At(t, "idle") /\ LockFree
    /\ epoch' = epoch + 1
    /\ generation' = generation + 1
    /\ llm' = None
    /\ \E recreate \in BOOLEAN :
         th' = [th EXCEPT ![t].pc = IF recreate THEN "peek" ELSE "done", ![t].stage = "eager"]
    /\ UNCHANGED <<barrier, lock, workerVars>>
Cancel(t) ==
    /\ t \in Cancellers /\ At(t, "idle") /\ LockFree
    /\ epoch' = epoch + 1
    /\ generation' = generation + 1
    /\ \E recreate \in BOOLEAN :
        IF llm = None
        THEN /\ th' = [th EXCEPT ![t].pc = IF recreate THEN "peek" ELSE "done", ![t].stage = "eager"]
             /\ UNCHANGED <<llm, barrier>>
        ELSE /\ llm' = None /\ barrier' = generation
             /\ th' = [th EXCEPT ![t].pc = "close", ![t].victim = llm, ![t].stage = "eager",
                                 ![t].cleanup = generation,
                                 ![t].after = IF recreate THEN "peek" ELSE "done"]
    /\ UNCHANGED <<lock, workerVars>>

\* reinitialize_qwen_64k_with_next_profile_after_readiness_failure: the failed worker
\* is detached without a barrier, closed, and the outcome of the close is dropped.
ChangeProfile(t) ==
    /\ t \in Readiness /\ At(t, "idle") /\ LockFree /\ llm # None
    /\ llm' = None /\ generation' = generation + 1
    /\ \E exhausted \in BOOLEAN :
         th' = [th EXCEPT ![t].pc = "close", ![t].victim = llm, ![t].stage = "profile",
                          ![t].after = IF exhausted THEN "done" ELSE "peek"]
    /\ UNCHANGED <<epoch, barrier, lock, workerVars>>

\* cancel_qwen_64k_readiness_failed_worker
CancelReadiness(t) ==
    /\ t \in Readiness /\ At(t, "idle") /\ LockFree /\ llm # None
    /\ llm' = None
    /\ th' = [th EXCEPT ![t].pc = "close", ![t].victim = llm, ![t].stage = "profile",
                        ![t].after = "done"]
    /\ UNCHANGED <<generation, epoch, barrier, lock, workerVars>>

------------------------------------------------------------------------------
(* External: worker processes die, transports break, killed processes go.   *)

WorkerDies ==
    /\ \E w \in alive : alive' = alive \ {w} /\ usable' = usable \ {w}
    /\ UNCHANGED <<managerVars, lock, started, stray, th>>
TransportBreaks ==
    /\ \E w \in usable : usable' = usable \ {w}
    /\ UNCHANGED <<managerVars, lock, alive, started, stray, th>>

AllDone == (\A t \in Threads \ Readiness : At(t, "done")) /\ UNCHANGED vars

\* Steps a thread takes without waiting for the model.
ThreadStep(t) ==
    \/ Peek(t) \/ EnterInit(t) \/ InitPublishes(t) \/ InitSucceeds(t) \/ InitDrops(t)
    \/ InitFails(t) \/ Take(t) \/ Got(t)
    \/ Snapshot(t) \/ CallBreaks(t) \/ Invalidate(t) \/ CloseProxy(t) \/ CloseDone(t)
    \/ CheckCancelled(t) \/ EnsureReplacement(t) \/ Recheck(t) \/ RetryBreaks(t)

Next ==
    \/ \E t \in Threads :
        \/ ThreadStep(t)
        \/ BeginRequest(t) \/ CallReturns(t) \/ RetryReturns(t)
        \/ Cancel(t) \/ ChangeProfile(t) \/ CancelReadiness(t)
    \/ WorkerDies \/ TransportBreaks \/ AllDone

Spec == Init /\ [][Next]_vars

\* Threads run and constructions, teardowns and broken calls return (each has a
\* timeout); nothing makes the model answer.
FairSpec == Spec /\ \A t \in Threads : WF_vars(ThreadStep(t))

------------------------------------------------------------------------------
\* The processes of workers the manager has or had in its slot.
Tracked == alive \ stray

\* Two workers of the slot never run at once: a replacement is started only when the old
\* process is known to be dead ("no replacement is initialized while cleanup is pending or
\* failed", model_manager.py:5769).  The code leaves two cases open, and only these: a
\* change of Qwen profile raises no barrier and drops the outcome of its close, and a
\* construction that fails leaves its process, or a published worker, behind (stray).
SingleWorker ==
    Cardinality(Tracked) > 1 =>
        \E t \in Readiness : At(t, "close") \/ (th[t].stage = "profile" /\ ~th[t].dead)

\* A worker nobody will end: it survived its teardown, or was dropped by a construction.
Unkillable(w) == w \in stray \/ \E u \in Threads : th[u].victim = w /\ ~th[u].dead

\* No request stays in a call on a worker that is out of the slot, although nothing makes
\* the model answer: the worker is killed and the call breaks.  A request whose epoch has
\* moved, the cancelled one, then ends and is not retried; one whose worker was cancelled
\* before it noted the epoch is retried.  Only a worker that cannot be killed holds it.
CancelledRequestEnds ==
    \A t \in Requests \ Warm :
        (th[t].pc \in {"call", "call2"} /\ th[t].got # llm)
            ~> \/ At(t, "done")
               \/ th[t].pc \notin {"call", "call2"} /\ th[t].epoch = epoch
               \/ Unkillable(th[t].got)
=============================================================================
