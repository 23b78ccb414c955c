-------------------------- MODULE RuntimeReadiness --------------------------
(***************************************************************************)
(* Warming the API v1 runtime before a node polls:                         *)
(* ensure_api_v1_runtime_ready of utils/compute_node_runtime.py with the   *)
(* Qwen 64K profile ladder of utils/llm/model_manager.py.  A profile is a  *)
(* KV precision and a batch class; a construction or a completion smoke    *)
(* test that fails moves to the profile the policy authorises.  The        *)
(* manager's profile cursor and attempt list outlive a readiness call;     *)
(* another thread may cancel the worker under its smoke test.              *)
(*                                                                         *)
(* Failure categories are those the policy tells apart: "memory", "compat" *)
(* (retryable, no memory pressure) and "other".                            *)
(***************************************************************************)
EXTENDS Integers, Sequences, SequencesExt

CONSTANTS MaxCalls, None     \* bound on readiness calls

VARIABLES
    ladder,     \* the profiles the runtime supports, in order
    known,      \* _qwen_64k_runtime_profiles is filled
    cursor,     \* _qwen_64k_selected_profile_index, from 1
    selected,   \* _qwen_64k_selected_profile_id
    attempted,  \* _qwen_64k_profile_attempt_ids
    slot,       \* the constructed runtime: its number and profile, or None
    made,       \* runtimes constructed so far
    rd          \* the readiness call

managerVars == <<known, cursor, selected, attempted, slot, made>>
vars == <<ladder, managerVars, rd>>

Batches == <<"experimental", "balanced", "safe">>
Profile(kv, batch) == [kv |-> kv, batch |-> batch]

\* _build_qwen_64k_runtime_profiles: from the requested batch class down, Q8 and F16,
\* then safe Q4; each quantised precision needs its own KV constant.  A runtime without
\* the constructor arguments gets safe F16 alone, as one without quantised precisions
\* that is asked for the safe class.
BuildProfiles(requested, precisions) ==
    LET batches == SubSeq(Batches, CHOOSE i \in 1 .. 3 : Batches[i] = requested, 3)
        pairs == FlattenSeq([i \in DOMAIN batches |->
                               <<Profile("q8", batches[i]), Profile("f16", batches[i])>>])
    IN  SelectSeq(Append(pairs, Profile("q4", "safe")), LAMBDA p : p.kv \in precisions \cup {"f16"})

\* On a CPU no list is kept and the policy authorises nothing.
CpuLadder == <<Profile("none", "safe")>>
Listed == ladder # CpuLadder

\* _next_qwen_64k_runtime_profile_index: memory pressure lowers the batch class, then
\* goes to Q4; any other failure goes from Q8 to F16; 0 when nothing is authorised.
NextProfile_Back(p, cat) ==   \* Fault: memory pressure at safe F16 returns to Q8
    LET target == CASE cat = "memory" /\ p.batch = "experimental" -> Profile(p.kv, "balanced")
                    [] cat = "memory" /\ p.batch = "balanced" -> Profile(p.kv, "safe")
                    [] cat = "memory" /\ p.batch = "safe" /\ p.kv = "f16" -> Profile("q8", "safe")
                    [] cat # "memory" /\ p.kv = "q8" -> Profile("f16", p.batch)
                    [] OTHER -> Profile("q4", "safe")
    IN  IF target # p /\ target \in ToSet(ladder)
        THEN CHOOSE i \in DOMAIN ladder : ladder[i] = target ELSE 0
NextProfile(p, cat) ==
    LET target == CASE cat = "memory" /\ p.batch = "experimental" -> Profile(p.kv, "balanced")
                    [] cat = "memory" /\ p.batch = "balanced" -> Profile(p.kv, "safe")
                    [] cat = "memory" /\ p.batch = "safe" -> Profile("q4", "safe")
                    [] cat # "memory" /\ p.kv = "q8" -> Profile("f16", p.batch)
                    [] OTHER -> p
    IN  IF target # p /\ target \in ToSet(ladder)
        THEN CHOOSE i \in DOMAIN ladder : ladder[i] = target ELSE 0

Idle == [pc |-> "idle", call |-> 0, budget |-> 0, tries |-> 0, runtime |-> None,
         seen |-> {}, at |-> 0, cat |-> None, back |-> "check", walks |-> 0]

Init ==
    /\ ladder \in {CpuLadder} \cup {BuildProfiles(requested, precisions) :
                       requested \in ToSet(Batches), precisions \in SUBSET {"q8", "q4"}}
    /\ known = FALSE /\ cursor = 1 /\ selected = None /\ attempted = {}
    /\ slot = None /\ made = 0 /\ rd = Idle

Fail == rd' = [rd EXCEPT !.pc = "failed"]

\* A call of get_llm_instance returns nothing: it ends the readiness call, while the
\* smoke test asks again through get_llm_instance_with_recovery.
NoRuntime ==
    IF rd.walks > 0 THEN rd' = [rd EXCEPT !.pc = "get", !.walks = @ - 1] ELSE Fail

\* qwen_64k_readiness_profile_attempt_budget: before the first construction the list
\* is empty and three profiles are assumed.
Budget == LET n == IF known THEN Len(ladder) ELSE 3
              left == IF n - cursor + 1 > 1 THEN n - cursor + 1 ELSE 1
          IN  IF left < 7 THEN left ELSE 7

\* A call: the model file first, then the budget.
Begin ==
    /\ rd.pc \in {"idle", "ready", "failed"} /\ rd.call < MaxCalls
    /\ \E ok \in BOOLEAN :
         rd' = [Idle EXCEPT !.pc = IF ok THEN "get" ELSE "failed", !.call = rd.call + 1,
                            !.budget = Budget]
    /\ UNCHANGED <<ladder, managerVars>>

\* get_llm_instance: the runtime in the slot, or a construction from the cursor on; it
\* may fail before the list is built (no module, no file, the cleanup barrier).
Get ==
    /\ rd.pc = "get"
    /\ \/ /\ slot # None
          /\ rd' = [rd EXCEPT !.pc = "check", !.runtime = slot.id] /\ UNCHANGED known
       \/ /\ slot = None
          /\ rd' = [rd EXCEPT !.pc = "build", !.at = cursor] /\ known' = Listed
       \/ slot = None /\ NoRuntime /\ UNCHANGED known
    /\ UNCHANGED <<ladder, cursor, selected, attempted, slot, made>>

\* One profile of the construction loop; only the first three are remembered as attempted.
Tried == IF Listed /\ rd.at <= 3 THEN attempted \cup {ladder[rd.at]} ELSE attempted
Build ==
    /\ rd.pc = "build"
    /\ attempted' = Tried
    /\ \/ /\ made' = made + 1 /\ slot' = [id |-> made + 1, profile |-> ladder[rd.at]]
          /\ cursor' = rd.at /\ selected' = ladder[rd.at]
          /\ rd' = [rd EXCEPT !.pc = rd.back, !.runtime = IF rd.back = "check" THEN made + 1 ELSE @]
       \/ /\ \E cat \in {"memory", "compat", "other"} :
             LET next == NextProfile(ladder[rd.at], cat) IN
             IF cat = "other" \/ next = 0 \/ ladder[next] \in Tried
             THEN NoRuntime /\ UNCHANGED cursor
             ELSE cursor' = next /\ rd' = [rd EXCEPT !.at = next]
          /\ UNCHANGED <<made, slot, selected>>
    /\ UNCHANGED <<ladder, known>>

\* A runtime or a profile seen before in this call, an exhausted budget, missing YaRN
\* support, a refused admission, or the id() of a collected runtime coming back ends it.
Check ==
    /\ rd.pc = "check"
    /\ \/ Fail
       \/ /\ rd.tries < rd.budget /\ slot.profile \notin rd.seen
          /\ rd' = [rd EXCEPT !.pc = "smoke", !.tries = @ + 1, !.seen = @ \cup {slot.profile}]
    /\ UNCHANGED <<ladder, managerVars>>

\* The completion smoke test asks for the runtime again.  If another thread has cancelled
\* the worker it is built anew from the cursor, up to three times, maybe on another
\* profile; if it is cancelled later, the slot is empty when the test ends.
SmokeRebuilds ==
    /\ rd.pc = "smoke" /\ rd.back = "check"
    /\ slot' = None
    /\ rd' = [rd EXCEPT !.pc = "get", !.back = "smoke", !.walks = 2]
    /\ UNCHANGED <<ladder, known, cursor, selected, attempted, made>>
Smoke ==
    /\ rd.pc = "smoke"
    /\ slot' \in {slot, None}
    /\ \/ rd' = [rd EXCEPT !.pc = "ready"]
       \/ Fail
       \/ \E cat \in {"memory", "compat"} : rd' = [rd EXCEPT !.pc = "recover", !.cat = cat]
    /\ UNCHANGED <<ladder, known, cursor, selected, attempted, made>>

Current == slot # None /\ slot.id = rd.runtime

\* The operator cancelled: the failed worker is closed, the cursor stays.
CancelReadiness ==
    /\ rd.pc = "recover"
    /\ slot' = IF Current THEN None ELSE slot
    /\ Fail
    /\ UNCHANGED <<ladder, known, cursor, selected, attempted, made>>

\* reinitialize_qwen_64k_with_next_profile_after_readiness_failure: refused when the
\* runtime is no longer the one in the slot, or the backend keeps no list; otherwise it
\* ends in get_llm_instance.
Recover ==
    LET next == NextProfile(selected, rd.cat) IN
    /\ rd.pc = "recover"
    /\ \/ /\ ~Current \/ ~Listed
          /\ Fail /\ UNCHANGED <<slot, cursor>>
       \/ /\ Current /\ Listed /\ slot' = None
          /\ IF next = 0 \/ ladder[next] \in attempted
             THEN Fail /\ UNCHANGED cursor
             ELSE cursor' = next /\ rd' = [rd EXCEPT !.pc = "get"]
    /\ UNCHANGED <<ladder, known, selected, attempted, made>>

Rest == rd.pc \in {"ready", "failed"} /\ rd.call = MaxCalls /\ UNCHANGED vars

Step == Get \/ Build \/ Check \/ SmokeRebuilds \/ Smoke \/ CancelReadiness \/ Recover
Next == Begin \/ Step \/ Rest
Spec == Init /\ [][Next]_vars
FairSpec == Spec /\ WF_vars(Step)

------------------------------------------------------------------------------
\* Every readiness call ends: the ladder only descends, although four of the seven
\* profiles are never remembered as attempted, and whatever the smoke test rebuilds.
ReadinessEnds ==
    (rd.pc \in {"get", "build", "check", "smoke", "recover"}) ~> (rd.pc \in {"ready", "failed"})
=============================================================================
