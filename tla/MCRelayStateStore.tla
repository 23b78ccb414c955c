--------------------------- MODULE MCRelayStateStore ---------------------------
(***************************************************************************)
(* Finite instances of RelayStateStore.  Every bound is small enough to be *)
(* reached: the capacity branches run, leases and deadlines pass, retained *)
(* records are reaped.                                                     *)
(***************************************************************************)
EXTENDS RelayStateStore, TLC

\* Roomy defaults; each instance tightens what it is about.
BaseConfig == [f \in ConfigField |->
    CASE f = "lease_ttl" -> 2
      [] f = "claim_ttl" -> 1
      [] f = "reservation_ttl" -> 1
      [] f = "max_request_ttl" -> 3
      [] f = "response_replay_ttl" -> 1
      [] f = "terminal_retention" -> 2
      [] f = "control_tombstone_ttl" -> 1
      [] f = "node_tombstone_ttl" -> 1
      [] OTHER -> 3]

\* One registered worker after another, requests competing for retained room.
LifecycleConfig == [BaseConfig EXCEPT
    !["max_responses"] = 1,
    !["max_terminal_records_per_client"] = 1,
    !["max_control_tombstones"] = 1]

\* Batches of one, one fence, one transition at a time.
TeardownConfig == [BaseConfig EXCEPT
    !["max_claims_per_node"] = 1,
    !["node_transition_batch_size"] = 1,
    !["max_pending_node_transitions"] = 1,
    !["max_removed_owner_fences"] = 2,
    !["max_node_tombstones"] = 1,
    !["max_terminal_records"] = 1]

\* As above, with room for every record a transition needs.
RoomyTeardownConfig == [BaseConfig EXCEPT !["node_transition_batch_size"] = 1]

\* One cursor for two fingerprints.
SchedulerConfig == [BaseConfig EXCEPT
    !["max_scheduler_fingerprints"] = 1,
    !["max_reservations_per_client"] = 2]

OneModelOneTier == {[models |-> Model, tier |-> 8, max_concurrency |-> 2]}
TwoTiers == {[models |-> Model, tier |-> t, max_concurrency |-> 2] : t \in {8, 64}}
Busy == {[healthy |-> TRUE, draining |-> FALSE, claimed_work |-> 2]}
Draining == {[healthy |-> TRUE, draining |-> TRUE, claimed_work |-> 0]}

Symmetry == Permutations(Cred) \cup Permutations(RequestId)
================================================================================
