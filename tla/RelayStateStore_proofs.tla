------------------------ MODULE RelayStateStore_proofs ------------------------
(***************************************************************************)
(* Proofs about RelayStateStore, for every set of nodes, clients and       *)
(* requests and every valid configuration.                                 *)
(***************************************************************************)
EXTENDS RelayStateStore, FiniteSetTheorems, TLAPS
--------------------------------------------------------------------------------
(* Python dicts: what Put and Drop do to the domain, the values, the type. *)

\* d[k] = v adds one key and changes no other.
LEMMA PutFacts ==
    ASSUME NEW f, NEW k, NEW v
    PROVE  /\ DOMAIN Put(f, k, v) = DOMAIN f \cup {k}
           /\ Put(f, k, v)[k] = v
           /\ \A x \in DOMAIN f : x # k => Put(f, k, v)[x] = f[x]
  BY DEF Put

\* Deleting keys leaves the other entries alone.
LEMMA DropFacts ==
    ASSUME NEW f, NEW K
    PROVE  /\ DOMAIN Drop(f, K) = DOMAIN f \ K
           /\ \A x \in DOMAIN f \ K : Drop(f, K)[x] = f[x]
  BY DEF Drop

\* A well-typed entry keeps a dict well-typed.
LEMMA PutType ==
    ASSUME NEW f, NEW k, NEW v, NEW D, NEW R,
           IsMap(f, D), Values(f, R), k \in D, v \in R
    PROVE  IsMap(Put(f, k, v), D) /\ Values(Put(f, k, v), R)
  BY DEF IsMap, Values, Put

\* So does deleting entries.
LEMMA DropType ==
    ASSUME NEW f, NEW K, NEW D, NEW R, IsMap(f, D), Values(f, R)
    PROVE  IsMap(Drop(f, K), D) /\ Values(Drop(f, K), R)
  BY DEF IsMap, Values, Drop

\* So does replacing the value of a key, if it is there.
LEMMA UpdateType ==
    ASSUME NEW f, NEW k, NEW v, NEW D, NEW R,
           IsMap(f, D), Values(f, R), k \in DOMAIN f => v \in R
    PROVE  IsMap([f EXCEPT ![k] = v], D) /\ Values([f EXCEPT ![k] = v], R)
  BY DEF IsMap, Values

\* The index of sets: adding to, and removing from, one entry.
LEMMA AddToFacts ==
    ASSUME NEW f, NEW n, NEW e
    PROVE  /\ DOMAIN AddTo(f, n, e) = DOMAIN f \cup {n}
           /\ At(AddTo(f, n, e), n) = At(f, n) \cup {e}
           /\ \A m : m # n => At(AddTo(f, n, e), m) = At(f, m)
  BY DEF AddTo, At, Put

\* Removing from one entry of an index of sets leaves the others alone.
LEMMA RemoveFromFacts ==
    ASSUME NEW f, NEW n, NEW e
    PROVE  /\ DOMAIN RemoveFrom(f, n, e) \subseteq DOMAIN f \cup {n}
           /\ At(RemoveFrom(f, n, e), n) = At(f, n) \ {e}
           /\ \A m : m # n => At(RemoveFrom(f, n, e), m) = At(f, m)
  BY DEF RemoveFrom, At, Put, Drop

\* Adding a well-typed element keeps an index of sets well-typed.
LEMMA AddToType ==
    ASSUME NEW f, NEW n, NEW e, NEW D, NEW E,
           IsMap(f, D), Values(f, SUBSET E), n \in D, e \in E
    PROVE  IsMap(AddTo(f, n, e), D) /\ Values(AddTo(f, n, e), SUBSET E)
  <1>1. At(f, n) \cup {e} \in SUBSET E
    BY DEF At, Values
  <1> QED BY <1>1, PutType DEF AddTo

\* Removing an element keeps an index of sets well-typed.
LEMMA RemoveFromType ==
    ASSUME NEW f, NEW n, NEW e, NEW D, NEW E,
           IsMap(f, D), Values(f, SUBSET E), n \in D
    PROVE  IsMap(RemoveFrom(f, n, e), D) /\ Values(RemoveFrom(f, n, e), SUBSET E)
  <1>1. At(f, n) \ {e} \in SUBSET E
    BY DEF At, Values
  <1> QED BY <1>1, PutType, DropType DEF RemoveFrom
--------------------------------------------------------------------------------
(* The inductive invariant                                                 *)

Consistent == LifecycleExclusive /\ IndexExact /\ PhaseOK /\ LoopsFresh
IInv == TypeOK /\ Consistent

\* The live record of an identity, and its token, are well-typed.
LEMMA WorkType ==
    ASSUME TypeOK, SecretsIndexed, NEW i \in Live
    PROVE  /\ i \in Identity
           /\ Work(i).node \in Node /\ Work(i).deadline \in Nat
           /\ Token(i) \in Nat
  BY DEF TypeOK, LifecycleTypeOK, IsMap, Values, Live, Work, Token, Reservation,
         QueuedRequest, SecretsIndexed, Time

\* Forgetting an identity removes it from every live map and index, and nothing
\* else from any of them.
LEMMA ForgetStep ==
    ASSUME IInv, NEW i \in Live, Forget(i), activity' = activity
    PROVE  /\ LifecycleTypeOK'
           /\ Live' = Live \ {i}
           /\ DOMAIN reservations' \cap DOMAIN queued' = {}
           /\ DOMAIN claims' \subseteq DOMAIN queued'
           /\ IndexExact'
           /\ \A n \in Node : At(node_work', n) = At(node_work, n) \ {i}
  <1> USE DEF IInv, Consistent, IndexExact
  <1>1. Work(i).node \in Node /\ i \in Identity
    BY WorkType
  <1>2. i \in DOMAIN queued => queued[i].node \in Node
    BY DEF TypeOK, LifecycleTypeOK, Values, QueuedRequest
  <1>3. LifecycleTypeOK'
    <2>1. IsMap(node_queues', Node) /\ Values(node_queues', SUBSET Identity)
      BY <1>2, RemoveFromType DEF Forget, TypeOK, LifecycleTypeOK
    <2>2. IsMap(node_work', Node) /\ Values(node_work', SUBSET Identity)
      BY <1>1, RemoveFromType DEF Forget, TypeOK, LifecycleTypeOK
    <2> QED BY <2>1, <2>2, DropType DEF Forget, TypeOK, LifecycleTypeOK
  <1>4. /\ DOMAIN reservations' = DOMAIN reservations \ {i}
        /\ DOMAIN queued' = DOMAIN queued \ {i}
        /\ DOMAIN queued_tokens' = DOMAIN queued_tokens \ {i}
        /\ DOMAIN cancel_tokens' = DOMAIN cancel_tokens \ {i}
        /\ DOMAIN claims' = DOMAIN claims \ {i}
        /\ \A j \in DOMAIN reservations' : reservations'[j] = reservations[j]
        /\ \A j \in DOMAIN queued' : queued'[j] = queued[j]
        /\ \A j \in DOMAIN queued_tokens' : queued_tokens'[j] = queued_tokens[j]
    BY DEF Forget, Drop
  <1>5. Live' = Live \ {i}
    BY <1>4 DEF Live
  <1>6. \A j \in Live' : Work(j)' = Work(j) /\ Token(j)' = Token(j)
    BY <1>4, <1>5 DEF Work, Token, SecretsIndexed, Live
  <1>7. \A n \in Node : At(node_work', n) = At(node_work, n) \ {i}
    <2>1. SUFFICES ASSUME NEW n \in Node, n # Work(i).node
                   PROVE  i \notin At(node_work, n)
      BY RemoveFromFacts DEF Forget
    <2> QED BY <2>1 DEF WorkIndexed
  <1>8. WorkIndexed'
    BY <1>1, <1>5, <1>6, <1>7 DEF WorkIndexed, Forget, RemoveFrom, Put, Drop, At
  <1>9. \A n \in Node : At(node_queues', n) = At(node_queues, n) \ {i}
    <2>1. CASE i \in DOMAIN queued
      BY <2>1, RemoveFromFacts DEF Forget, QueueIndexed, Queue
    <2>2. CASE i \notin DOMAIN queued
      BY <2>2 DEF Forget, QueueIndexed, Queue
    <2> QED BY <2>1, <2>2
  <1>10. QueueIndexed'
    BY <1>4, <1>9, <1>2 DEF QueueIndexed, Queue, Forget, RemoveFrom, Put, Drop, At
  <1>11. SecretsIndexed' /\ TokensUnique'
    BY <1>4, <1>5, <1>6 DEF SecretsIndexed, TokensUnique
  <1> QED BY <1>3, <1>4, <1>5, <1>7, <1>8, <1>10, <1>11 DEF LifecycleExclusive

\* Every bound and every TTL is a natural number.
LEMMA ConfigNat ==
    /\ config["lease_ttl"] \in Nat /\ config["reservation_ttl"] \in Nat
    /\ config["claim_ttl"] \in Nat /\ config["response_replay_ttl"] \in Nat
    /\ config["terminal_retention"] \in Nat /\ config["node_tombstone_ttl"] \in Nat
    /\ config["control_tombstone_ttl"] \in Nat
  BY ConfigAssumption DEF ConfigValid, ConfigField, Positive

\* Terminalizing moves one identity from the live maps to the terminal records.
LEMMA TerminalizeStep ==
    ASSUME IInv, NEW i \in Live, NEW status \in {"cancelled", "expired"},
           NEW reason \in Reason, NEW force,
           Terminalize(i, status, reason, force), activity' = activity
    PROVE  /\ LifecycleTypeOK' /\ RetainedTypeOK'
           /\ LifecycleExclusive' /\ IndexExact'
           /\ Live' = Live \ {i}
           /\ deferred' = deferred \ {i}
           /\ \A n \in Node : At(node_work', n) = At(node_work, n) \ {i}
  <1> USE DEF IInv, Consistent
  <1>1. Forget(i)
    BY DEF Terminalize
  <1>2. i \in Identity /\ Work(i).node \in Node
    BY WorkType DEF IndexExact
  <1>3. i \in DOMAIN claims => claims[i] \in ClaimRecord
    BY DEF TypeOK, LifecycleTypeOK, Values
  <1>4. i \in DOMAIN cancel_tokens => cancel_tokens[i] \in CancelToken
    BY DEF TypeOK, LifecycleTypeOK, Values
  <1>5. now \in Nat
    BY DEF TypeOK, RegistryTypeOK, Time
  <1>6. status \in Outcome
    BY DEF Outcome
  <1>7. IsMap(terminals', Identity) /\ Values(terminals', TerminalRecord)
    <2>1. PICK t \in TerminalRecord : terminals' = Put(terminals, i, t)
      BY <1>2, <1>3, <1>4, <1>5, <1>6, ConfigNat
         DEF Terminalize, TerminalRecord, ClaimRecord, TombstonedClaim,
             RetrievalState, Time
    <2> QED BY <2>1, <1>2, PutType DEF TypeOK, RetainedTypeOK
  <1>8. IsMap(tombstones', Identity) /\ Values(tombstones', ControlTombstone)
    <2>1. CASE ~TombstonedClaim(i, status, force)
      BY <2>1 DEF Terminalize, TypeOK, RetainedTypeOK
    <2>2. CASE TombstonedClaim(i, status, force)
      <3> DEFINE t == [node |-> claims[i].node, owner |-> claims[i].owner,
                       consumer |-> claims[i].consumer,
                       generation |-> claims[i].generation, status |-> status,
                       reason |-> reason, acknowledged |-> FALSE,
                       expires |-> TombstoneExpiry(i)]
      <3>1. tombstones' = Put(tombstones, i, t)
        BY <2>2 DEF Terminalize
      <3>2. TombstoneExpiry(i) \in Nat
        BY <1>5, ConfigNat DEF TombstoneExpiry
      <3>3. t \in ControlTombstone
        BY <2>2, <3>2, <1>3, <1>6
           DEF ControlTombstone, ClaimRecord, TombstonedClaim, Time
      <3> HIDE DEF t
      <3> QED BY <3>1, <3>3, <1>2, PutType DEF TypeOK, RetainedTypeOK
    <2> QED BY <2>1, <2>2
  <1>9. DOMAIN terminals' = DOMAIN terminals \cup {i}
    BY DEF Terminalize, Put
  <1>10. RetainedTypeOK'
    BY <1>7, <1>8 DEF Terminalize, TypeOK, RetainedTypeOK
  <1>11. deferred' = deferred \ {i}
    BY DEF Terminalize
  <1>12. /\ LifecycleTypeOK' /\ IndexExact' /\ Live' = Live \ {i}
         /\ DOMAIN reservations' \cap DOMAIN queued' = {}
         /\ DOMAIN claims' \subseteq DOMAIN queued'
         /\ \A n \in Node : At(node_work', n) = At(node_work, n) \ {i}
    BY <1>1, ForgetStep
  <1>13. LifecycleExclusive'
    BY <1>9, <1>12 DEF LifecycleExclusive
  <1> QED BY <1>10, <1>11, <1>12, <1>13

\* Nothing about live work changes when its maps do not.
LEMMA LifecycleKept ==
    ASSUME UNCHANGED <<reservations, queued, queued_tokens, cancel_tokens,
                       node_queues, claims, node_work, activity>>,
           LifecycleTypeOK, IndexExact
    PROVE  LifecycleTypeOK' /\ IndexExact' /\ Live' = Live
  <1>1. LifecycleTypeOK' /\ Live' = Live
    BY DEF LifecycleTypeOK, Live
  <1>2. WorkIndexed' /\ QueueIndexed' /\ SecretsIndexed' /\ TokensUnique'
    BY <1>1 DEF IndexExact, WorkIndexed, QueueIndexed, SecretsIndexed,
                TokensUnique, Work, Token, Queue, Live
  <1> QED BY <1>1, <1>2 DEF IndexExact

\* Reaping retained records leaves well-typed records of known identities.
LEMMA ReapRetainedStep ==
    ASSUME IInv, ReapRetained
    PROVE  /\ RetainedTypeOK'
           /\ IsMap(node_tombstones', Node) /\ Values(node_tombstones', NodeTombstone)
           /\ IsMap(former', Node \X Cred) /\ Values(former', FormerAuthority)
           /\ DOMAIN terminals' \subseteq DOMAIN terminals
  <1> USE DEF IInv
  <1>1. \A i \in DOMAIN terminals : ReapedTerminal(i) \in TerminalRecord
    BY DEF TypeOK, RetainedTypeOK, Values, ReapedTerminal, TerminalRecord,
           RetrievalState
  <1>2. IsMap(terminals', Identity) /\ Values(terminals', TerminalRecord)
    BY <1>1 DEF TypeOK, RetainedTypeOK, ReapRetained, IsMap, Values
  <1>3. DOMAIN terminals' \subseteq DOMAIN terminals
    BY DEF ReapRetained
  <1> QED BY <1>2, <1>3, DropType
      DEF TypeOK, RetainedTypeOK, RegistryTypeOK, ReapRetained
--------------------------------------------------------------------------------
(* The steps of the reaper                                                 *)

\* Taking the lock and reaping retained records starts the loops on live work.
LEMMA EnterStep ==
    ASSUME IInv, NEW phase \in Phase \ {"free", "ready"}, Enter(phase)
    PROVE  IInv'
  <1> USE DEF IInv, Consistent, Enter
  <1>1. LifecycleTypeOK' /\ IndexExact' /\ Live' = Live
    BY LifecycleKept DEF lifecycle, counters, TypeOK
  <1>2. /\ RetainedTypeOK'
        /\ IsMap(node_tombstones', Node) /\ Values(node_tombstones', NodeTombstone)
        /\ IsMap(former', Node \X Cred) /\ Values(former', FormerAuthority)
        /\ DOMAIN terminals' \subseteq DOMAIN terminals
    BY ReapRetainedStep
  <1>3. RegistryTypeOK'
    BY <1>2 DEF TypeOK, RegistryTypeOK, registry
  <1>4. DueNow \subseteq Live /\ Live \subseteq Identity
    BY DEF DueNow, Live, TypeOK, LifecycleTypeOK, IsMap
  <1>5. LeaseExpired \subseteq DOMAIN records /\ DOMAIN records \subseteq Node
    BY DEF LeaseExpired, TypeOK, RegistryTypeOK, IsMap
  <1>6. LoopTypeOK'
    BY <1>4, <1>5 DEF TypeOK, LoopTypeOK, counters, lifecycle
  <1>7. LifecycleExclusive'
    BY <1>1, <1>2 DEF LifecycleExclusive, lifecycle
  <1>8. PhaseOK' /\ LoopsFresh'
    BY <1>1, <1>4, <1>5 DEF PhaseOK, LoopsFresh, Phase, registry
  <1> QED BY <1>1, <1>2, <1>3, <1>6, <1>7, <1>8 DEF TypeOK

\* One due deadline: terminalized or deferred whole.
LEMMA DueStepStep ==
    ASSUME IInv, NEW i \in Identity, DueStep(i)
    PROVE  IInv'
  <1> USE DEF IInv, Consistent
  <1>1. i \in Live /\ tearing = None
    BY DEF DueStep, LoopsFresh, PhaseOK
  <1>2. /\ LifecycleTypeOK' /\ RetainedTypeOK'
        /\ LifecycleExclusive' /\ IndexExact'
        /\ Live' \in {Live, Live \ {i}}
        /\ deferred' \subseteq Identity
    <2>1. CASE Terminalize(i, "expired", "request_deadline_expired", FALSE)
      BY <2>1, <1>1, TerminalizeStep
         DEF DueStep, counters, Reason, TypeOK, LoopTypeOK
    <2>2. CASE ~Terminalize(i, "expired", "request_deadline_expired", FALSE)
      <3>1. /\ UNCHANGED <<reservations, queued, queued_tokens, cancel_tokens,
                           node_queues, claims, node_work, retained, activity>>
            /\ deferred' = deferred \cup {i}
        BY <2>2 DEF DueStep, counters
      <3>2. LifecycleTypeOK' /\ IndexExact' /\ Live' = Live
        BY <3>1, LifecycleKept DEF TypeOK
      <3> QED BY <3>1, <3>2
          DEF retained, TypeOK, RetainedTypeOK, LoopTypeOK, LifecycleExclusive
    <2> QED BY <2>1, <2>2
  <1>3. RegistryTypeOK' /\ LoopTypeOK'
    BY <1>2 DEF DueStep, TypeOK, RegistryTypeOK, LoopTypeOK, registry, removed,
                counters
  <1>4. PhaseOK' /\ LoopsFresh'
    BY <1>1, <1>2 DEF DueStep, PhaseOK, LoopsFresh, registry
  <1> QED BY <1>2, <1>3, <1>4 DEF TypeOK

\* One identity of a teardown batch: terminalized, or the batch ends early.
LEMMA BatchStepStep ==
    ASSUME IInv, NEW i \in Identity, BatchStep(i)
    PROVE  IInv'
  <1> USE DEF IInv, Consistent
  <1>1. tearing \in Node /\ i \in At(node_work, tearing) /\ due = {}
    BY DEF BatchStep, LoopsFresh, PhaseOK, TypeOK, LoopTypeOK
  <1>2. i \in Live
    BY <1>1 DEF IndexExact, WorkIndexed
  <1>3. /\ LifecycleTypeOK' /\ RetainedTypeOK'
        /\ LifecycleExclusive' /\ IndexExact'
        /\ deferred' \subseteq Identity
        /\ batch' \subseteq batch
        /\ batch' \subseteq At(node_work', tearing)
    <2>1. CASE Terminalize(i, "cancelled", "server_unregistered", TRUE)
      <3>1. CASE batch' = batch \ {i}
        BY <2>1, <3>1, <1>1, <1>2, TerminalizeStep
           DEF BatchStep, counters, Reason, TypeOK, LoopTypeOK, LoopsFresh
      <3>2. CASE batch' = {}
        BY <2>1, <3>2, <1>1, <1>2, TerminalizeStep
           DEF BatchStep, counters, Reason, TypeOK, LoopTypeOK
      <3> QED BY <3>1, <3>2 DEF BatchStep
    <2>2. CASE ~Terminalize(i, "cancelled", "server_unregistered", TRUE)
      <3>1. UNCHANGED <<lifecycle, retained, activity>> /\ batch' = {}
        BY <2>2 DEF BatchStep, counters
      <3>2. LifecycleTypeOK' /\ IndexExact' /\ Live' = Live
        BY <3>1, LifecycleKept DEF TypeOK, lifecycle
      <3> QED BY <3>1, <3>2
          DEF lifecycle, retained, TypeOK, RetainedTypeOK, LoopTypeOK,
              LifecycleExclusive
    <2> QED BY <2>1, <2>2
  <1>4. RegistryTypeOK' /\ LoopTypeOK'
    BY <1>3 DEF BatchStep, TypeOK, RegistryTypeOK, LoopTypeOK, registry, removed,
                counters
  <1>5. PhaseOK' /\ LoopsFresh'
    BY <1>1, <1>3 DEF BatchStep, PhaseOK, LoopsFresh, registry, removed
  <1> QED BY <1>3, <1>4, <1>5 DEF TypeOK

\* Removing a node hands its work over to the teardown.
LEMMA BeginTransitionStep ==
    ASSUME IInv, NEW n \in DOMAIN records, NEW cause \in Cause,
           BeginTransition(n, cause), lock' = lock, lock \notin {"free", "ready"},
           due = {}, expired' \subseteq expired \ {n}
    PROVE  IInv'
  <1> DEFINE k == <<n, records[n].owner>>
             p == [owner |-> records[n].owner, cause |-> cause, epoch |-> now]
             a == [cause |-> cause, epoch |-> now,
                   expires |-> now + config["terminal_retention"]]
             t == [owner |-> records[n].owner, cause |-> cause,
                   completed |-> ~WorkLeft(n),
                   expires |-> now + config["node_tombstone_ttl"]]
  <1>0. TypeOK /\ LifecycleExclusive /\ IndexExact /\ PhaseOK /\ LoopsFresh
    BY DEF IInv, Consistent
  <1>1. n \in Node /\ records[n] \in Registration /\ now \in Nat
    BY <1>0 DEF TypeOK, RegistryTypeOK, IsMap, Values, Time
  <1>2. LifecycleTypeOK' /\ IndexExact' /\ Live' = Live
    BY <1>0, LifecycleKept DEF BeginTransition, lifecycle, counters, TypeOK
  <1>3. /\ k \in Node \X Cred /\ p \in PendingTransition
        /\ a \in FormerAuthority /\ t \in NodeTombstone
    BY <1>1, ConfigNat DEF Registration, PendingTransition, FormerAuthority,
                           NodeTombstone, WorkLeft, Time
  <1>4. /\ pending' = Put(pending, n, p)
        /\ former' = Put(former, k, a)
        /\ node_tombstones' = Put(node_tombstones, n, t)
    BY DEF BeginTransition
  <1> HIDE DEF k, p, a, t
  <1>5. IsMap(pending', Node) /\ Values(pending', PendingTransition)
    BY <1>0, <1>1, <1>3, <1>4, PutType DEF TypeOK, RegistryTypeOK
  <1>6. IsMap(former', Node \X Cred) /\ Values(former', FormerAuthority)
    BY <1>0, <1>3, <1>4, PutType DEF TypeOK, RegistryTypeOK
  <1>7. IsMap(node_tombstones', Node) /\ Values(node_tombstones', NodeTombstone)
    BY <1>0, <1>1, <1>3, <1>4, PutType DEF TypeOK, RegistryTypeOK
  <1>8. RegistryTypeOK'
    BY <1>0, <1>5, <1>6, <1>7, DropType DEF BeginTransition, TypeOK, RegistryTypeOK
  <1>9. RetainedTypeOK' /\ LifecycleExclusive'
    BY <1>0, <1>2 DEF BeginTransition, retained, lifecycle, TypeOK, RetainedTypeOK,
                      LifecycleExclusive
  <1>10. FirstBatch(n) \subseteq At(node_work, n)
    BY DEF FirstBatch
  <1>11. LoopTypeOK'
    BY <1>0, <1>1, <1>10 DEF BeginTransition, TypeOK, LoopTypeOK, LifecycleTypeOK,
                             Values, At, counters, lifecycle
  <1>12. DOMAIN records' = DOMAIN records \ {n} /\ n \in DOMAIN pending'
    BY DEF BeginTransition, Drop, Put
  <1>13. n # None
    BY <1>1, ConstantsAssumption
  <1>14. PhaseOK' /\ LoopsFresh'
    BY <1>0, <1>2, <1>10, <1>12, <1>13
       DEF BeginTransition, PhaseOK, LoopsFresh, lifecycle
  <1> QED BY <1>2, <1>8, <1>9, <1>11, <1>14 DEF IInv, Consistent, TypeOK

\* The sweep begins the teardown of a node whose lease has expired.
LEMMA LeaseStepStep ==
    ASSUME IInv, NEW n \in Node, LeaseStep(n)
    PROVE  IInv'
  <1>1. n \in DOMAIN records /\ due = {} /\ lock \notin {"free", "ready"}
    BY DEF LeaseStep, NextExpired, IInv, Consistent, LoopsFresh
  <1> QED BY <1>1, BeginTransitionStep DEF LeaseStep, Cause

\* A later batch of a teardown starts on work that is still live.
LEMMA ContinueTransitionStep ==
    ASSUME IInv, NEW n \in DOMAIN pending, ContinueTransition(n), lock' = "node",
           due = {}, expired = {}
    PROVE  IInv'
  <1> USE DEF IInv, Consistent, ContinueTransition
  <1>1. n \in Node
    BY DEF TypeOK, RegistryTypeOK, IsMap
  <1>2. LifecycleTypeOK' /\ IndexExact' /\ Live' = Live
    BY LifecycleKept DEF lifecycle, counters, TypeOK
  <1>3. RegistryTypeOK'
    BY DEF TypeOK, RegistryTypeOK, registry, removed, Phase
  <1>4. RetainedTypeOK' /\ LifecycleExclusive'
    BY <1>2 DEF retained, lifecycle, TypeOK, RetainedTypeOK, LifecycleExclusive
  <1>5. FirstBatch(n) \subseteq At(node_work, n)
    BY DEF FirstBatch
  <1>6. LoopTypeOK'
    BY <1>1, <1>5 DEF TypeOK, LoopTypeOK, LifecycleTypeOK, Values, At, counters, lifecycle
  <1>7. PhaseOK' /\ LoopsFresh'
    <2>1. n # None
      BY <1>1, ConstantsAssumption
    <2> QED BY <1>2, <1>5, <2>1 DEF PhaseOK, LoopsFresh, lifecycle, removed
  <1> QED BY <1>2, <1>3, <1>4, <1>6, <1>7 DEF TypeOK

\* expire() continues the first pending transition.
LEMMA SweepContinueStep ==
    ASSUME IInv, NEW n \in Node, SweepContinue(n)
    PROVE  IInv'
  BY ContinueTransitionStep
     DEF SweepContinue, Continuation, IInv, Consistent, PhaseOK

\* The end of a batch, complete or not.
LEMMA EndTransitionStep ==
    ASSUME IInv, EndTransition
    PROVE  IInv'
  <1> DEFINE k == <<tearing, pending[tearing].owner>>
             a == [former[k] EXCEPT !.expires = now + config["terminal_retention"]]
             t == [node_tombstones[tearing] EXCEPT !.completed = TRUE]
  <1>0. TypeOK /\ LifecycleExclusive /\ IndexExact /\ PhaseOK /\ LoopsFresh
    BY DEF IInv, Consistent
  <1>1. LifecycleTypeOK' /\ IndexExact' /\ Live' = Live
    BY <1>0, LifecycleKept DEF EndTransition, lifecycle, counters, TypeOK
  <1>2. /\ k \in DOMAIN former => a \in FormerAuthority
        /\ tearing \in DOMAIN node_tombstones => t \in NodeTombstone
    <2>1. /\ now \in Nat
          /\ k \in DOMAIN former => former[k] \in FormerAuthority
          /\ tearing \in DOMAIN node_tombstones =>
               node_tombstones[tearing] \in NodeTombstone
      BY <1>0 DEF TypeOK, RegistryTypeOK, Values, Time
    <2>2. k \in DOMAIN former => a \in FormerAuthority
      <3> HIDE DEF k
      <3> QED BY <2>1, ConfigNat DEF FormerAuthority, Time
    <2>3. tearing \in DOMAIN node_tombstones => t \in NodeTombstone
      BY <2>1 DEF NodeTombstone
    <2> QED BY <2>2, <2>3
  <1>3. \/ former' = former /\ node_tombstones' = node_tombstones /\ pending' = pending
        \/ /\ former' = [former EXCEPT ![k] = a]
           /\ \/ node_tombstones' = node_tombstones
              \/ node_tombstones' = [node_tombstones EXCEPT ![tearing] = t]
           /\ pending' = Drop(pending, {tearing})
    <2>1. CASE UNCHANGED removed
      BY <2>1 DEF removed
    <2>2. CASE ~WorkLeft(tearing) /\ ~UNCHANGED removed
      <3>1. former' = [former EXCEPT ![k] = a]
        BY <2>2 DEF EndTransition
      <3>2. pending' = Drop(pending, {tearing})
        BY <2>2 DEF EndTransition
      <3>3. \/ node_tombstones' = node_tombstones
            \/ node_tombstones' = [node_tombstones EXCEPT ![tearing] = t]
        BY <2>2 DEF EndTransition
      <3> QED BY <3>1, <3>2, <3>3
    <2> QED BY <2>1, <2>2 DEF EndTransition
  <1> HIDE DEF k, a, t
  <1>4. IsMap(former', Node \X Cred) /\ Values(former', FormerAuthority)
    <2>1. IsMap(former, Node \X Cred) /\ Values(former, FormerAuthority)
      BY <1>0 DEF TypeOK, RegistryTypeOK
    <2>2. former' = former \/ former' = [former EXCEPT ![k] = a]
      BY <1>3
    <2> QED BY <1>2, <2>1, <2>2, UpdateType
  <1>5. IsMap(node_tombstones', Node) /\ Values(node_tombstones', NodeTombstone)
    <2>1. IsMap(node_tombstones, Node) /\ Values(node_tombstones, NodeTombstone)
      BY <1>0 DEF TypeOK, RegistryTypeOK
    <2>2. \/ node_tombstones' = node_tombstones
          \/ node_tombstones' = [node_tombstones EXCEPT ![tearing] = t]
      BY <1>3
    <2> QED BY <1>2, <2>1, <2>2, UpdateType
  <1>6. IsMap(pending', Node) /\ Values(pending', PendingTransition)
    <2>1. IsMap(pending, Node) /\ Values(pending, PendingTransition)
      BY <1>0 DEF TypeOK, RegistryTypeOK
    <2>2. pending' = pending \/ pending' = Drop(pending, {tearing})
      BY <1>3
    <2> QED BY <2>1, <2>2, DropType
  <1>7. RegistryTypeOK'
    BY <1>0, <1>4, <1>5, <1>6 DEF EndTransition, TypeOK, RegistryTypeOK, registry,
                                  Phase
  <1>8. RetainedTypeOK' /\ LifecycleExclusive'
    BY <1>0, <1>1 DEF EndTransition, retained, lifecycle, TypeOK, RetainedTypeOK,
                      LifecycleExclusive
  <1>9. LoopTypeOK'
    BY <1>0 DEF EndTransition, TypeOK, LoopTypeOK, counters, lifecycle
  <1>10. PhaseOK' /\ LoopsFresh'
    BY <1>0, <1>1 DEF EndTransition, PhaseOK, LoopsFresh, registry
  <1> QED BY <1>1, <1>7, <1>8, <1>9, <1>10 DEF IInv, Consistent, TypeOK

\* The exception of a full transition table leaves the store consistent.
LEMMA LeaseStepRaisesStep ==
    ASSUME IInv, NEW n \in Node, LeaseStepRaises(n)
    PROVE  IInv'
  <1> USE DEF IInv, Consistent, LeaseStepRaises
  <1>1. LifecycleTypeOK' /\ IndexExact' /\ Live' = Live
    BY LifecycleKept DEF lifecycle, counters, TypeOK
  <1>2. RegistryTypeOK' /\ RetainedTypeOK' /\ LoopTypeOK' /\ LifecycleExclusive'
    BY <1>1 DEF TypeOK, RegistryTypeOK, RetainedTypeOK, LoopTypeOK, registry,
                removed, retained, counters, lifecycle, LifecycleExclusive, Phase
  <1>3. PhaseOK' /\ LoopsFresh'
    BY <1>1 DEF NextExpired, PhaseOK, LoopsFresh, registry, removed, lifecycle
  <1> QED BY <1>1, <1>2, <1>3 DEF TypeOK
\* Releasing stale reservations takes them out of every index.
LEMMA ReapReservationsStep ==
    ASSUME IInv, ReapReservations
    PROVE  IInv'
  <1> DEFINE stale == {i \in DOMAIN reservations : StaleReservation(i)}
  <1>0. TypeOK /\ LifecycleExclusive /\ IndexExact /\ PhaseOK /\ LoopsFresh
    BY DEF IInv, Consistent
  <1>1. /\ reservations' = Drop(reservations, stale)
        /\ cancel_tokens' = Drop(cancel_tokens, stale)
        /\ node_work' = [n \in {m \in DOMAIN node_work : ~(node_work[m] \subseteq stale)} |->
                           node_work[n] \ stale]
        /\ stale \subseteq DOMAIN reservations
        /\ UNCHANGED <<queued, queued_tokens, node_queues, claims, terminals, activity>>
    BY DEF ReapReservations, counters, retained
  <1> HIDE DEF stale
  <1>2. /\ DOMAIN reservations' = DOMAIN reservations \ stale
        /\ DOMAIN cancel_tokens' = DOMAIN cancel_tokens \ stale
        /\ \A j \in DOMAIN reservations' : reservations'[j] = reservations[j]
        /\ stale \cap DOMAIN queued = {}
    BY <1>0, <1>1 DEF Drop, LifecycleExclusive
  <1>3. Live' = Live \ stale
    BY <1>1, <1>2 DEF Live
  <1>4. \A j \in Live' : Work(j)' = Work(j) /\ Token(j)' = Token(j)
    BY <1>1, <1>2 DEF Work, Token, Live
  <1>5. \A n : At(node_work', n) = At(node_work, n) \ stale
    BY <1>1 DEF At
  <1>6. WorkIndexed'
    <2>1. \A n \in DOMAIN node_work' : node_work'[n] # {}
      BY <1>1
    <2> QED BY <2>1, <1>0, <1>3, <1>4, <1>5 DEF IndexExact, WorkIndexed
  <1>7. QueueIndexed'
    BY <1>0, <1>1 DEF IndexExact, QueueIndexed, Queue
  <1>8. SecretsIndexed' /\ TokensUnique'
    BY <1>0, <1>1, <1>2, <1>3, <1>4 DEF IndexExact, SecretsIndexed, TokensUnique
  <1>9. LifecycleExclusive'
    BY <1>0, <1>1, <1>2, <1>3 DEF LifecycleExclusive
  <1>10. LifecycleTypeOK'
    <2>1. IsMap(node_work', Node) /\ Values(node_work', SUBSET Identity)
      BY <1>0, <1>1 DEF TypeOK, LifecycleTypeOK, IsMap, Values
    <2> QED BY <1>0, <1>1, <2>1, DropType DEF TypeOK, LifecycleTypeOK
  <1>11. RegistryTypeOK' /\ RetainedTypeOK' /\ LoopTypeOK'
    BY <1>0 DEF ReapReservations, TypeOK, RegistryTypeOK, RetainedTypeOK, LoopTypeOK,
                registry, retained, removed, counters, Phase
  <1>12. PhaseOK' /\ LoopsFresh'
    BY <1>0 DEF ReapReservations, PhaseOK, LoopsFresh
  <1> QED BY <1>6, <1>7, <1>8, <1>9, <1>10, <1>11, <1>12
          DEF IInv, Consistent, IndexExact, TypeOK
--------------------------------------------------------------------------------
(* The bodies                                                              *)

\* A body runs with the loops done and gives the lock back.
LEMMA ReapedStep ==
    ASSUME IInv, NEW phase, Reaped(phase)
    PROVE  /\ PhaseOK' /\ LoopsFresh'
           /\ now' \in Time /\ now' = now /\ lock' \in Phase
           /\ due' \subseteq Identity /\ expired' \subseteq Node
           /\ swept' \subseteq Node /\ tearing' \in Node \cup {None}
           /\ batch' \subseteq Identity
  BY DEF IInv, Consistent, TypeOK, RegistryTypeOK, LoopTypeOK, PhaseOK, LoopsFresh,
         Reaped, Phase

\* A body that leaves live work and retained records alone only has to keep the
\* registry well-typed.
LEMMA RegistryBodyStep ==
    ASSUME IInv, NEW phase, Reaped(phase),
           UNCHANGED <<lifecycle, retained, removed, counters, cursors>>,
           next_order' \in Nat,
           IsMap(records', Node), Values(records', Registration),
           IsMap(sched', Node), Values(sched', SchedulerNodeState),
           IsMap(order', Node), Values(order', Nat)
    PROVE  IInv'
  <1>0. TypeOK /\ LifecycleExclusive /\ IndexExact
    BY DEF IInv, Consistent
  <1>1. LifecycleTypeOK' /\ IndexExact' /\ Live' = Live
    BY <1>0, LifecycleKept DEF lifecycle, counters, TypeOK
  <1>2. RetainedTypeOK' /\ LifecycleExclusive'
    BY <1>0, <1>1 DEF retained, lifecycle, TypeOK, RetainedTypeOK, LifecycleExclusive
  <1>3. RegistryTypeOK'
    BY <1>0, ReapedStep DEF TypeOK, RegistryTypeOK, removed
  <1>4. LoopTypeOK'
    BY <1>0, ReapedStep DEF TypeOK, LoopTypeOK, counters, lifecycle
  <1> QED BY <1>1, <1>2, <1>3, <1>4, ReapedStep DEF IInv, Consistent, TypeOK

\* Reads, replays and rejections.
LEMMA ReleaseStep ==
    ASSUME IInv, Release
    PROVE  IInv'
  <1>1. PICK phase : Reaped(phase)
    BY DEF Release
  <1>2. /\ UNCHANGED <<lifecycle, retained, removed, counters, cursors>>
        /\ UNCHANGED <<records, sched, order, next_order>>
    BY DEF Release, registry
  <1> QED BY <1>1, <1>2, RegistryBodyStep DEF IInv, TypeOK, RegistryTypeOK

\* register keeps the invariant.
LEMMA RegisterStep ==
    ASSUME IInv, NEW n \in Node, NEW caps \in Caps, NEW cred \in Cred,
           Register(n, caps, cred)
    PROVE  IInv'
  <1> DEFINE r == [caps |-> caps, owner |-> cred, lease |-> now + config["lease_ttl"]]
             s == [healthy |-> TRUE, draining |-> FALSE, claimed_work |-> 0]
  <1>0. RegistryTypeOK
    BY DEF IInv, TypeOK
  <1>1. r \in Registration /\ s \in SchedulerNodeState
    <2>1. now \in Nat
      BY <1>0 DEF RegistryTypeOK, Time
    <2> QED BY <2>1, ConfigNat DEF Registration, SchedulerNodeState, Time
  <1>2. records' = Put(records, n, r)
    BY DEF Register
  <1>3. \/ /\ sched' = Put(sched, n, s) /\ order' = Put(order, n, next_order)
           /\ next_order' = next_order + 1
        \/ UNCHANGED <<sched, order, next_order>>
    BY DEF Register, RegisterNew, RegisterExisting
  <1> HIDE DEF r, s
  <1>4. IsMap(records', Node) /\ Values(records', Registration)
    BY <1>0, <1>1, <1>2, PutType DEF RegistryTypeOK
  <1>5. IsMap(sched', Node) /\ Values(sched', SchedulerNodeState)
    <2>1. IsMap(sched, Node) /\ Values(sched, SchedulerNodeState)
      BY <1>0 DEF RegistryTypeOK
    <2>2. sched' = sched \/ sched' = Put(sched, n, s)
      BY <1>3
    <2>3. CASE sched' = Put(sched, n, s)
      BY <2>1, <2>3, <1>1, PutType
    <2> QED BY <2>1, <2>2, <2>3
  <1>6. IsMap(order', Node) /\ Values(order', Nat) /\ next_order' \in Nat
    <2>1. IsMap(order, Node) /\ Values(order, Nat) /\ next_order \in Nat
      BY <1>0 DEF RegistryTypeOK
    <2>2. next_order' \in Nat
      BY <2>1, <1>3
    <2> QED BY <2>1, <2>2, <1>3, PutType
  <1>7. Reaped("lease") /\ UNCHANGED <<lifecycle, retained, removed, counters, cursors>>
    BY DEF Register
  <1> QED BY <1>4, <1>5, <1>6, <1>7, RegistryBodyStep

\* renew keeps the invariant.
LEMMA RenewStep ==
    ASSUME IInv, NEW n \in Node, NEW cred \in Cred, NEW caps \in Caps \cup {None},
           Renew(n, cred, caps)
    PROVE  IInv'
  <1>0. RegistryTypeOK
    BY DEF IInv, TypeOK
  <1>1. n \in DOMAIN records /\ records[n] \in Registration
    BY <1>0 DEF Renew, RegistryTypeOK, Values
  <1>2. RenewedCaps(n, caps) \in Caps
    BY <1>1 DEF RenewedCaps, Registration
  <1> DEFINE r == [caps |-> RenewedCaps(n, caps), owner |-> cred,
                   lease |-> now + config["lease_ttl"]]
  <1>3. r \in Registration
    <2>1. now \in Nat
      BY <1>0 DEF RegistryTypeOK, Time
    <2> QED BY <2>1, <1>2, ConfigNat DEF Registration, Time
  <1>4. records' = [records EXCEPT ![n] = r]
    BY <1>1 DEF Renew
  <1> HIDE DEF r
  <1>5. IsMap(records', Node) /\ Values(records', Registration)
    BY <1>0, <1>3, <1>4, UpdateType DEF RegistryTypeOK
  <1>6. /\ Reaped("lease") /\ UNCHANGED <<sched, order, next_order>>
        /\ UNCHANGED <<lifecycle, retained, removed, counters, cursors>>
    BY DEF Renew
  <1> QED BY <1>0, <1>5, <1>6, RegistryBodyStep DEF RegistryTypeOK

\* set_scheduler_state keeps the invariant.
LEMMA SetSchedulerStateStep ==
    ASSUME IInv, NEW n \in Node, NEW cred \in Cred, NEW state \in SchedulerState,
           SetSchedulerState(n, cred, state)
    PROVE  IInv'
  <1>0. RegistryTypeOK
    BY DEF IInv, TypeOK
  <1>1. state \in SchedulerNodeState
    BY ConstantsAssumption DEF SchedulerNodeState
  <1>2. IsMap(sched', Node) /\ Values(sched', SchedulerNodeState)
    BY <1>0, <1>1, UpdateType DEF SetSchedulerState, RegistryTypeOK
  <1>3. /\ Reaped("lease") /\ UNCHANGED <<records, order, next_order>>
        /\ UNCHANGED <<lifecycle, retained, removed, counters, cursors>>
    BY DEF SetSchedulerState
  <1> QED BY <1>0, <1>2, <1>3, RegistryBodyStep DEF RegistryTypeOK

\* unregister_node_and_transition_work keeps the invariant.
LEMMA UnregisterStep ==
    ASSUME IInv, NEW n \in Node, NEW cred \in Cred, NEW cause \in Cause,
           UnregisterBegin(n, cred, cause) \/ UnregisterContinue(n, cred, cause)
    PROVE  IInv'
  <1>1. PhaseOK
    BY DEF IInv, Consistent
  <1>2. CASE UnregisterBegin(n, cred, cause)
    <2>1. /\ n \in DOMAIN records /\ lock = "node" /\ due = {} /\ expired = {}
          /\ lock' = lock /\ expired' = expired /\ BeginTransition(n, cause)
      BY <1>1, <1>2 DEF UnregisterBegin, PhaseOK
    <2> QED BY <2>1, BeginTransitionStep
  <1>3. CASE UnregisterContinue(n, cred, cause)
    <2>1. /\ n \in DOMAIN pending /\ lock' = "node" /\ due = {} /\ expired = {}
          /\ ContinueTransition(n)
      BY <1>1, <1>3 DEF UnregisterContinue, PhaseOK
    <2> QED BY <2>1, ContinueTransitionStep
  <1> QED BY <1>2, <1>3
\* select_and_reserve indexes the new reservation under a fresh token.
LEMMA SelectAndReserveStep ==
    ASSUME IInv, NEW i \in Identity, NEW fp \in Fingerprint, NEW deadline \in Deadline,
           NEW ct \in CancelToken \cup {None}, NEW n \in Node, NEW gone,
           SelectAndReserve(i, fp, deadline, ct, n, gone)
    PROVE  IInv'
  <1> DEFINE r == [fp |-> fp, node |-> n, deadline |-> deadline,
                   expires |-> Min2(now + config["reservation_ttl"], deadline),
                   token |-> activity']
  <1>0. TypeOK /\ LifecycleExclusive /\ IndexExact
    BY DEF IInv, Consistent
  <1>1. /\ reservations' = Put(reservations, i, r)
        /\ node_work' = AddTo(node_work, n, i)
        /\ cancel_tokens' = IF ct = None THEN cancel_tokens ELSE Put(cancel_tokens, i, ct)
        /\ cursors' = Put(Drop(cursors, gone), fp, <<n, activity'>>)
        /\ activity' = activity + 1
        /\ i \notin Live /\ i \notin DOMAIN terminals
        /\ UNCHANGED <<queued, queued_tokens, node_queues, claims, deferred,
                       responses, terminals, tombstones, generation, sequence>>
        /\ UNCHANGED <<records, sched, order, next_order, node_tombstones,
                       pending, former>>
        /\ Reaped("ready")
    BY DEF SelectAndReserve, registry, retained, removed
  <1>2. activity \in Nat /\ now \in Nat /\ deadline \in Nat
    BY <1>0, ConstantsAssumption DEF TypeOK, LoopTypeOK, RegistryTypeOK, Time
  <1>3. r \in Reservation
    <2>1. Min2(now + config["reservation_ttl"], deadline) \in Nat
      BY <1>2, ConfigNat DEF Min2
    <2> QED BY <1>1, <1>2, <2>1 DEF Reservation, Time
  <1>4. r.node = n /\ r.token = activity + 1
    BY <1>1
  <1> HIDE DEF r
  <1>5. /\ DOMAIN reservations' = DOMAIN reservations \cup {i}
        /\ reservations'[i] = r
        /\ \A j \in DOMAIN reservations : j # i => reservations'[j] = reservations[j]
        /\ i \notin DOMAIN reservations /\ i \notin DOMAIN queued
    BY <1>1 DEF Put, Live
  <1>6. Live' = Live \cup {i}
    BY <1>1, <1>5 DEF Live
  <1>7. /\ Work(i)' = r /\ Token(i)' = activity + 1
        /\ \A j \in Live : Work(j)' = Work(j) /\ Token(j)' = Token(j)
    BY <1>1, <1>4, <1>5 DEF Work, Token, Live
  <1>8. LifecycleTypeOK'
    <2>1. IsMap(reservations', Identity) /\ Values(reservations', Reservation)
      BY <1>0, <1>1, <1>3, PutType DEF TypeOK, LifecycleTypeOK
    <2>2. IsMap(node_work', Node) /\ Values(node_work', SUBSET Identity)
      BY <1>0, <1>1, AddToType DEF TypeOK, LifecycleTypeOK
    <2>3. IsMap(cancel_tokens', Identity) /\ Values(cancel_tokens', CancelToken)
      <3>1. IsMap(cancel_tokens, Identity) /\ Values(cancel_tokens, CancelToken)
        BY <1>0 DEF TypeOK, LifecycleTypeOK
      <3>2. CASE ct = None
        BY <1>1, <3>1, <3>2
      <3>3. CASE ct # None
        BY <1>1, <3>1, <3>3, PutType
      <3> QED BY <3>2, <3>3
    <2> QED BY <1>0, <1>1, <2>1, <2>2, <2>3 DEF TypeOK, LifecycleTypeOK
  <1>9. RegistryTypeOK'
    <2>1. IsMap(Drop(cursors, gone), Fingerprint) /\ Values(Drop(cursors, gone), Node \X Nat)
      BY <1>0, DropType DEF TypeOK, RegistryTypeOK
    <2>2. <<n, activity'>> \in Node \X Nat
      BY <1>1, <1>2
    <2>3. IsMap(cursors', Fingerprint) /\ Values(cursors', Node \X Nat)
      BY <1>1, <2>1, <2>2, PutType
    <2> QED BY <1>0, <1>1, <2>3, ReapedStep DEF TypeOK, RegistryTypeOK
  <1>10. RetainedTypeOK' /\ LoopTypeOK'
    BY <1>0, <1>1, ReapedStep DEF TypeOK, RetainedTypeOK, LoopTypeOK
  <1>11. LifecycleExclusive'
    BY <1>0, <1>1, <1>5, <1>6 DEF LifecycleExclusive
  <1>12. WorkIndexed'
    <2>1. \A m \in Node : At(node_work', m) = {j \in Live' : Work(j)'.node = m}
      <3>1. \A m \in Node : At(node_work', m) = IF m = n THEN At(node_work, n) \cup {i}
                                      ELSE At(node_work, m)
        BY <1>1 DEF AddTo, At, Put
      <3>2. \A m \in Node : At(node_work, m) = {j \in Live : Work(j).node = m}
        BY <1>0 DEF IndexExact, WorkIndexed
      <3> QED BY <1>1, <1>4, <1>6, <1>7, <3>1, <3>2
    <2>2. \A m \in DOMAIN node_work' : node_work'[m] # {}
      BY <1>0, <1>1 DEF IndexExact, WorkIndexed, AddTo, Put, At
    <2> QED BY <2>1, <2>2 DEF WorkIndexed
  <1>13. QueueIndexed'
    BY <1>0, <1>1 DEF IndexExact, QueueIndexed, Queue
  <1>14. SecretsIndexed'
    <2>1. DOMAIN cancel_tokens' \in {DOMAIN cancel_tokens, DOMAIN cancel_tokens \cup {i}}
      BY <1>1 DEF Put
    <2> QED BY <1>0, <1>1, <1>6, <2>1 DEF IndexExact, SecretsIndexed
  <1>15. TokensUnique'
    <2>1. \A j \in Live : Token(j) \in Nat /\ Token(j) <= activity
      BY <1>0, WorkType DEF IndexExact, TokensUnique
    <2> QED BY <1>0, <1>1, <1>2, <1>6, <1>7, <2>1 DEF IndexExact, TokensUnique
  <1> QED BY <1>1, <1>8, <1>9, <1>10, <1>11, <1>12, <1>13, <1>14, <1>15, ReapedStep
          DEF IInv, Consistent, IndexExact, TypeOK

\* enqueue_encrypted_request turns a reservation into queued work in one piece.
LEMMA EnqueueStep ==
    ASSUME IInv, NEW i \in Identity, NEW fp \in Fingerprint, NEW deadline \in Deadline,
           NEW token \in Nat, NEW n \in Node, NEW ct \in CancelToken,
           EnqueueEncryptedRequest(i, fp, deadline, token, n, ct)
    PROVE  IInv'
  <1> DEFINE q == [fp |-> fp, node |-> n, deadline |-> deadline, sequence |-> sequence']
  <1>0. TypeOK /\ LifecycleExclusive /\ IndexExact
    BY DEF IInv, Consistent
  <1>1. /\ queued' = Put(queued, i, q)
        /\ queued_tokens' = Put(queued_tokens, i, token)
        /\ cancel_tokens' = Put(cancel_tokens, i, ct)
        /\ node_queues' = AddTo(node_queues, n, i)
        /\ reservations' = Drop(reservations, {i})
        /\ sequence' = sequence + 1
        /\ i \in DOMAIN reservations
        /\ reservations[i].node = n /\ reservations[i].token = token
        /\ UNCHANGED <<claims, node_work, deferred, responses, terminals, tombstones,
                       generation, activity, cursors>>
        /\ UNCHANGED <<records, sched, order, next_order, node_tombstones,
                       pending, former>>
        /\ Reaped("ready")
    BY DEF EnqueueEncryptedRequest, registry, retained, removed
  <1>2. q \in QueuedRequest /\ sequence' \in Nat
    <2>1. sequence \in Nat /\ deadline \in Nat
      BY <1>0, ConstantsAssumption DEF TypeOK, LoopTypeOK
    <2> QED BY <1>1, <2>1 DEF QueuedRequest, Time
  <1>3. q.node = n
    OBVIOUS
  <1> HIDE DEF q
  <1>4. /\ DOMAIN reservations' = DOMAIN reservations \ {i}
        /\ DOMAIN queued' = DOMAIN queued \cup {i}
        /\ DOMAIN queued_tokens' = DOMAIN queued_tokens \cup {i}
        /\ DOMAIN cancel_tokens' = DOMAIN cancel_tokens \cup {i}
        /\ i \notin DOMAIN queued
        /\ queued'[i] = q /\ queued_tokens'[i] = token
        /\ \A j \in DOMAIN reservations : j # i => reservations'[j] = reservations[j]
        /\ \A j \in DOMAIN queued : queued'[j] = queued[j]
        /\ \A j \in DOMAIN queued_tokens : j # i => queued_tokens'[j] = queued_tokens[j]
    BY <1>0, <1>1 DEF Put, Drop, LifecycleExclusive
  <1>5. Live' = Live /\ i \in Live
    BY <1>1, <1>4 DEF Live
  <1>6. /\ Work(i)'.node = Work(i).node /\ Token(i)' = Token(i)
        /\ \A j \in Live : j # i => Work(j)' = Work(j) /\ Token(j)' = Token(j)
    BY <1>0, <1>1, <1>3, <1>4 DEF Work, Token, Live, IndexExact, SecretsIndexed
  <1>7. LifecycleTypeOK'
    <2>1. IsMap(queued', Identity) /\ Values(queued', QueuedRequest)
      BY <1>0, <1>1, <1>2, PutType DEF TypeOK, LifecycleTypeOK
    <2>2. IsMap(queued_tokens', Identity) /\ Values(queued_tokens', Nat)
      BY <1>0, <1>1, PutType DEF TypeOK, LifecycleTypeOK
    <2>3. IsMap(cancel_tokens', Identity) /\ Values(cancel_tokens', CancelToken)
      BY <1>0, <1>1, PutType DEF TypeOK, LifecycleTypeOK
    <2>4. IsMap(node_queues', Node) /\ Values(node_queues', SUBSET Identity)
      BY <1>0, <1>1, AddToType DEF TypeOK, LifecycleTypeOK
    <2>5. IsMap(reservations', Identity) /\ Values(reservations', Reservation)
      BY <1>0, <1>1, DropType DEF TypeOK, LifecycleTypeOK
    <2> QED BY <1>0, <1>1, <2>1, <2>2, <2>3, <2>4, <2>5 DEF TypeOK, LifecycleTypeOK
  <1>8. RegistryTypeOK' /\ RetainedTypeOK' /\ LoopTypeOK'
    BY <1>0, <1>1, <1>2, ReapedStep
       DEF TypeOK, RegistryTypeOK, RetainedTypeOK, LoopTypeOK
  <1>9. LifecycleExclusive'
    BY <1>0, <1>1, <1>4, <1>5 DEF LifecycleExclusive
  <1>10. WorkIndexed'
    BY <1>0, <1>1, <1>5, <1>6 DEF IndexExact, WorkIndexed
  <1>11. QueueIndexed'
    <2>1. \A m \in Node : At(node_queues', m) = {j \in DOMAIN queued' : queued'[j].node = m}
      <3>1. \A m \in Node : At(node_queues', m) = IF m = n THEN At(node_queues, n) \cup {i}
                                        ELSE At(node_queues, m)
        BY <1>1 DEF AddTo, At, Put
      <3>2. \A m \in Node : At(node_queues, m) = {j \in DOMAIN queued : queued[j].node = m}
        BY <1>0 DEF IndexExact, QueueIndexed, Queue
      <3> QED BY <1>3, <1>4, <3>1, <3>2
    <2>2. \A m \in DOMAIN node_queues' : node_queues'[m] # {}
      BY <1>0, <1>1 DEF IndexExact, QueueIndexed, AddTo, Put, At
    <2> QED BY <2>1, <2>2 DEF QueueIndexed, Queue
  <1>12. SecretsIndexed'
    BY <1>0, <1>4, <1>5 DEF IndexExact, SecretsIndexed
  <1>13. TokensUnique'
    BY <1>0, <1>1, <1>5, <1>6 DEF IndexExact, TokensUnique
  <1> QED BY <1>1, <1>7, <1>8, <1>9, <1>10, <1>11, <1>12, <1>13, ReapedStep
          DEF IInv, Consistent, IndexExact, TypeOK

\* A body that only changes the claims of queued work.
LEMMA ClaimBodyStep ==
    ASSUME IInv, Reaped("ready"),
           UNCHANGED <<registry, reservations, queued, queued_tokens, cancel_tokens,
                       node_queues, node_work, deferred, retained, removed,
                       activity, sequence, cursors>>,
           generation' \in Nat,
           IsMap(claims', Identity), Values(claims', ClaimRecord),
           DOMAIN claims' \subseteq DOMAIN queued
    PROVE  IInv'
  <1>0. TypeOK /\ LifecycleExclusive /\ IndexExact
    BY DEF IInv, Consistent
  <1>1. LifecycleTypeOK' /\ Live' = Live
    BY <1>0 DEF TypeOK, LifecycleTypeOK, Live
  <1>2. IndexExact'
    BY <1>0, <1>1 DEF IndexExact, WorkIndexed, QueueIndexed, SecretsIndexed,
                      TokensUnique, Work, Token, Queue
  <1>3. RegistryTypeOK' /\ RetainedTypeOK' /\ LoopTypeOK'
    BY <1>0, ReapedStep DEF TypeOK, RegistryTypeOK, RetainedTypeOK, LoopTypeOK,
                            registry, retained, removed
  <1>4. LifecycleExclusive'
    BY <1>0, <1>1 DEF LifecycleExclusive, retained
  <1> QED BY <1>1, <1>2, <1>3, <1>4, ReapedStep DEF IInv, Consistent, TypeOK

\* claim_queued_request claims queued work only.
LEMMA ClaimStep ==
    ASSUME IInv, NEW n \in Node, NEW cred \in Cred, NEW consumer \in Consumer,
           NEW i \in Identity, ClaimQueuedRequest(n, cred, consumer, i)
    PROVE  IInv'
  <1> DEFINE c == [consumer |-> consumer, node |-> n, owner |-> records[n].owner,
                   deadline |-> queued[i].deadline, generation |-> generation',
                   lease |-> Min2(now + config["claim_ttl"], queued[i].deadline)]
  <1>0. TypeOK /\ LifecycleExclusive /\ IndexExact
    BY DEF IInv, Consistent
  <1>1. i \in DOMAIN queued
    BY <1>0 DEF ClaimQueuedRequest, IndexExact, QueueIndexed
  <1>2. /\ queued[i].deadline \in Nat /\ now \in Nat /\ generation \in Nat
        /\ records[n].owner \in Cred
    <2>1. queued[i] \in QueuedRequest
      BY <1>0, <1>1 DEF TypeOK, LifecycleTypeOK, Values
    <2> QED BY <1>0, <2>1 DEF ClaimQueuedRequest, TypeOK, LoopTypeOK, RegistryTypeOK,
                              QueuedRequest, Time
  <1>3. generation' = generation + 1 /\ claims' = Put(claims, i, c)
    BY DEF ClaimQueuedRequest
  <1>4. c \in ClaimRecord
    <2>1. Min2(now + config["claim_ttl"], queued[i].deadline) \in Nat
      BY <1>2, ConfigNat DEF Min2
    <2> QED BY <1>2, <1>3, <2>1 DEF ClaimRecord, Time
  <1> HIDE DEF c
  <1>5. IsMap(claims', Identity) /\ Values(claims', ClaimRecord)
    BY <1>0, <1>3, <1>4, PutType DEF TypeOK, LifecycleTypeOK
  <1>6. DOMAIN claims' \subseteq DOMAIN queued
    BY <1>0, <1>1, <1>3 DEF Put, LifecycleExclusive
  <1>7. /\ Reaped("ready")
        /\ UNCHANGED <<registry, reservations, queued, queued_tokens, cancel_tokens,
                       node_queues, node_work, deferred, retained, removed,
                       activity, sequence, cursors>>
    BY DEF ClaimQueuedRequest
  <1> QED BY <1>2, <1>3, <1>5, <1>6, <1>7, ClaimBodyStep
\* renew_claim_or_read_control without a stop instruction.
LEMMA RenewClaimStep ==
    ASSUME IInv, NEW n \in Node, NEW cred \in Cred, NEW consumer \in Consumer,
           NEW i \in Identity, NEW gen, RenewClaim(n, cred, consumer, i, gen)
    PROVE  IInv'
  <1> DEFINE l == Min2(now + config["claim_ttl"], claims[i].deadline)
             c == [claims[i] EXCEPT !.lease = l]
  <1>0. TypeOK /\ LifecycleExclusive
    BY DEF IInv, Consistent
  <1>1. i \in DOMAIN claims /\ claims[i] \in ClaimRecord /\ now \in Nat /\ generation \in Nat
    BY <1>0 DEF RenewClaim, HoldsClaim, TypeOK, LifecycleTypeOK, RegistryTypeOK,
                LoopTypeOK, Values, Time
  <1>2. l \in Nat
    BY <1>1, ConfigNat DEF Min2, ClaimRecord, Time
  <1>3. claims' = [claims EXCEPT ![i] = c]
    BY DEF RenewClaim
  <1> HIDE DEF l
  <1>4. c \in ClaimRecord
    BY <1>1, <1>2 DEF ClaimRecord, Time
  <1> HIDE DEF c
  <1>5. IsMap(claims', Identity) /\ Values(claims', ClaimRecord)
    BY <1>0, <1>3, <1>4, UpdateType DEF TypeOK, LifecycleTypeOK
  <1>6. DOMAIN claims' \subseteq DOMAIN queued
    BY <1>0, <1>3 DEF LifecycleExclusive
  <1>7. /\ Reaped("ready") /\ generation' = generation
        /\ UNCHANGED <<registry, reservations, queued, queued_tokens, cancel_tokens,
                       node_queues, node_work, deferred, retained, removed,
                       activity, sequence, cursors>>
    BY DEF RenewClaim, counters
  <1> QED BY <1>1, <1>5, <1>6, <1>7, ClaimBodyStep

\* A body that only changes retained records, of identities that had them.
LEMMA RetainedBodyStep ==
    ASSUME IInv, Reaped("ready"),
           UNCHANGED <<registry, lifecycle, removed, counters, cursors>>,
           RetainedTypeOK', DOMAIN terminals' \subseteq DOMAIN terminals
    PROVE  IInv'
  <1>0. TypeOK /\ LifecycleExclusive /\ IndexExact
    BY DEF IInv, Consistent
  <1>1. LifecycleTypeOK' /\ IndexExact' /\ Live' = Live
    BY <1>0, LifecycleKept DEF lifecycle, counters, TypeOK
  <1>2. RegistryTypeOK' /\ LoopTypeOK'
    BY <1>0, ReapedStep DEF TypeOK, RegistryTypeOK, LoopTypeOK, registry, removed,
                            counters, lifecycle
  <1>3. LifecycleExclusive'
    BY <1>0, <1>1 DEF LifecycleExclusive, lifecycle
  <1> QED BY <1>1, <1>2, <1>3, ReapedStep DEF IInv, Consistent, TypeOK

\* renew_claim_or_read_control with a stop instruction.
LEMMA AcknowledgeControlStep ==
    ASSUME IInv, NEW n \in Node, NEW cred \in Cred, NEW consumer \in Consumer,
           NEW i \in Identity, NEW gen, AcknowledgeControl(n, cred, consumer, i, gen)
    PROVE  IInv'
  <1> DEFINE t == [tombstones[i] EXCEPT !.acknowledged = TRUE]
  <1>0. RetainedTypeOK
    BY DEF IInv, TypeOK
  <1>1. i \in DOMAIN tombstones /\ tombstones[i] \in ControlTombstone
    BY <1>0 DEF AcknowledgeControl, RetainedTypeOK, Values
  <1>2. t \in ControlTombstone
    BY <1>1 DEF ControlTombstone
  <1>3. tombstones' = [tombstones EXCEPT ![i] = t]
    BY DEF AcknowledgeControl
  <1> HIDE DEF t
  <1>4. IsMap(tombstones', Identity) /\ Values(tombstones', ControlTombstone)
    BY <1>0, <1>2, <1>3, UpdateType DEF RetainedTypeOK
  <1>5. /\ Reaped("ready")
        /\ UNCHANGED <<registry, lifecycle, removed, counters, cursors>>
        /\ UNCHANGED <<responses, terminals>>
    BY DEF AcknowledgeControl
  <1> QED BY <1>0, <1>4, <1>5, RetainedBodyStep DEF RetainedTypeOK

\* retrieve_encrypted_response with the acknowledgement token.
LEMMA AcknowledgeResponseStep ==
    ASSUME IInv, NEW i \in Identity, NEW token, AcknowledgeResponse(i, token)
    PROVE  IInv'
  <1> DEFINE t == [terminals[i] EXCEPT !.retrieval_state = "acknowledged"]
  <1>0. RetainedTypeOK
    BY DEF IInv, TypeOK
  <1>1. i \in DOMAIN terminals /\ terminals[i] \in TerminalRecord
    BY <1>0 DEF AcknowledgeResponse, RetainedTypeOK, Values
  <1>2. t \in TerminalRecord
    BY <1>1 DEF TerminalRecord, RetrievalState
  <1>3. terminals' = [terminals EXCEPT ![i] = t] /\ responses' = Drop(responses, {i})
    BY DEF AcknowledgeResponse
  <1> HIDE DEF t
  <1>4. IsMap(terminals', Identity) /\ Values(terminals', TerminalRecord)
    BY <1>0, <1>2, <1>3, UpdateType DEF RetainedTypeOK
  <1>5. IsMap(responses', Identity) /\ Values(responses', ResponseRecord)
    BY <1>0, <1>3, DropType DEF RetainedTypeOK
  <1>6. DOMAIN terminals' \subseteq DOMAIN terminals
    BY <1>3
  <1>7. /\ Reaped("ready") /\ tombstones' = tombstones
        /\ UNCHANGED <<registry, lifecycle, removed, counters, cursors>>
    BY DEF AcknowledgeResponse
  <1> QED BY <1>0, <1>4, <1>5, <1>6, <1>7, RetainedBodyStep DEF RetainedTypeOK

\* accept_encrypted_response moves queued work to its outcome in one piece.
LEMMA AcceptResponseStep ==
    ASSUME IInv, NEW n \in Node, NEW cred \in Cred, NEW consumer \in Consumer,
           NEW i \in Identity, NEW gen \in Nat, NEW reply \in Reply,
           AcceptResponse(n, cred, consumer, i, gen, reply)
    PROVE  IInv'
  <1> DEFINE r == [node |-> n, consumer |-> consumer, generation |-> gen, digest |-> reply,
                   replay_expires |-> now + config["response_replay_ttl"]]
             t == [node |-> n, owner |-> cred, consumer |-> consumer, generation |-> gen,
                   digest |-> reply, outcome |-> "completed",
                   reason |-> "response_completed", retrieval_state |-> "response_ready",
                   credential |-> queued_tokens[i], cancel_token |-> cancel_tokens[i],
                   expires |-> now + config["terminal_retention"]]
  <1>0. TypeOK /\ LifecycleExclusive /\ IndexExact
    BY DEF IInv, Consistent
  <1>1. /\ Reaped("ready") /\ i \in DOMAIN queued
        /\ responses' = Put(responses, i, r) /\ terminals' = Put(terminals, i, t)
        /\ Forget(i)
        /\ UNCHANGED <<registry, deferred, tombstones, removed, counters, cursors>>
    BY DEF AcceptResponse
  <1>2. queued_tokens[i] \in Nat /\ cancel_tokens[i] \in CancelToken /\ now \in Nat
    BY <1>0, <1>1 DEF TypeOK, LifecycleTypeOK, RegistryTypeOK, Values, IndexExact,
                      SecretsIndexed, Time
  <1>3. r \in ResponseRecord
    BY <1>2, ConfigNat DEF ResponseRecord, Time
  <1>4. t \in TerminalRecord
    BY <1>2, ConfigNat DEF TerminalRecord, Time, Outcome, Reason, RetrievalState
  <1> HIDE DEF r, t
  <1>5. i \in Live /\ activity' = activity
    BY <1>1 DEF Live, counters
  <1>6. /\ LifecycleTypeOK' /\ IndexExact' /\ Live' = Live \ {i}
        /\ DOMAIN reservations' \cap DOMAIN queued' = {}
        /\ DOMAIN claims' \subseteq DOMAIN queued'
    BY <1>1, <1>5, ForgetStep
  <1>7. DOMAIN terminals' = DOMAIN terminals \cup {i}
    BY <1>1 DEF Put
  <1>8. LifecycleExclusive'
    BY <1>0, <1>6, <1>7 DEF LifecycleExclusive
  <1>9. RetainedTypeOK'
    <2>1. IsMap(responses', Identity) /\ Values(responses', ResponseRecord)
      BY <1>0, <1>1, <1>3, PutType DEF TypeOK, RetainedTypeOK
    <2>2. IsMap(terminals', Identity) /\ Values(terminals', TerminalRecord)
      BY <1>0, <1>1, <1>4, PutType DEF TypeOK, RetainedTypeOK
    <2> QED BY <1>0, <1>1, <2>1, <2>2 DEF TypeOK, RetainedTypeOK
  <1>10. RegistryTypeOK' /\ LoopTypeOK'
    BY <1>0, <1>1, ReapedStep DEF TypeOK, RegistryTypeOK, LoopTypeOK, registry,
                                  removed, counters
  <1> QED BY <1>1, <1>6, <1>8, <1>9, <1>10, ReapedStep DEF IInv, Consistent, TypeOK

\* cancel_or_expire_request moves live work to its outcome in one piece.
LEMMA CancelRequestStep ==
    ASSUME IInv, NEW i \in Identity, NEW ct, CancelRequest(i, ct)
    PROVE  IInv'
  <1>0. TypeOK
    BY DEF IInv
  <1>1. /\ Reaped("ready") /\ i \in Live
        /\ Terminalize(i, "cancelled", "requester_cancelled", FALSE)
        /\ UNCHANGED <<registry, removed, counters, cursors>>
        /\ activity' = activity
    BY DEF CancelRequest, counters
  <1>2. /\ LifecycleTypeOK' /\ RetainedTypeOK' /\ LifecycleExclusive' /\ IndexExact'
        /\ deferred' = deferred \ {i}
    BY <1>1, TerminalizeStep DEF Reason
  <1>3. RegistryTypeOK' /\ LoopTypeOK'
    BY <1>0, <1>1, <1>2, ReapedStep DEF TypeOK, RegistryTypeOK, LoopTypeOK, registry,
                                        removed, counters
  <1> QED BY <1>1, <1>2, <1>3, ReapedStep DEF IInv, Consistent, TypeOK

\* The passing of time keeps the invariant.
LEMMA TickStep ==
    ASSUME IInv, Tick
    PROVE  IInv'
  <1>0. TypeOK /\ LifecycleExclusive /\ IndexExact /\ PhaseOK /\ LoopsFresh
    BY DEF IInv, Consistent
  <1>1. LifecycleTypeOK' /\ IndexExact' /\ Live' = Live
    BY <1>0, LifecycleKept DEF Tick, lifecycle, counters, TypeOK
  <1>2. RegistryTypeOK' /\ RetainedTypeOK' /\ LoopTypeOK'
    BY <1>0 DEF Tick, TypeOK, RegistryTypeOK, RetainedTypeOK, LoopTypeOK, registry,
                removed, retained, counters, lifecycle, loop, Time
  <1>3. LifecycleExclusive' /\ PhaseOK' /\ LoopsFresh'
    BY <1>0, <1>1 DEF Tick, LifecycleExclusive, PhaseOK, LoopsFresh, registry,
                      removed, retained, lifecycle, loop
  <1> QED BY <1>1, <1>2, <1>3 DEF IInv, Consistent, TypeOK

\* Doing nothing keeps the invariant.
LEMMA StutterStep ==
    ASSUME IInv, UNCHANGED vars
    PROVE  IInv'
  <1>0. TypeOK /\ LifecycleExclusive /\ IndexExact /\ PhaseOK /\ LoopsFresh
    BY DEF IInv, Consistent
  <1>1. LifecycleTypeOK' /\ IndexExact' /\ Live' = Live
    BY <1>0, LifecycleKept DEF vars, lifecycle, counters, TypeOK
  <1>2. RegistryTypeOK' /\ RetainedTypeOK' /\ LoopTypeOK'
    BY <1>0 DEF vars, TypeOK, RegistryTypeOK, RetainedTypeOK, LoopTypeOK, registry,
                removed, retained, counters, lifecycle, loop
  <1>3. LifecycleExclusive' /\ PhaseOK' /\ LoopsFresh'
    BY <1>0, <1>1 DEF vars, LifecycleExclusive, PhaseOK, LoopsFresh, registry,
                      removed, retained, lifecycle, loop
  <1> QED BY <1>1, <1>2, <1>3 DEF IInv, Consistent, TypeOK
--------------------------------------------------------------------------------
(* The theorems                                                            *)

\* A store that was just constructed satisfies the invariant.
LEMMA InitIInv == Init => IInv
  <1> SUFFICES ASSUME Init PROVE IInv
    OBVIOUS
  <1>1. DOMAIN Empty = {} /\ \A D, R : IsMap(Empty, D) /\ Values(Empty, R)
    BY DEF Empty, IsMap, Values
  <1>2. TypeOK
    BY <1>1 DEF Init, TypeOK, RegistryTypeOK, LifecycleTypeOK, RetainedTypeOK,
                LoopTypeOK, Time, Phase
  <1>3. Live = {} /\ \A n : At(Empty, n) = {}
    BY <1>1 DEF Init, Live, At
  <1>4. LifecycleExclusive /\ PhaseOK /\ LoopsFresh
    BY <1>1, <1>3 DEF Init, LifecycleExclusive, PhaseOK, LoopsFresh
  <1>5. IndexExact
    BY <1>1, <1>3 DEF Init, IndexExact, WorkIndexed, QueueIndexed, SecretsIndexed,
                      TokensUnique, Queue
  <1> QED BY <1>2, <1>4, <1>5 DEF IInv, Consistent

\* Every operation, every step of the reaper and the clock keep the invariant.
LEMMA NextIInv == IInv /\ [Next]_vars => IInv'
  <1> SUFFICES ASSUME IInv, [Next]_vars PROVE IInv'
    OBVIOUS
  <1>1. CASE Reaper
    BY <1>1, EnterStep, DueStepStep, BatchStepStep, LeaseStepStep, LeaseStepRaisesStep,
       SweepContinueStep, EndTransitionStep, ReapReservationsStep DEF Reaper
  <1>2. CASE NodeOperation
    BY <1>2, RegisterStep, RenewStep, SetSchedulerStateStep, UnregisterStep
       DEF NodeOperation
  <1>3. CASE ClientOperation
    <2>1. \A token \in 1..activity : token \in Nat
      BY DEF IInv, TypeOK, LoopTypeOK
    <2> QED BY <1>3, <2>1, SelectAndReserveStep, EnqueueStep, AcknowledgeResponseStep,
               CancelRequestStep DEF ClientOperation
  <1>4. CASE WorkerOperation
    <2>1. \A gen \in 1..generation : gen \in Nat
      BY DEF IInv, TypeOK, LoopTypeOK
    <2> QED BY <1>4, <2>1, ClaimStep, RenewClaimStep, AcknowledgeControlStep,
               AcceptResponseStep DEF WorkerOperation
  <1>5. CASE Release
    BY <1>5, ReleaseStep
  <1>6. CASE Tick
    BY <1>6, TickStep
  <1>7. CASE UNCHANGED vars
    BY <1>7, StutterStep
  <1> QED BY <1>1, <1>2, <1>3, <1>4, <1>5, <1>6, <1>7 DEF Next

\* The inductive invariant holds in every reachable state.
THEOREM Invariant == Spec => []IInv
  BY InitIInv, NextIInv, PTL DEF Spec

\* Every field of the store always holds a value of its dataclass.
THEOREM TypeCorrect == Spec => []TypeOK
  <1>1. IInv => TypeOK
    BY DEF IInv
  <1> QED BY <1>1, Invariant, PTL

\* An identity is never reserved, queued and terminal at once, and only queued
\* work is claimed, whatever the mix of reaping, operations and exceptions.
THEOREM LifecycleIsExclusive == Spec => []LifecycleExclusive
  <1>1. IInv => LifecycleExclusive
    BY DEF IInv, Consistent
  <1> QED BY <1>1, Invariant, PTL

\* The derived indexes never drift from the authoritative maps.
THEOREM IndexesAreExact == Spec => []IndexExact
  <1>1. IInv => IndexExact
    BY DEF IInv, Consistent
  <1> QED BY <1>1, Invariant, PTL

\* The reaper and a teardown batch never meet an identity or a node that is gone.
THEOREM LoopsAreFresh == Spec => []LoopsFresh
  <1>1. IInv => LoopsFresh
    BY DEF IInv, Consistent
  <1> QED BY <1>1, Invariant, PTL
--------------------------------------------------------------------------------
(* What a step does to live work                                           *)

\* A forgotten identity leaves the live maps; the others keep their records.
LEMMA ForgetEffect ==
    ASSUME IInv, NEW i \in Live, Forget(i)
    PROVE  /\ DOMAIN reservations' = DOMAIN reservations \ {i}
           /\ DOMAIN queued' = DOMAIN queued \ {i}
           /\ DOMAIN claims' = DOMAIN claims \ {i}
           /\ \A j \in DOMAIN reservations' : reservations'[j] = reservations[j]
           /\ \A j \in DOMAIN queued' : queued'[j] = queued[j]
           /\ \A j \in DOMAIN claims' : claims'[j] = claims[j]
           /\ Live' = Live \ {i}
           /\ \A j \in Live' : Work(j)' = Work(j)
  <1>1. /\ DOMAIN reservations' = DOMAIN reservations \ {i}
        /\ DOMAIN queued' = DOMAIN queued \ {i}
        /\ DOMAIN claims' = DOMAIN claims \ {i}
        /\ \A j \in DOMAIN reservations' : reservations'[j] = reservations[j]
        /\ \A j \in DOMAIN queued' : queued'[j] = queued[j]
        /\ \A j \in DOMAIN claims' : claims'[j] = claims[j]
    BY DEF Forget, Drop
  <1> QED BY <1>1 DEF Live, Work

\* Live work is unchanged when its maps are.
LEMMA WorkKept ==
    ASSUME UNCHANGED <<reservations, queued>>
    PROVE  Live' = Live /\ \A j \in Live : Work(j)' = Work(j)
  BY DEF Live, Work

\* Stale reservations go, and nothing else does.
LEMMA ReapReservationsEffect ==
    ASSUME IInv, ReapReservations
    PROVE  /\ Live' = Live \ {i \in DOMAIN reservations : StaleReservation(i)}
           /\ \A j \in Live' : Work(j)' = Work(j)
           /\ DOMAIN reservations' \subseteq DOMAIN reservations
           /\ \A j \in DOMAIN reservations' : reservations'[j] = reservations[j]
           /\ UNCHANGED <<queued, claims>>
  <1> DEFINE stale == {i \in DOMAIN reservations : StaleReservation(i)}
  <1>1. reservations' = Drop(reservations, stale) /\ UNCHANGED <<queued, claims>>
    BY DEF ReapReservations
  <1>2. stale \subseteq DOMAIN reservations /\ DOMAIN reservations \cap DOMAIN queued = {}
    BY DEF IInv, Consistent, LifecycleExclusive
  <1> HIDE DEF stale
  <1>3. /\ DOMAIN reservations' = DOMAIN reservations \ stale
        /\ \A j \in DOMAIN reservations' : reservations'[j] = reservations[j]
    BY <1>1 DEF Drop
  <1>4. Live' = Live \ stale /\ \A j \in Live' : Work(j)' = Work(j)
    BY <1>1, <1>2, <1>3 DEF Live, Work
  <1> QED BY <1>1, <1>3, <1>4 DEF stale

\* A new reservation is live work of the chosen node.
LEMMA SelectEffect ==
    ASSUME IInv, NEW i, NEW fp, NEW deadline, NEW ct, NEW n, NEW gone,
           SelectAndReserve(i, fp, deadline, ct, n, gone)
    PROVE  /\ Live' = Live \cup {i} /\ i \notin Live
           /\ DOMAIN reservations' = DOMAIN reservations \cup {i}
           /\ Work(i)'.node = n /\ Work(i)'.deadline = deadline /\ Work(i)'.fp = fp
           /\ \A j \in Live : Work(j)' = Work(j)
           /\ \A j \in DOMAIN reservations : reservations'[j] = reservations[j]
           /\ reservations'[i] = Work(i)'
           /\ UNCHANGED <<queued, claims>>
  <1> DEFINE r == [fp |-> fp, node |-> n, deadline |-> deadline,
                   expires |-> Min2(now + config["reservation_ttl"], deadline),
                   token |-> activity']
  <1>1. /\ reservations' = Put(reservations, i, r) /\ i \notin Live
        /\ UNCHANGED <<queued, claims>>
    BY DEF SelectAndReserve
  <1>2. r.node = n /\ r.deadline = deadline /\ r.fp = fp
    OBVIOUS
  <1> HIDE DEF r
  <1>3. /\ DOMAIN reservations' = DOMAIN reservations \cup {i} /\ reservations'[i] = r
        /\ \A j \in DOMAIN reservations : reservations'[j] = reservations[j]
    BY <1>1 DEF Put, Live
  <1>4. Live' = Live \cup {i} /\ Work(i)' = r /\ \A j \in Live : Work(j)' = Work(j)
    BY <1>1, <1>3 DEF Live, Work
  <1> QED BY <1>1, <1>2, <1>3, <1>4

\* Work that is queued keeps its node and its deadline.
LEMMA EnqueueEffect ==
    ASSUME IInv, NEW i, NEW fp, NEW deadline, NEW token, NEW n, NEW ct,
           EnqueueEncryptedRequest(i, fp, deadline, token, n, ct)
    PROVE  /\ Live' = Live /\ i \in DOMAIN reservations
           /\ \A j \in Live : /\ Work(j)'.node = Work(j).node
                              /\ Work(j)'.deadline = Work(j).deadline
                              /\ Work(j)'.fp = Work(j).fp
           /\ i \notin DOMAIN queued
           /\ DOMAIN queued' = DOMAIN queued \cup {i}
           /\ DOMAIN reservations' = DOMAIN reservations \ {i}
           /\ queued'[i].node = n /\ reservations[i].node = n
           /\ \A j \in DOMAIN queued : queued'[j] = queued[j]
           /\ \A j \in DOMAIN reservations' : reservations'[j] = reservations[j]
           /\ UNCHANGED claims
  <1> DEFINE q == [fp |-> fp, node |-> n, deadline |-> deadline, sequence |-> sequence']
  <1>1. /\ queued' = Put(queued, i, q) /\ reservations' = Drop(reservations, {i})
        /\ i \in DOMAIN reservations /\ UNCHANGED claims
        /\ reservations[i].fp = fp /\ reservations[i].deadline = deadline
        /\ reservations[i].node = n
    BY DEF EnqueueEncryptedRequest
  <1>2. q.node = n /\ q.deadline = deadline /\ q.fp = fp
    OBVIOUS
  <1>3. i \notin DOMAIN queued
    BY <1>1 DEF IInv, Consistent, LifecycleExclusive
  <1> HIDE DEF q
  <1>4. /\ DOMAIN queued' = DOMAIN queued \cup {i} /\ queued'[i] = q
        /\ \A j \in DOMAIN queued : queued'[j] = queued[j]
        /\ DOMAIN reservations' = DOMAIN reservations \ {i}
        /\ \A j \in DOMAIN reservations' : reservations'[j] = reservations[j]
    BY <1>1, <1>3 DEF Put, Drop
  <1>5. Live' = Live
    BY <1>1, <1>4 DEF Live
  <1>6. \A j \in Live : /\ Work(j)'.node = Work(j).node
                        /\ Work(j)'.deadline = Work(j).deadline
                        /\ Work(j)'.fp = Work(j).fp
    BY <1>1, <1>2, <1>3, <1>4 DEF Live, Work
  <1> QED BY <1>1, <1>2, <1>3, <1>4, <1>5, <1>6

\* A terminalized identity is forgotten; its stop instruction names its claim's owner.
LEMMA TerminalizeEffect ==
    ASSUME IInv, NEW i \in Live, NEW status, NEW reason, NEW force,
           Terminalize(i, status, reason, force)
    PROVE  /\ Forget(i)
           /\ DOMAIN terminals' = DOMAIN terminals \cup {i} /\ i \notin DOMAIN terminals
           /\ \A j \in DOMAIN terminals : terminals'[j] = terminals[j]
           /\ terminals'[i].outcome = status
           /\ terminals'[i].retrieval_state = "completed_unavailable"
           /\ terminals'[i].expires = now + config["terminal_retention"]
           /\ \A j \in DOMAIN tombstones : j # i => tombstones'[j] = tombstones[j]
           /\ ~TombstonedClaim(i, status, force) => tombstones' = tombstones
           /\ responses' = responses
  <1>0. i \notin DOMAIN terminals
    BY DEF IInv, Consistent, LifecycleExclusive
  <1>1. Forget(i) /\ responses' = responses
    BY DEF Terminalize
  <1>2. PICK t : /\ terminals' = Put(terminals, i, t)
                 /\ t.outcome = status /\ t.retrieval_state = "completed_unavailable"
                 /\ t.expires = now + config["terminal_retention"]
    BY DEF Terminalize
  <1>3. CASE ~TombstonedClaim(i, status, force)
    <2>1. tombstones' = tombstones
      BY <1>3 DEF Terminalize
    <2> QED BY <1>0, <1>1, <1>2, <1>3, <2>1 DEF Put
  <1>4. CASE TombstonedClaim(i, status, force)
    <2>1. PICK u : tombstones' = Put(tombstones, i, u)
      BY <1>4 DEF Terminalize
    <2> QED BY <1>0, <1>1, <1>2, <1>4, <2>1 DEF Put
  <1> QED BY <1>3, <1>4

\* The stop instruction of a terminalized claim.
LEMMA StopEffect ==
    ASSUME IInv, NEW i \in Live, NEW status, NEW reason, NEW force,
           Terminalize(i, status, reason, force), TombstonedClaim(i, status, force)
    PROVE  /\ i \in DOMAIN claims
           /\ DOMAIN tombstones' = DOMAIN tombstones \cup {i}
           /\ tombstones'[i].node = claims[i].node
           /\ tombstones'[i].owner = claims[i].owner
           /\ tombstones'[i].generation = claims[i].generation
           /\ tombstones'[i].status = status
           /\ tombstones'[i].reason = reason
           /\ tombstones'[i].expires = now + config["control_tombstone_ttl"]
           /\ terminals'[i].generation = claims[i].generation
  <1>1. PICK t : /\ tombstones' = Put(tombstones, i, t)
                 /\ t.node = claims[i].node /\ t.owner = claims[i].owner
                 /\ t.generation = claims[i].generation /\ t.status = status
                 /\ t.reason = reason
                 /\ t.expires = now + config["control_tombstone_ttl"]
    BY DEF Terminalize, TombstoneExpiry
  <1>2. PICK u : terminals' = Put(terminals, i, u) /\ u.generation = claims[i].generation
    BY DEF Terminalize
  <1> QED BY <1>1, <1>2 DEF Put, TombstonedClaim
--------------------------------------------------------------------------------
(* Teardown                                                                *)

\* A credential's stop instructions are fenced for as long as they are kept: by the
\* transition that writes them, then by the owner fence it leaves.
StopsFenced ==
    \A i \in DOMAIN tombstones :
        LET t == tombstones[i]
            k == <<t.node, t.owner>> IN
        (t.reason = "server_unregistered" /\ t.expires > now) =>
            /\ t.expires <= now + config["control_tombstone_ttl"]
            /\ k \in DOMAIN former
            /\ \/ former[k].expires >= t.expires
               \/ t.node \in DOMAIN pending /\ pending[t.node].owner = t.owner
\* The owner of a registration carries no fence for its node.
OwnersUnfenced == \A n \in DOMAIN records : <<n, records[n].owner>> \notin DOMAIN former

TeardownInv ==
    /\ NoOrphanWork /\ ClaimOwnerCurrent /\ ContinuationNeverFaults
    /\ StopsFenced /\ OwnersUnfenced

\* The invariant is enough.
LEMMA TeardownIsSafe == ASSUME TeardownInv PROVE TeardownSafe
  BY DEF TeardownInv, TeardownSafe, RemovedOwnerStaysOut, StopsFenced, OwnersUnfenced

\* Steps that leave registrations' owners, transitions and fences alone keep it, if new
\* work and new claims are at registered nodes and new stop instructions are a transition's.
LEMMA OwnersKept ==
    ASSUME IInv, TeardownInv, now' \in Nat, now' >= now,
           DOMAIN records' = DOMAIN records,
           \A n \in DOMAIN records : records'[n].owner = records[n].owner,
           UNCHANGED <<pending, former>>,
           \A j \in Live' : Work(j)'.node \in DOMAIN records \cup DOMAIN pending,
           \A j \in DOMAIN claims' :
              /\ claims'[j].node = queued'[j].node
              /\ \/ /\ j \in DOMAIN claims
                    /\ claims'[j].node = claims[j].node /\ claims'[j].owner = claims[j].owner
                 \/ /\ claims'[j].node \in DOMAIN records
                    /\ claims'[j].owner = records[claims'[j].node].owner,
           \A j \in DOMAIN tombstones' : tombstones'[j].reason = "server_unregistered" =>
              \/ /\ j \in DOMAIN tombstones
                 /\ tombstones'[j].node = tombstones[j].node
                 /\ tombstones'[j].owner = tombstones[j].owner
                 /\ tombstones'[j].reason = tombstones[j].reason
                 /\ tombstones'[j].expires = tombstones[j].expires
              \/ /\ tombstones'[j].expires = now + config["control_tombstone_ttl"]
                 /\ tombstones'[j].node \in DOMAIN pending
                 /\ tombstones'[j].owner = pending[tombstones'[j].node].owner
    PROVE  TeardownInv'
  <1>0. /\ now \in Nat /\ \A j \in DOMAIN tombstones : tombstones[j].expires \in Nat
        /\ config["control_tombstone_ttl"] \in Nat
    BY ConfigNat DEF IInv, TypeOK, RegistryTypeOK, RetainedTypeOK, Values, ControlTombstone, Time
  <1>1. NoOrphanWork' /\ ContinuationNeverFaults' /\ OwnersUnfenced'
    BY DEF TeardownInv, NoOrphanWork, ContinuationNeverFaults, OwnersUnfenced
  <1>2. ClaimOwnerCurrent'
    BY DEF TeardownInv, ClaimOwnerCurrent, NoOrphanWork
  <1>3. StopsFenced'
    <2> SUFFICES ASSUME NEW j \in DOMAIN tombstones',
                        tombstones'[j].reason = "server_unregistered",
                        tombstones'[j].expires > now'
                 PROVE  LET t == tombstones'[j]
                            k == <<t.node, t.owner>> IN
                        /\ t.expires <= now' + config["control_tombstone_ttl"]
                        /\ k \in DOMAIN former'
                        /\ \/ former'[k].expires >= t.expires
                           \/ t.node \in DOMAIN pending' /\ pending'[t.node].owner = t.owner
      BY DEF StopsFenced
    <2>1. CASE /\ j \in DOMAIN tombstones
               /\ tombstones'[j].node = tombstones[j].node
               /\ tombstones'[j].owner = tombstones[j].owner
               /\ tombstones'[j].reason = tombstones[j].reason
               /\ tombstones'[j].expires = tombstones[j].expires
      <3>1. tombstones[j].expires > now
        BY <1>0, <2>1
      <3> QED BY <1>0, <2>1, <3>1 DEF TeardownInv, StopsFenced
    <2>2. CASE /\ tombstones'[j].expires = now + config["control_tombstone_ttl"]
               /\ tombstones'[j].node \in DOMAIN pending
               /\ tombstones'[j].owner = pending[tombstones'[j].node].owner
      BY <1>0, <2>2 DEF TeardownInv, ContinuationNeverFaults
    <2> QED BY <2>1, <2>2
  <1> QED BY <1>1, <1>2, <1>3 DEF TeardownInv

\* In particular a step that leaves work, claims and stop instructions alone.
LEMMA OwnersIdle ==
    ASSUME IInv, TeardownInv, now' \in Nat, now' >= now,
           DOMAIN records' = DOMAIN records,
           \A n \in DOMAIN records : records'[n].owner = records[n].owner,
           UNCHANGED <<pending, former, reservations, queued, claims, tombstones>>
    PROVE  TeardownInv'
  <1>1. \A j \in Live' : Work(j)'.node \in DOMAIN records \cup DOMAIN pending
    BY WorkKept DEF TeardownInv, NoOrphanWork
  <1>2. \A j \in DOMAIN claims' : claims'[j].node = queued'[j].node
    BY DEF TeardownInv, ClaimOwnerCurrent
  <1> QED BY <1>1, <1>2, OwnersKept

\* A terminalized request: the stop instruction of a teardown goes to the removed owner.
LEMMA TeardownTerminalize ==
    ASSUME IInv, TeardownInv, NEW i \in Live, NEW status, NEW reason, NEW force,
           Terminalize(i, status, reason, force),
           reason = "server_unregistered" => Work(i).node \in DOMAIN pending,
           UNCHANGED <<now, records, pending, former>>
    PROVE  TeardownInv'
  <1>0. now \in Nat /\ now' >= now
    BY DEF IInv, TypeOK, RegistryTypeOK, Time
  <1>1. Forget(i)
    BY TerminalizeEffect
  <1>2. \A j \in Live' : Work(j)'.node \in DOMAIN records \cup DOMAIN pending
    BY <1>1, ForgetEffect DEF TeardownInv, NoOrphanWork
  <1>3. \A j \in DOMAIN claims' : /\ claims'[j].node = queued'[j].node /\ j \in DOMAIN claims
                                  /\ claims'[j] = claims[j]
    <2>1. DOMAIN claims \subseteq DOMAIN queued
      BY DEF IInv, Consistent, LifecycleExclusive
    <2> QED BY <1>1, <2>1, ForgetEffect DEF TeardownInv, ClaimOwnerCurrent
  <1>4. ASSUME NEW j \in DOMAIN tombstones', tombstones'[j].reason = "server_unregistered"
        PROVE  \/ j \in DOMAIN tombstones /\ tombstones'[j] = tombstones[j]
               \/ /\ tombstones'[j].expires = now + config["control_tombstone_ttl"]
                  /\ tombstones'[j].node \in DOMAIN pending
                  /\ tombstones'[j].owner = pending[tombstones'[j].node].owner
    <2>1. CASE ~TombstonedClaim(i, status, force) \/ j # i
      <3>1. \A l \in DOMAIN tombstones : l # i => tombstones'[l] = tombstones[l]
        BY TerminalizeEffect
      <3>2. ~TombstonedClaim(i, status, force) => tombstones' = tombstones
        BY TerminalizeEffect
      <3>3. TombstonedClaim(i, status, force) => DOMAIN tombstones' = DOMAIN tombstones \cup {i}
        BY StopEffect
      <3> QED BY <1>4, <2>1, <3>1, <3>2, <3>3
    <2>2. CASE TombstonedClaim(i, status, force) /\ j = i
      <3>1. i \in DOMAIN claims /\ i \in DOMAIN queued /\ i \notin DOMAIN reservations
        BY <2>2, StopEffect DEF IInv, Consistent, LifecycleExclusive
      <3>2. claims[i].node = Work(i).node
        BY <3>1 DEF TeardownInv, ClaimOwnerCurrent, Work
      <3>3. /\ tombstones'[i].node = claims[i].node /\ tombstones'[i].owner = claims[i].owner
            /\ tombstones'[i].reason = reason
            /\ tombstones'[i].expires = now + config["control_tombstone_ttl"]
        BY <2>2, StopEffect
      <3>4. Work(i).node \in DOMAIN pending
        BY <1>4, <2>2, <3>3
      <3> QED BY <2>2, <3>1, <3>2, <3>3, <3>4 DEF TeardownInv, ClaimOwnerCurrent
    <2> QED BY <2>1, <2>2
  <1> QED BY <1>0, <1>2, <1>3, <1>4, OwnersKept

\* One step of the loops that decide requests.
LEMMA TeardownLoops ==
    ASSUME IInv, TeardownInv, NEW i \in Identity,
           DueStep(i) \/ BatchStep(i) \/ (\E ct \in CancelToken : CancelRequest(i, ct))
    PROVE  TeardownInv'
  <1>1. CASE DueStep(i)
    <2>1. i \in Live /\ UNCHANGED <<now, records, pending, former>>
      BY <1>1 DEF DueStep, IInv, Consistent, LoopsFresh, registry, removed
    <2>2. CASE Terminalize(i, "expired", "request_deadline_expired", FALSE)
      BY <2>1, <2>2, TeardownTerminalize
    <2>3. CASE UNCHANGED <<reservations, queued, claims, retained>>
      BY <2>1, <2>3, OwnersIdle DEF retained, IInv, TypeOK, RegistryTypeOK, Time
    <2> QED BY <1>1, <2>2, <2>3 DEF DueStep
  <1>2. CASE BatchStep(i)
    <2>1. /\ tearing \in DOMAIN pending /\ i \in At(node_work, tearing)
          /\ UNCHANGED <<now, records, pending, former>>
      BY <1>2 DEF BatchStep, IInv, Consistent, LoopsFresh, registry, removed
    <2>2. i \in Live /\ Work(i).node = tearing
      <3>1. tearing \in Node
        BY <2>1 DEF IInv, TypeOK, RegistryTypeOK, IsMap
      <3> QED BY <2>1, <3>1 DEF IInv, Consistent, IndexExact, WorkIndexed
    <2>3. CASE Terminalize(i, "cancelled", "server_unregistered", TRUE)
      BY <2>1, <2>2, <2>3, TeardownTerminalize
    <2>4. CASE UNCHANGED <<lifecycle, retained>>
      BY <2>1, <2>4, OwnersIdle DEF lifecycle, retained, IInv, TypeOK, RegistryTypeOK, Time
    <2> QED BY <1>2, <2>3, <2>4 DEF BatchStep
  <1>3. ASSUME NEW ct \in CancelToken, CancelRequest(i, ct)
        PROVE  TeardownInv'
    <2>1. /\ i \in Live /\ UNCHANGED <<now, records, pending, former>>
          /\ Terminalize(i, "cancelled", "requester_cancelled", FALSE)
      BY <1>3 DEF CancelRequest, Reaped, registry, removed
    <2> QED BY <2>1, TeardownTerminalize
  <1> QED BY <1>1, <1>2, <1>3

\* Fences that are still needed survive the reaping of retained records.
LEMMA TeardownEnter ==
    ASSUME IInv, TeardownInv, NEW phase, Enter(phase)
    PROVE  TeardownInv'
  <1>0. /\ now \in Nat /\ \A j \in DOMAIN tombstones : tombstones[j].expires \in Nat
        /\ \A k \in DOMAIN former : former[k].expires \in Nat
    BY DEF IInv, TypeOK, RegistryTypeOK, RetainedTypeOK, Values, ControlTombstone,
           FormerAuthority, Time
  <1>1. /\ UNCHANGED <<now, records, pending, reservations, queued, claims>>
        /\ tombstones' =
             Drop(tombstones, {j \in DOMAIN tombstones : tombstones[j].expires <= now})
        /\ former' = Drop(former, {k \in DOMAIN former : ~FenceKept(k)})
    BY DEF Enter, ReapRetained, registry, lifecycle
  <1>2. /\ DOMAIN former' = {k \in DOMAIN former : FenceKept(k)}
        /\ \A k \in DOMAIN former' : former'[k] = former[k]
    BY <1>1 DEF Drop
  <1>3. /\ DOMAIN tombstones' = {j \in DOMAIN tombstones : ~(tombstones[j].expires <= now)}
        /\ \A j \in DOMAIN tombstones' : tombstones'[j] = tombstones[j]
    BY <1>1 DEF Drop
  <1>4. NoOrphanWork' /\ ClaimOwnerCurrent'
    BY <1>1, WorkKept DEF TeardownInv, NoOrphanWork, ClaimOwnerCurrent
  <1>5. ContinuationNeverFaults'
    BY <1>1, <1>2 DEF TeardownInv, ContinuationNeverFaults, FenceKept
  <1>6. OwnersUnfenced'
    BY <1>1, <1>2 DEF TeardownInv, OwnersUnfenced
  <1>7. StopsFenced'
    <2> SUFFICES ASSUME NEW j \in DOMAIN tombstones',
                        tombstones[j].reason = "server_unregistered", tombstones[j].expires > now
                 PROVE  LET t == tombstones[j]
                            k == <<t.node, t.owner>> IN
                        /\ t.expires <= now + config["control_tombstone_ttl"]
                        /\ k \in DOMAIN former'
                        /\ \/ former'[k].expires >= t.expires
                           \/ t.node \in DOMAIN pending /\ pending[t.node].owner = t.owner
      BY <1>1, <1>3 DEF StopsFenced
    <2> DEFINE k == <<tombstones[j].node, tombstones[j].owner>>
    <2>1. /\ tombstones[j].expires <= now + config["control_tombstone_ttl"]
          /\ k \in DOMAIN former
          /\ \/ former[k].expires >= tombstones[j].expires
             \/ /\ tombstones[j].node \in DOMAIN pending
                /\ pending[tombstones[j].node].owner = tombstones[j].owner
      BY <1>3 DEF TeardownInv, StopsFenced
    <2>2. k[1] = tombstones[j].node /\ k[2] = tombstones[j].owner
      OBVIOUS
    <2> HIDE DEF k
    <2>3. FenceKept(k)
      BY <1>0, <1>3, <2>1, <2>2 DEF FenceKept
    <2> QED BY <1>2, <2>1, <2>3 DEF k
  <1> QED BY <1>4, <1>5, <1>6, <1>7 DEF TeardownInv

\* Removing a node moves its work, its claims and its owner to the transition.
LEMMA TeardownBegin ==
    ASSUME IInv, TeardownInv, NEW n \in DOMAIN records, NEW cause, BeginTransition(n, cause)
    PROVE  TeardownInv'
  <1> DEFINE o == records[n].owner
             k == <<n, o>>
  <1>0. /\ now \in Nat /\ \A j \in DOMAIN tombstones : tombstones[j].expires \in Nat
        /\ config["control_tombstone_ttl"] \in Nat /\ config["terminal_retention"] \in Nat
        /\ config["control_tombstone_ttl"] <= config["terminal_retention"]
    <2>1. config["control_tombstone_ttl"] <= config["terminal_retention"]
      BY ConfigAssumption, ConfigNat DEF ConfigValid
    <2> QED BY <2>1, ConfigNat DEF IInv, TypeOK, RegistryTypeOK, RetainedTypeOK, Values,
                                   ControlTombstone, Time
  <1>1. /\ UNCHANGED <<now, reservations, queued, claims, tombstones>>
        /\ DOMAIN records' = DOMAIN records \ {n}
        /\ \A m \in DOMAIN records' : records'[m] = records[m]
        /\ DOMAIN pending' = DOMAIN pending \cup {n}
        /\ pending'[n].owner = o
        /\ \A m \in DOMAIN pending : m # n => pending'[m] = pending[m]
        /\ DOMAIN former' = DOMAIN former \cup {k}
        /\ former'[k].expires = now + config["terminal_retention"]
        /\ \A x \in DOMAIN former : x # k => former'[x] = former[x]
    <2>1. PICK p, a : /\ pending' = Put(pending, n, p) /\ p.owner = o
                      /\ former' = Put(former, k, a)
                      /\ a.expires = now + config["terminal_retention"]
      BY DEF BeginTransition
    <2>2. records' = Drop(records, {n}) /\ UNCHANGED <<now, reservations, queued, claims, tombstones>>
      BY DEF BeginTransition, lifecycle, retained
    <2> HIDE DEF o, k
    <2> QED BY <2>1, <2>2 DEF Put, Drop
  <1>2. n \notin DOMAIN pending
    BY DEF TeardownInv, NoOrphanWork
  <1>3. NoOrphanWork'
    BY <1>1, WorkKept DEF TeardownInv, NoOrphanWork
  <1>4. ClaimOwnerCurrent'
    BY <1>1, <1>2 DEF TeardownInv, ClaimOwnerCurrent
  <1>5. ContinuationNeverFaults'
    <2> SUFFICES ASSUME NEW m \in DOMAIN pending'
                 PROVE  <<m, pending'[m].owner>> \in DOMAIN former'
      BY DEF ContinuationNeverFaults
    <2> QED BY <1>1, <1>2 DEF TeardownInv, ContinuationNeverFaults
  <1>6. OwnersUnfenced'
    <2> SUFFICES ASSUME NEW m \in DOMAIN records'
                 PROVE  <<m, records'[m].owner>> \notin DOMAIN former'
      BY DEF OwnersUnfenced
    <2>1. m # n /\ records'[m].owner = records[m].owner /\ m \in DOMAIN records
      BY <1>1
    <2>2. <<m, records[m].owner>> # k
      BY <2>1
    <2> HIDE DEF k
    <2> QED BY <1>1, <2>1, <2>2 DEF TeardownInv, OwnersUnfenced
  <1>7. StopsFenced'
    <2> SUFFICES ASSUME NEW j \in DOMAIN tombstones,
                        tombstones[j].reason = "server_unregistered", tombstones[j].expires > now
                 PROVE  LET t == tombstones[j]
                            x == <<t.node, t.owner>> IN
                        /\ t.expires <= now + config["control_tombstone_ttl"]
                        /\ x \in DOMAIN former'
                        /\ \/ former'[x].expires >= t.expires
                           \/ t.node \in DOMAIN pending' /\ pending'[t.node].owner = t.owner
      BY <1>1 DEF StopsFenced
    <2> DEFINE x == <<tombstones[j].node, tombstones[j].owner>>
    <2>1. /\ tombstones[j].expires <= now + config["control_tombstone_ttl"]
          /\ x \in DOMAIN former
          /\ \/ former[x].expires >= tombstones[j].expires
             \/ /\ tombstones[j].node \in DOMAIN pending
                /\ pending[tombstones[j].node].owner = tombstones[j].owner
      BY DEF TeardownInv, StopsFenced
    <2> HIDE DEF k, x
    <2>2. former'[x].expires >= tombstones[j].expires
             \/ /\ tombstones[j].node \in DOMAIN pending'
                /\ pending'[tombstones[j].node].owner = tombstones[j].owner
      BY <1>0, <1>1, <1>2, <2>1
    <2> QED BY <1>1, <2>1, <2>2 DEF x
  <1> QED BY <1>3, <1>4, <1>5, <1>6, <1>7 DEF TeardownInv

\* A completed transition leaves no work behind and renews its owner's fence.
LEMMA TeardownEnd ==
    ASSUME IInv, TeardownInv, EndTransition
    PROVE  TeardownInv'
  <1> DEFINE o == pending[tearing].owner
             k == <<tearing, o>>
  <1>0. /\ now \in Nat /\ \A j \in DOMAIN tombstones : tombstones[j].expires \in Nat
        /\ config["control_tombstone_ttl"] \in Nat /\ config["terminal_retention"] \in Nat
        /\ config["control_tombstone_ttl"] <= config["terminal_retention"]
    <2>1. config["control_tombstone_ttl"] <= config["terminal_retention"]
      BY ConfigAssumption, ConfigNat DEF ConfigValid
    <2> QED BY <2>1, ConfigNat DEF IInv, TypeOK, RegistryTypeOK, RetainedTypeOK, Values,
                                   ControlTombstone, Time
  <1>1. UNCHANGED <<now, records, reservations, queued, claims, tombstones>>
    BY DEF EndTransition, registry, lifecycle, retained
  <1>2. CASE UNCHANGED removed
    BY <1>0, <1>1, <1>2, OwnersIdle DEF removed
  <1>3. CASE ~UNCHANGED removed
    <2>1. /\ ~WorkLeft(tearing)
          /\ pending' = Drop(pending, {tearing})
          /\ former' = [former EXCEPT ![k].expires = now + config["terminal_retention"]]
      BY <1>3 DEF EndTransition
    <2>2. tearing \in DOMAIN pending /\ tearing \in Node
      BY DEF EndTransition, IInv, Consistent, LoopsFresh, TypeOK, RegistryTypeOK, IsMap
    <2>3. k \in DOMAIN former
      BY <2>2 DEF TeardownInv, ContinuationNeverFaults
    <2>4. former[k] \in FormerAuthority
      BY <2>3 DEF IInv, TypeOK, RegistryTypeOK, Values
    <2> HIDE DEF o, k
    <2>5. /\ DOMAIN former' = DOMAIN former
          /\ former'[k].expires = now + config["terminal_retention"]
          /\ \A x \in DOMAIN former : x # k => former'[x] = former[x]
      BY <2>1, <2>3, <2>4 DEF FormerAuthority
    <2>6. /\ DOMAIN pending' = DOMAIN pending \ {tearing}
          /\ \A m \in DOMAIN pending' : pending'[m] = pending[m]
      BY <2>1 DEF Drop
    <2>7. \A j \in Live : Work(j).node # tearing
      BY <2>1, <2>2 DEF WorkLeft, IInv, Consistent, IndexExact, WorkIndexed
    <2>8. NoOrphanWork'
      BY <1>1, <2>6, <2>7, WorkKept DEF TeardownInv, NoOrphanWork
    <2>9. ClaimOwnerCurrent'
      BY <1>1, <2>6 DEF TeardownInv, ClaimOwnerCurrent
    <2>10. ContinuationNeverFaults' /\ OwnersUnfenced'
      BY <1>1, <2>5, <2>6 DEF TeardownInv, ContinuationNeverFaults, OwnersUnfenced
    <2>11. StopsFenced'
      <3> SUFFICES ASSUME NEW j \in DOMAIN tombstones,
                          tombstones[j].reason = "server_unregistered", tombstones[j].expires > now
                   PROVE  LET t == tombstones[j]
                              x == <<t.node, t.owner>> IN
                          /\ t.expires <= now + config["control_tombstone_ttl"]
                          /\ x \in DOMAIN former'
                          /\ \/ former'[x].expires >= t.expires
                             \/ t.node \in DOMAIN pending' /\ pending'[t.node].owner = t.owner
        BY <1>1 DEF StopsFenced
      <3> DEFINE x == <<tombstones[j].node, tombstones[j].owner>>
      <3>1. /\ tombstones[j].expires <= now + config["control_tombstone_ttl"]
            /\ x \in DOMAIN former
            /\ \/ former[x].expires >= tombstones[j].expires
               \/ /\ tombstones[j].node \in DOMAIN pending
                  /\ pending[tombstones[j].node].owner = tombstones[j].owner
        BY DEF TeardownInv, StopsFenced
      <3>2. tombstones[j].node = tearing /\ tombstones[j].owner = o => x = k
        BY DEF k, o
      <3> HIDE DEF x
      <3>3. \/ former'[x].expires >= tombstones[j].expires
            \/ /\ tombstones[j].node \in DOMAIN pending'
               /\ pending'[tombstones[j].node].owner = tombstones[j].owner
        BY <1>0, <2>5, <2>6, <3>1, <3>2 DEF o
      <3> QED BY <2>5, <3>1, <3>3 DEF x
    <2> QED BY <2>8, <2>9, <2>10, <2>11 DEF TeardownInv
  <1> QED BY <1>2, <1>3

\* A registration finds no work, no claim and no fence of a predecessor.
LEMMA TeardownRegister ==
    ASSUME IInv, TeardownInv, NEW n \in Node, NEW caps, NEW cred, Register(n, caps, cred)
    PROVE  TeardownInv'
  <1>0. now \in Nat
    BY DEF IInv, TypeOK, RegistryTypeOK, Time
  <1>1. /\ UNCHANGED <<now, reservations, queued, claims, tombstones, pending, former>>
        /\ DOMAIN records' = DOMAIN records \cup {n} /\ records'[n].owner = cred
        /\ \A m \in DOMAIN records : m # n => records'[m] = records[m]
        /\ n \notin DOMAIN pending
    BY DEF Register, Registrable, Reaped, Put, lifecycle, retained, removed
  <1>2. CASE RegisterExisting(n, cred)
    BY <1>0, <1>1, <1>2, OwnersIdle DEF RegisterExisting
  <1>3. CASE RegisterNew(n, cred)
    <2>1. n \notin DOMAIN records /\ <<n, cred>> \notin DOMAIN former
      BY <1>3 DEF RegisterNew
    <2>2. NoOrphanWork'
      BY <1>1, WorkKept DEF TeardownInv, NoOrphanWork
    <2>3. ASSUME NEW j \in DOMAIN claims PROVE claims[j].node # n
      <3>1. j \in Live /\ claims[j].node = Work(j).node
        BY <2>3 DEF IInv, Consistent, LifecycleExclusive, TeardownInv, ClaimOwnerCurrent, Live, Work
      <3> QED BY <1>1, <2>1, <3>1 DEF TeardownInv, NoOrphanWork
    <2>4. ClaimOwnerCurrent'
      <3> SUFFICES ASSUME NEW j \in DOMAIN claims
                   PROVE  /\ claims[j].node = queued[j].node
                          /\ claims[j].node \in DOMAIN records' =>
                               claims[j].owner = records'[claims[j].node].owner
                          /\ claims[j].node \in DOMAIN pending =>
                               claims[j].owner = pending[claims[j].node].owner
        BY <1>1 DEF ClaimOwnerCurrent
      <3> QED BY <1>1, <2>3 DEF TeardownInv, ClaimOwnerCurrent
    <2>5. ContinuationNeverFaults' /\ StopsFenced'
      BY <1>1 DEF TeardownInv, ContinuationNeverFaults, StopsFenced
    <2>6. OwnersUnfenced'
      <3> SUFFICES ASSUME NEW m \in DOMAIN records'
                   PROVE  <<m, records'[m].owner>> \notin DOMAIN former
        BY <1>1 DEF OwnersUnfenced
      <3> QED BY <1>1, <2>1 DEF TeardownInv, OwnersUnfenced
    <2> QED BY <2>2, <2>4, <2>5, <2>6 DEF TeardownInv
  <1> QED BY <1>2, <1>3 DEF Register

\* The request operations put work and claims at registered nodes only.
LEMMA TeardownRequests ==
    ASSUME IInv, TeardownInv, ClientOperation \/ WorkerOperation \/ ReapReservations
    PROVE  TeardownInv'
  <1>0. now \in Nat /\ DOMAIN claims \subseteq DOMAIN queued /\ DOMAIN reservations \cap DOMAIN queued = {}
    BY DEF IInv, TypeOK, RegistryTypeOK, Time, Consistent, LifecycleExclusive
  <1>1. ASSUME NEW i, NEW fp, NEW deadline, NEW n, NEW ct, NEW gone,
               SelectAndReserve(i, fp, deadline, ct, n, gone)
        PROVE  TeardownInv'
    <2>1. /\ UNCHANGED <<now, records, pending, former, tombstones>> /\ n \in DOMAIN records
      BY <1>1 DEF SelectAndReserve, Reaped, registry, removed, retained
    <2>2. \A j \in Live' : Work(j)'.node \in DOMAIN records \cup DOMAIN pending
      <3>1. /\ Live' = Live \cup {i} /\ Work(i)'.node = n
            /\ \A j \in Live : Work(j)' = Work(j)
        BY <1>1, SelectEffect
      <3> QED BY <2>1, <3>1 DEF TeardownInv, NoOrphanWork
    <2>3. UNCHANGED <<queued, claims>>
      BY <1>1, SelectEffect
    <2>4. \A j \in DOMAIN claims' : claims'[j].node = queued'[j].node
      BY <2>3 DEF TeardownInv, ClaimOwnerCurrent
    <2> QED BY <1>0, <2>1, <2>2, <2>3, <2>4, OwnersKept
  <1>2. ASSUME NEW i, NEW fp, NEW deadline, NEW n, NEW ct, NEW token,
               EnqueueEncryptedRequest(i, fp, deadline, token, n, ct)
        PROVE  TeardownInv'
    <2>1. UNCHANGED <<now, records, pending, former, tombstones>>
      BY <1>2 DEF EnqueueEncryptedRequest, Reaped, registry, removed, retained
    <2>2. \A j \in Live' : Work(j)'.node \in DOMAIN records \cup DOMAIN pending
      BY <1>2, EnqueueEffect DEF TeardownInv, NoOrphanWork
    <2>3. \A j \in DOMAIN claims' : claims'[j] = claims[j] /\ claims'[j].node = queued'[j].node
      BY <1>0, <1>2, EnqueueEffect DEF TeardownInv, ClaimOwnerCurrent
    <2>4. claims' = claims
      BY <1>2, EnqueueEffect
    <2> QED BY <1>0, <2>1, <2>2, <2>3, <2>4, OwnersKept
  <1>3. CASE ReapReservations
    <2>1. UNCHANGED <<now, records, pending, former, tombstones>>
      BY <1>3 DEF ReapReservations, registry, removed, retained
    <2>2. \A j \in Live' : Work(j)'.node \in DOMAIN records \cup DOMAIN pending
      BY <1>3, ReapReservationsEffect DEF TeardownInv, NoOrphanWork
    <2>3. UNCHANGED <<queued, claims>>
      BY <1>3, ReapReservationsEffect
    <2>4. \A j \in DOMAIN claims' : claims'[j].node = queued'[j].node
      BY <2>3 DEF TeardownInv, ClaimOwnerCurrent
    <2> QED BY <1>0, <2>1, <2>2, <2>3, <2>4, OwnersKept
  <1>4. ASSUME NEW n \in Node, NEW cred, NEW consumer, NEW i, ClaimQueuedRequest(n, cred, consumer, i)
        PROVE  TeardownInv'
    <2>1. /\ UNCHANGED <<now, records, pending, former, tombstones, reservations, queued>>
          /\ n \in DOMAIN records /\ i \in Queue(n)
      BY <1>4 DEF ClaimQueuedRequest, Reaped, registry, removed, retained
    <2>2. i \in DOMAIN queued /\ queued[i].node = n
      BY <2>1 DEF IInv, Consistent, IndexExact, QueueIndexed
    <2>3. PICK c : claims' = Put(claims, i, c) /\ c.node = n /\ c.owner = records[n].owner
      BY <1>4 DEF ClaimQueuedRequest
    <2>4. /\ DOMAIN claims' = DOMAIN claims \cup {i} /\ claims'[i] = c
          /\ \A j \in DOMAIN claims : j # i => claims'[j] = claims[j]
      BY <2>3 DEF Put
    <2>5. \A j \in DOMAIN claims' :
              /\ claims'[j].node = queued'[j].node
              /\ \/ /\ j \in DOMAIN claims
                    /\ claims'[j].node = claims[j].node /\ claims'[j].owner = claims[j].owner
                 \/ /\ claims'[j].node \in DOMAIN records
                    /\ claims'[j].owner = records[claims'[j].node].owner
      BY <2>1, <2>2, <2>3, <2>4 DEF TeardownInv, ClaimOwnerCurrent
    <2>6. \A j \in Live' : Work(j)'.node \in DOMAIN records \cup DOMAIN pending
      BY <2>1, WorkKept DEF TeardownInv, NoOrphanWork
    <2> QED BY <1>0, <2>1, <2>5, <2>6, OwnersKept
  <1>5. ASSUME NEW n, NEW cred, NEW consumer, NEW i, NEW gen, RenewClaim(n, cred, consumer, i, gen)
        PROVE  TeardownInv'
    <2>1. UNCHANGED <<now, records, pending, former, tombstones, reservations, queued>>
      BY <1>5 DEF RenewClaim, Reaped, registry, removed, retained
    <2>2. \A j \in DOMAIN claims : claims[j] \in ClaimRecord
      BY DEF IInv, TypeOK, LifecycleTypeOK, Values
    <2>3. /\ DOMAIN claims' = DOMAIN claims
          /\ \A j \in DOMAIN claims : claims'[j].node = claims[j].node /\ claims'[j].owner = claims[j].owner
      BY <1>5, <2>2 DEF RenewClaim, ClaimRecord
    <2>4. \A j \in Live' : Work(j)'.node \in DOMAIN records \cup DOMAIN pending
      BY <2>1, WorkKept DEF TeardownInv, NoOrphanWork
    <2>5. \A j \in DOMAIN claims' : claims'[j].node = queued'[j].node
      BY <2>1, <2>3 DEF TeardownInv, ClaimOwnerCurrent
    <2> QED BY <1>0, <2>1, <2>3, <2>4, <2>5, OwnersKept
  <1>6. ASSUME NEW n, NEW cred, NEW consumer, NEW i, NEW gen, AcknowledgeControl(n, cred, consumer, i, gen)
        PROVE  TeardownInv'
    <2>1. UNCHANGED <<now, records, pending, former, reservations, queued, claims>>
      BY <1>6 DEF AcknowledgeControl, Reaped, registry, removed, lifecycle
    <2>2. \A j \in DOMAIN tombstones : tombstones[j] \in ControlTombstone
      BY DEF IInv, TypeOK, RetainedTypeOK, Values
    <2>3. /\ DOMAIN tombstones' = DOMAIN tombstones
          /\ \A j \in DOMAIN tombstones :
               /\ tombstones'[j].node = tombstones[j].node /\ tombstones'[j].owner = tombstones[j].owner
               /\ tombstones'[j].reason = tombstones[j].reason
               /\ tombstones'[j].expires = tombstones[j].expires
      BY <1>6, <2>2 DEF AcknowledgeControl, ControlTombstone
    <2>4. \A j \in Live' : Work(j)'.node \in DOMAIN records \cup DOMAIN pending
      BY <2>1, WorkKept DEF TeardownInv, NoOrphanWork
    <2>5. \A j \in DOMAIN claims' : claims'[j].node = queued'[j].node
      BY <2>1 DEF TeardownInv, ClaimOwnerCurrent
    <2> QED BY <1>0, <2>1, <2>3, <2>4, <2>5, OwnersKept
  <1>7. ASSUME NEW n, NEW cred, NEW consumer, NEW i, NEW gen, NEW reply,
               AcceptResponse(n, cred, consumer, i, gen, reply)
        PROVE  TeardownInv'
    <2>1. /\ UNCHANGED <<now, records, pending, former, tombstones>>
          /\ i \in Live /\ Forget(i)
      BY <1>7 DEF AcceptResponse, Reaped, registry, removed, Live
    <2>2. \A j \in Live' : Work(j)'.node \in DOMAIN records \cup DOMAIN pending
      BY <2>1, ForgetEffect DEF TeardownInv, NoOrphanWork
    <2>3. \A j \in DOMAIN claims' : /\ claims'[j].node = queued'[j].node /\ j \in DOMAIN claims
                                    /\ claims'[j] = claims[j]
      BY <1>0, <2>1, ForgetEffect DEF TeardownInv, ClaimOwnerCurrent
    <2> QED BY <1>0, <2>1, <2>2, <2>3, OwnersKept
  <1>8. ASSUME NEW i, NEW token, AcknowledgeResponse(i, token) PROVE TeardownInv'
    BY <1>0, <1>8, OwnersIdle DEF AcknowledgeResponse, Reaped, registry, removed, lifecycle
  <1> QED BY <1>1, <1>2, <1>3, <1>4, <1>5, <1>6, <1>7, <1>8, TeardownLoops
          DEF ClientOperation, WorkerOperation

\* Every step keeps the teardown invariant.
LEMMA TeardownNext ==
    ASSUME IInv, TeardownInv, [Next]_vars
    PROVE  TeardownInv'
  <1>0. now \in Nat
    BY DEF IInv, TypeOK, RegistryTypeOK, Time
  <1>1. CASE Reaper
    <2>1. ASSUME NEW n \in Node, LeaseStep(n) PROVE TeardownInv'
      BY <2>1, TeardownBegin DEF LeaseStep, NextExpired, IInv, Consistent, LoopsFresh
    <2>2. ASSUME NEW n \in Node, LeaseStepRaises(n) \/ SweepContinue(n) PROVE TeardownInv'
      BY <1>0, <2>2, OwnersIdle DEF LeaseStepRaises, SweepContinue, ContinueTransition, registry,
                                    removed, lifecycle, retained
    <2> QED BY <1>1, <2>1, <2>2, TeardownEnter, TeardownLoops, TeardownEnd, TeardownRequests DEF Reaper
  <1>2. CASE NodeOperation
    <2>1. ASSUME NEW n, NEW cred, NEW caps, Renew(n, cred, caps) PROVE TeardownInv'
      <3>1. DOMAIN records' = DOMAIN records /\ \A m \in DOMAIN records : records'[m].owner = records[m].owner
        BY <2>1 DEF Renew
      <3> QED BY <1>0, <2>1, <3>1, OwnersIdle DEF Renew, Reaped, removed, lifecycle, retained
    <2>2. ASSUME NEW n, NEW cred, NEW state, SetSchedulerState(n, cred, state) PROVE TeardownInv'
      BY <1>0, <2>2, OwnersIdle DEF SetSchedulerState, Reaped, removed, lifecycle, retained
    <2>3. ASSUME NEW n, NEW cred, NEW cause, UnregisterBegin(n, cred, cause) PROVE TeardownInv'
      BY <2>3, TeardownBegin DEF UnregisterBegin
    <2>4. ASSUME NEW n, NEW cred, NEW cause, UnregisterContinue(n, cred, cause) PROVE TeardownInv'
      BY <1>0, <2>4, OwnersIdle DEF UnregisterContinue, ContinueTransition, registry, removed,
                                    lifecycle, retained
    <2> QED BY <1>2, <2>1, <2>2, <2>3, <2>4, TeardownRegister DEF NodeOperation
  <1>3. CASE Release \/ Tick \/ UNCHANGED vars
    <2>1. /\ now' \in Nat /\ now' >= now
          /\ UNCHANGED <<records, pending, former, reservations, queued, claims, tombstones>>
      BY <1>0, <1>3 DEF Release, Reaped, Tick, vars, registry, removed, lifecycle, retained
    <2> QED BY <2>1, OwnersIdle
  <1> QED BY <1>1, <1>2, <1>3, TeardownRequests DEF Next

\* A node that was just constructed has nothing to tear down.
LEMMA TeardownInit == ASSUME Init PROVE TeardownInv
  <1>1. DOMAIN Empty = {}
    BY DEF Empty
  <1> QED BY <1>1 DEF Init, TeardownInv, NoOrphanWork, ClaimOwnerCurrent, ContinuationNeverFaults,
                      StopsFenced, OwnersUnfenced, Live

\* Teardown is safe.
THEOREM TeardownIsWhole == Spec => []TeardownSafe
  <1>1. Init => TeardownInv
    BY TeardownInit
  <1>2. IInv /\ TeardownInv /\ [Next]_vars => TeardownInv'
    BY TeardownNext
  <1>3. TeardownInv => TeardownSafe
    BY TeardownIsSafe
  <1> QED BY <1>1, <1>2, <1>3, Invariant, PTL DEF Spec
--------------------------------------------------------------------------------
(* The scheduler                                                           *)

\* The next registration gets an order no node has.
OrdersIssued == \A n \in DOMAIN order : order[n] < next_order
SchedulerInv == CursorsLive /\ OrdersIssued

\* A cursor at a tied node turns: the tied node registered next is chosen before it.
LEMMA CursorTurns ==
    ASSUME IInv, SchedulerInv
    PROVE  RotationFair
  <1> SUFFICES ASSUME NEW fp \in DOMAIN cursors, NEW n \in Tied(fp), n = cursors[fp][1],
                      Selected(fp, n), NEW m \in Tied(fp)
               PROVE  m = n
    BY DEF RotationFair
  <1>1. n \in DOMAIN order /\ m \in DOMAIN order /\ n \in DOMAIN records /\ m \in DOMAIN records
    BY DEF Tied, SchedulerInv, CursorsLive
  <1>2. order[n] \in Nat /\ order[m] \in Nat
    BY <1>1 DEF IInv, TypeOK, RegistryTypeOK, Values
  <1>3. CursorOrder(fp) = order[n]
    BY <1>1 DEF CursorOrder
  <1> DEFINE after == {l \in Tied(fp) : order[l] > order[n]}
  <1>4. IF after = {} THEN \A l \in Tied(fp) : order[n] <= order[l] ELSE n \in after
    BY <1>3 DEF Selected
  <1>5. n \notin after
    BY <1>2
  <1>6. after = {} /\ order[n] <= order[m]
    BY <1>4, <1>5
  <1>7. ~(order[m] > order[n])
    BY <1>6
  <1>8. order[m] = order[n]
    BY <1>2, <1>6, <1>7
  <1> QED BY <1>1, <1>8 DEF SchedulerInv, CursorsLive

\* No registration, cursor or activity count changes.
LEMMA SchedulerIdle ==
    ASSUME SchedulerInv, UNCHANGED <<registry, cursors, activity>>
    PROVE  SchedulerInv'
  BY DEF SchedulerInv, CursorsLive, OrdersIssued, registry

\* A removed node takes its scheduler facts, its order and its cursors along.
LEMMA SchedulerBegin ==
    ASSUME SchedulerInv, NEW n, NEW cause, BeginTransition(n, cause)
    PROVE  SchedulerInv'
  <1>1. /\ records' = Drop(records, {n}) /\ sched' = Drop(sched, {n})
        /\ order' = Drop(order, {n}) /\ cursors' = Drop(cursors, CursorsAt(n))
        /\ UNCHANGED <<activity, next_order>>
    BY DEF BeginTransition, counters
  <1>2. /\ DOMAIN records' = DOMAIN records \ {n} /\ DOMAIN sched' = DOMAIN sched \ {n}
        /\ DOMAIN order' = DOMAIN order \ {n}
        /\ \A m \in DOMAIN order' : order'[m] = order[m]
    BY <1>1 DEF Drop
  <1>3. /\ DOMAIN cursors' = DOMAIN cursors \ CursorsAt(n)
        /\ \A f \in DOMAIN cursors' : cursors'[f] = cursors[f]
    BY <1>1 DEF Drop
  <1>4. \A f \in DOMAIN cursors' : cursors'[f][1] \in DOMAIN records' /\ cursors'[f][2] <= activity
    BY <1>2, <1>3 DEF CursorsAt, SchedulerInv, CursorsLive
  <1> QED BY <1>1, <1>2, <1>4 DEF SchedulerInv, CursorsLive, OrdersIssued

\* A new node gets its scheduler facts and the next order; a known one keeps its own.
LEMMA SchedulerRegister ==
    ASSUME IInv, SchedulerInv, NEW n, NEW caps, NEW cred, Register(n, caps, cred)
    PROVE  SchedulerInv'
  <1>1. UNCHANGED <<activity, cursors>> /\ DOMAIN records' = DOMAIN records \cup {n}
    BY DEF Register, counters, Put
  <1>2. CASE n \in DOMAIN records
    <2>1. UNCHANGED <<sched, order, next_order>> /\ DOMAIN records' = DOMAIN records
      BY <1>1, <1>2 DEF Register, RegisterNew, RegisterExisting
    <2> QED BY <1>1, <2>1 DEF SchedulerInv, CursorsLive, OrdersIssued
  <1>3. CASE n \notin DOMAIN records
    <2>1. /\ order' = Put(order, n, next_order) /\ next_order' = next_order + 1
          /\ DOMAIN sched' = DOMAIN sched \cup {n}
      BY <1>3 DEF Register, RegisterNew, RegisterExisting, Put
    <2>2. /\ DOMAIN order' = DOMAIN order \cup {n} /\ order'[n] = next_order
          /\ \A m \in DOMAIN order : order'[m] = order[m]
      BY <1>3, <2>1 DEF Put, SchedulerInv, CursorsLive
    <2>3. next_order \in Nat /\ \A m \in DOMAIN order : order[m] \in Nat /\ order[m] < next_order
      BY DEF IInv, TypeOK, RegistryTypeOK, Values, SchedulerInv, OrdersIssued
    <2>4. OrdersIssued'
      BY <2>1, <2>2, <2>3 DEF OrdersIssued
    <2>5. \A l, m \in DOMAIN records' : order'[l] = order'[m] => l = m
      BY <1>1, <2>2, <2>3 DEF SchedulerInv, CursorsLive
    <2> QED BY <1>1, <2>1, <2>2, <2>4, <2>5 DEF SchedulerInv, CursorsLive
  <1> QED BY <1>2, <1>3

\* The cursor of a selection points at the chosen node.
LEMMA SchedulerSelect ==
    ASSUME IInv, SchedulerInv, NEW i, NEW fp, NEW deadline, NEW ct, NEW n, NEW gone,
           SelectAndReserve(i, fp, deadline, ct, n, gone)
    PROVE  SchedulerInv'
  <1>1. /\ UNCHANGED registry /\ n \in DOMAIN records /\ activity' = activity + 1
        /\ cursors' = Put(Drop(cursors, gone), fp, <<n, activity'>>)
    BY DEF SelectAndReserve
  <1>2. activity \in Nat
    BY DEF IInv, TypeOK, LoopTypeOK
  <1>3. \A f \in DOMAIN cursors : cursors[f] \in Node \X Nat
    BY DEF IInv, TypeOK, RegistryTypeOK, Values
  <1>4. ASSUME NEW f \in DOMAIN cursors'
        PROVE  cursors'[f][1] \in DOMAIN records /\ cursors'[f][2] <= activity'
    <2>1. cursors'[f] = <<n, activity'>> \/ (f \in DOMAIN cursors /\ cursors'[f] = cursors[f])
      BY <1>1 DEF Put, Drop
    <2>2. CASE cursors'[f] = <<n, activity'>>
      BY <1>1, <1>2, <2>2
    <2>3. CASE f \in DOMAIN cursors /\ cursors'[f] = cursors[f]
      BY <1>1, <1>2, <1>3, <2>3 DEF SchedulerInv, CursorsLive
    <2> QED BY <2>1, <2>2, <2>3
  <1> QED BY <1>1, <1>4 DEF SchedulerInv, CursorsLive, OrdersIssued, registry

\* Every step keeps the scheduler's invariant.
LEMMA SchedulerNext ==
    ASSUME IInv, SchedulerInv, [Next]_vars
    PROVE  SchedulerInv'
  <1>1. CASE Reaper
    <2>1. ASSUME NEW n, LeaseStep(n) PROVE SchedulerInv'
      BY <2>1, SchedulerBegin DEF LeaseStep
    <2>2. CASE \E phase \in Phase \ {"free", "ready"} : Enter(phase)
      BY <2>2, SchedulerIdle DEF Enter, counters
    <2>3. CASE \E i \in Identity : DueStep(i) \/ BatchStep(i)
      BY <2>3, SchedulerIdle DEF DueStep, BatchStep, counters
    <2>4. CASE \E n \in Node : LeaseStepRaises(n) \/ SweepContinue(n)
      BY <2>4, SchedulerIdle DEF LeaseStepRaises, SweepContinue, ContinueTransition, counters
    <2>5. CASE EndTransition \/ ReapReservations
      BY <2>5, SchedulerIdle DEF EndTransition, ReapReservations, counters
    <2> QED BY <1>1, <2>1, <2>2, <2>3, <2>4, <2>5 DEF Reaper
  <1>2. CASE NodeOperation
    <2>1. ASSUME NEW n, NEW cred, NEW caps, Renew(n, cred, caps) PROVE SchedulerInv'
      <3>1. UNCHANGED <<sched, order, next_order, activity, cursors>> /\ DOMAIN records' = DOMAIN records
        BY <2>1 DEF Renew, counters
      <3> QED BY <3>1 DEF SchedulerInv, CursorsLive, OrdersIssued
    <2>2. ASSUME NEW n, NEW cred, NEW state, SetSchedulerState(n, cred, state) PROVE SchedulerInv'
      <3>1. UNCHANGED <<records, order, next_order, activity, cursors>> /\ DOMAIN sched' = DOMAIN sched
        BY <2>2 DEF SetSchedulerState, counters
      <3> QED BY <3>1 DEF SchedulerInv, CursorsLive, OrdersIssued
    <2>3. ASSUME NEW n, NEW cred, NEW cause, UnregisterBegin(n, cred, cause) PROVE SchedulerInv'
      BY <2>3, SchedulerBegin DEF UnregisterBegin
    <2>4. ASSUME NEW n, NEW cred, NEW cause, UnregisterContinue(n, cred, cause) PROVE SchedulerInv'
      BY <2>4, SchedulerIdle DEF UnregisterContinue, ContinueTransition, counters
    <2> QED BY <1>2, <2>1, <2>2, <2>3, <2>4, SchedulerRegister DEF NodeOperation
  <1>3. CASE ClientOperation
    <2>1. ASSUME NEW i, NEW fp, NEW deadline, NEW n, NEW token, NEW ct,
                 EnqueueEncryptedRequest(i, fp, deadline, token, n, ct)
          PROVE  SchedulerInv'
      BY <2>1, SchedulerIdle DEF EnqueueEncryptedRequest
    <2>2. ASSUME NEW i, NEW token, AcknowledgeResponse(i, token) PROVE SchedulerInv'
      BY <2>2, SchedulerIdle DEF AcknowledgeResponse, counters
    <2>3. ASSUME NEW i, NEW ct, CancelRequest(i, ct) PROVE SchedulerInv'
      BY <2>3, SchedulerIdle DEF CancelRequest, counters
    <2> QED BY <1>3, <2>1, <2>2, <2>3, SchedulerSelect DEF ClientOperation
  <1>4. CASE WorkerOperation
    <2>1. ASSUME NEW n, NEW cred, NEW consumer, NEW i, ClaimQueuedRequest(n, cred, consumer, i)
          PROVE  SchedulerInv'
      BY <2>1, SchedulerIdle DEF ClaimQueuedRequest
    <2>2. ASSUME NEW n, NEW cred, NEW consumer, NEW i, NEW gen,
                 \/ RenewClaim(n, cred, consumer, i, gen)
                 \/ AcknowledgeControl(n, cred, consumer, i, gen)
                 \/ \E reply \in Reply : AcceptResponse(n, cred, consumer, i, gen, reply)
          PROVE  SchedulerInv'
      BY <2>2, SchedulerIdle DEF RenewClaim, AcknowledgeControl, AcceptResponse, counters
    <2> QED BY <1>4, <2>1, <2>2 DEF WorkerOperation
  <1>5. CASE Release \/ Tick \/ UNCHANGED vars
    BY <1>5, SchedulerIdle DEF Release, Tick, vars, counters
  <1> QED BY <1>1, <1>2, <1>3, <1>4, <1>5 DEF Next

\* Round robin of select_and_reserve: at every step each cursor names a registered node,
\* and the node served last is chosen again only when no other node ties with it, however
\* registrations, evictions and load changes interleave with the selections.
THEOREM RoundRobinIsFair == Spec => []SchedulerSound
  <1>1. Init => SchedulerInv
    BY DEF Init, Empty, SchedulerInv, CursorsLive, OrdersIssued
  <1>2. IInv /\ SchedulerInv => SchedulerSound
    BY CursorTurns DEF SchedulerInv, SchedulerSound
  <1>3. IInv /\ SchedulerInv /\ [Next]_vars => SchedulerInv'
    BY SchedulerNext
  <1> QED BY <1>1, <1>2, <1>3, Invariant, PTL DEF Spec
--------------------------------------------------------------------------------
(* What is retained after a decision                                       *)

\* A response is replayed no longer than its terminal record is kept.
ReplaysCovered == \A i \in DOMAIN responses : responses[i].replay_expires <= terminals[i].expires

\* A claim knows the deadline of its request, and its lease does not go beyond it.
ClaimsCovered ==
    \A i \in DOMAIN claims :
        /\ claims[i].deadline = queued[i].deadline
        /\ claims[i].lease <= claims[i].deadline
        /\ claims[i].lease <= now + config["claim_ttl"]
        /\ claims[i].generation <= generation

\* The reaper's list holds due work only, and while it runs it has found all of it.
DuesFound ==
    /\ \A i \in due : Work(i).deadline <= now
    /\ lock = "reap" => \A i \in Live : Work(i).deadline <= now => i \in due \cup deferred

KeptInv ==
    /\ ReplayConsistent /\ ReplaysCovered
    /\ FreshLifecycleUnstopped /\ DeferredStillDue /\ ClaimsCovered
OutcomeInv == KeptInv /\ DuesFound

\* The times and ends that the comparisons of this section are about.
LEMMA TimesTyped ==
    ASSUME IInv
    PROVE  /\ now \in Nat /\ generation \in Nat
           /\ \A i \in Live : Work(i).deadline \in Nat
           /\ \A i \in DOMAIN queued : queued[i].deadline \in Nat
           /\ \A i \in DOMAIN claims : /\ claims[i].lease \in Nat /\ claims[i].deadline \in Nat
                                       /\ claims[i].generation \in Nat
           /\ \A i \in DOMAIN responses : responses[i].replay_expires \in Nat
           /\ \A i \in DOMAIN terminals : terminals[i].expires \in Nat
           /\ \A i \in DOMAIN tombstones : tombstones[i].expires \in Nat
           /\ config["claim_ttl"] \in Nat /\ config["terminal_retention"] \in Nat
           /\ config["response_replay_ttl"] \in Nat /\ config["control_tombstone_ttl"] \in Nat
           /\ config["response_replay_ttl"] <= config["terminal_retention"]
           /\ config["control_tombstone_ttl"] <= config["terminal_retention"]
  <1>1. \A i \in DOMAIN queued : queued[i] \in QueuedRequest
    BY DEF IInv, TypeOK, LifecycleTypeOK, Values
  <1>2. \A i \in DOMAIN reservations : reservations[i] \in Reservation
    BY DEF IInv, TypeOK, LifecycleTypeOK, Values
  <1>3. \A i \in DOMAIN claims : claims[i] \in ClaimRecord
    BY DEF IInv, TypeOK, LifecycleTypeOK, Values
  <1>4. \A i \in DOMAIN responses : responses[i] \in ResponseRecord
    BY DEF IInv, TypeOK, RetainedTypeOK, Values
  <1>5. \A i \in DOMAIN terminals : terminals[i] \in TerminalRecord
    BY DEF IInv, TypeOK, RetainedTypeOK, Values
  <1>6. \A i \in DOMAIN tombstones : tombstones[i] \in ControlTombstone
    BY DEF IInv, TypeOK, RetainedTypeOK, Values
  <1>7. now \in Nat /\ generation \in Nat
    BY DEF IInv, TypeOK, RegistryTypeOK, LoopTypeOK, Time
  <1>8. \A i \in Live : Work(i).deadline \in Nat
    BY <1>1, <1>2 DEF Live, Work, QueuedRequest, Reservation, Time
  <1>9. /\ \A f \in ConfigField : config[f] \in Nat
        /\ config["response_replay_ttl"] <= config["terminal_retention"]
        /\ config["control_tombstone_ttl"] <= config["terminal_retention"]
    BY ConfigAssumption DEF ConfigValid, Positive, ConfigField
  <1>10. /\ config["claim_ttl"] \in Nat /\ config["terminal_retention"] \in Nat
         /\ config["response_replay_ttl"] \in Nat /\ config["control_tombstone_ttl"] \in Nat
    BY <1>9 DEF ConfigField
  <1>11. \A i \in DOMAIN queued : queued[i].deadline \in Nat
    BY <1>1 DEF QueuedRequest, Time
  <1>12. \A i \in DOMAIN claims : /\ claims[i].lease \in Nat /\ claims[i].deadline \in Nat
                                  /\ claims[i].generation \in Nat
    BY <1>3 DEF ClaimRecord, Time
  <1>13. \A i \in DOMAIN responses : responses[i].replay_expires \in Nat
    BY <1>4 DEF ResponseRecord, Time
  <1>14. \A i \in DOMAIN terminals : terminals[i].expires \in Nat
    BY <1>5 DEF TerminalRecord, Time
  <1>15. \A i \in DOMAIN tombstones : tombstones[i].expires \in Nat
    BY <1>6 DEF ControlTombstone, Time
  <1> QED BY <1>7, <1>8, <1>9, <1>10, <1>11, <1>12, <1>13, <1>14, <1>15

\* Fewer claims, and the same ones, stay covered as time and generations go on.
LEMMA ClaimsStayCovered ==
    ASSUME IInv, ClaimsCovered, now' \in Nat, now' >= now, generation' \in Nat, generation' >= generation,
           \A j \in DOMAIN claims' :
              /\ j \in DOMAIN claims /\ claims'[j] = claims[j]
              /\ queued'[j].deadline = queued[j].deadline
    PROVE  ClaimsCovered'
  <1> SUFFICES ASSUME NEW j \in DOMAIN claims'
               PROVE  /\ claims'[j].deadline = queued'[j].deadline
                      /\ claims'[j].lease <= claims'[j].deadline
                      /\ claims'[j].lease <= now' + config["claim_ttl"]
                      /\ claims'[j].generation <= generation'
    BY DEF ClaimsCovered
  <1>1. /\ claims[j].lease \in Nat /\ claims[j].generation \in Nat /\ now \in Nat /\ generation \in Nat
        /\ config["claim_ttl"] \in Nat
    BY TimesTyped
  <1> QED BY <1>1 DEF ClaimsCovered

\* Nothing live, claimed or retained changes while time goes on.
LEMMA KeptIdle ==
    ASSUME IInv, KeptInv, now' \in Nat, now' >= now,
           UNCHANGED <<reservations, queued, claims, deferred, responses, terminals, tombstones,
                       generation>>
    PROVE  KeptInv'
  <1>1. Live' = Live /\ \A j \in Live : Work(j)' = Work(j)
    BY WorkKept
  <1>2. ReplayConsistent' /\ ReplaysCovered'
    BY DEF KeptInv, ReplayConsistent, ReplaysCovered
  <1>3. FreshLifecycleUnstopped'
    BY <1>1 DEF KeptInv, FreshLifecycleUnstopped
  <1>4. DeferredStillDue'
    <2> SUFFICES ASSUME NEW j \in deferred PROVE j \in Live' /\ Work(j)'.deadline <= now'
      BY DEF DeferredStillDue
    <2>1. j \in Live /\ Work(j).deadline <= now
      BY DEF KeptInv, DeferredStillDue
    <2>2. Work(j).deadline \in Nat /\ now \in Nat
      BY <2>1, TimesTyped
    <2> QED BY <1>1, <2>1, <2>2
  <1>5. ClaimsCovered'
    BY TimesTyped, ClaimsStayCovered DEF KeptInv
  <1> QED BY <1>2, <1>3, <1>4, <1>5 DEF KeptInv

\* A forgotten identity takes its claim along.
LEMMA ClaimsForget ==
    ASSUME IInv, ClaimsCovered, NEW i \in Live, Forget(i), UNCHANGED <<now, generation>>
    PROVE  ClaimsCovered'
  <1>1. /\ DOMAIN claims' = DOMAIN claims \ {i} /\ DOMAIN queued' = DOMAIN queued \ {i}
        /\ \A j \in DOMAIN claims' : claims'[j] = claims[j]
        /\ \A j \in DOMAIN queued' : queued'[j] = queued[j]
    BY ForgetEffect
  <1>2. DOMAIN claims \subseteq DOMAIN queued
    BY DEF IInv, Consistent, LifecycleExclusive
  <1> QED BY <1>1, <1>2, TimesTyped, ClaimsStayCovered

\* A decision adds a terminal record that covers its stop instruction.
LEMMA KeptTerminalize ==
    ASSUME IInv, KeptInv, NEW i \in Live, NEW status, NEW reason, NEW force,
           Terminalize(i, status, reason, force), UNCHANGED <<now, generation>>
    PROVE  KeptInv'
  <1>0. i \notin DOMAIN terminals
    BY DEF IInv, Consistent, LifecycleExclusive
  <1>1. /\ Forget(i) /\ responses' = responses
        /\ DOMAIN terminals' = DOMAIN terminals \cup {i}
        /\ \A j \in DOMAIN terminals : terminals'[j] = terminals[j]
        /\ terminals'[i].outcome = status
        /\ terminals'[i].retrieval_state = "completed_unavailable"
        /\ terminals'[i].expires = now + config["terminal_retention"]
        /\ \A j \in DOMAIN tombstones : j # i => tombstones'[j] = tombstones[j]
    BY TerminalizeEffect
  <1>2. deferred' = deferred \ {i}
    BY DEF Terminalize
  <1>3. i \notin DOMAIN responses /\ i \notin DOMAIN tombstones
    BY <1>0 DEF KeptInv, ReplayConsistent, FreshLifecycleUnstopped
  <1>4. Live' = Live \ {i} /\ \A j \in Live' : Work(j)' = Work(j)
    BY <1>1, ForgetEffect
  <1>5. ReplayConsistent' /\ ReplaysCovered'
    <2>1. DOMAIN responses \subseteq DOMAIN terminals
      BY DEF KeptInv, ReplayConsistent
    <2>2. ReplayConsistent'
      BY <1>0, <1>1, <1>3, <2>1 DEF KeptInv, ReplayConsistent
    <2> QED BY <1>1, <2>1, <2>2 DEF KeptInv, ReplaysCovered
  <1>6. ASSUME NEW j \in DOMAIN tombstones'
        PROVE  /\ j \in DOMAIN terminals' /\ j \notin Live'
               /\ tombstones'[j].expires <= terminals'[j].expires
               /\ tombstones'[j].status = terminals'[j].outcome
               /\ tombstones'[j].generation = terminals'[j].generation
    <2>1. CASE j \in DOMAIN tombstones
      BY <1>1, <1>3, <1>4, <2>1 DEF KeptInv, FreshLifecycleUnstopped
    <2>2. CASE j \notin DOMAIN tombstones
      <3>1. TombstonedClaim(i, status, force)
        BY <1>6, <2>2, TerminalizeEffect
      <3>2. /\ DOMAIN tombstones' = DOMAIN tombstones \cup {i}
            /\ tombstones'[i].expires = now + config["control_tombstone_ttl"]
            /\ tombstones'[i].status = status
            /\ tombstones'[i].generation = claims[i].generation
            /\ terminals'[i].generation = claims[i].generation
        BY <3>1, StopEffect
      <3>3. j = i
        BY <1>6, <2>2, <3>2
      <3>4. tombstones'[i].expires <= terminals'[i].expires
        BY <1>1, <3>2, TimesTyped
      <3> QED BY <1>1, <1>4, <3>2, <3>3, <3>4
    <2> QED BY <2>1, <2>2
  <1>7. FreshLifecycleUnstopped'
    BY <1>6 DEF FreshLifecycleUnstopped
  <1>8. DeferredStillDue'
    BY <1>2, <1>4 DEF KeptInv, DeferredStillDue
  <1>9. ClaimsCovered'
    BY <1>1, ClaimsForget DEF KeptInv
  <1> QED BY <1>5, <1>7, <1>8, <1>9 DEF KeptInv

\* Reaping the retained records drops a response or a stop instruction no later than
\* the terminal record it belongs to.
LEMMA KeptEnter ==
    ASSUME IInv, KeptInv, NEW phase, Enter(phase)
    PROVE  KeptInv'
  <1>0. /\ UNCHANGED <<now, reservations, queued, claims, deferred, generation>>
        /\ responses' = Drop(responses, {i \in DOMAIN responses : ReplayOver(i)})
        /\ terminals' = [i \in {j \in DOMAIN terminals : TerminalKept(j)} |-> ReapedTerminal(i)]
        /\ tombstones' =
             Drop(tombstones, {i \in DOMAIN tombstones : tombstones[i].expires <= now})
    BY DEF Enter, ReapRetained, lifecycle, counters
  <1>1. /\ DOMAIN responses' = {i \in DOMAIN responses : ~ReplayOver(i)}
        /\ \A i \in DOMAIN responses' : responses'[i] = responses[i]
    BY <1>0 DEF Drop
  <1>2. /\ DOMAIN terminals' = {i \in DOMAIN terminals : TerminalKept(i)}
        /\ \A i \in DOMAIN terminals' : terminals'[i] = ReapedTerminal(i)
    BY <1>0
  <1>3. /\ DOMAIN tombstones' = {i \in DOMAIN tombstones : ~(tombstones[i].expires <= now)}
        /\ \A i \in DOMAIN tombstones' : tombstones'[i] = tombstones[i]
    BY <1>0 DEF Drop
  <1>4. ASSUME NEW i \in DOMAIN terminals
        PROVE  /\ ReapedTerminal(i).expires = terminals[i].expires
               /\ ReapedTerminal(i).digest = terminals[i].digest
               /\ ReapedTerminal(i).generation = terminals[i].generation
               /\ ReapedTerminal(i).outcome = terminals[i].outcome
               /\ ReapedTerminal(i).retrieval_state =
                    IF i \in DOMAIN responses /\ ReplayOver(i)
                       /\ terminals[i].retrieval_state = "response_ready"
                    THEN "retrieval_expired" ELSE terminals[i].retrieval_state
    <2>1. terminals[i] \in TerminalRecord
      BY DEF IInv, TypeOK, RetainedTypeOK, Values
    <2> QED BY <2>1 DEF ReapedTerminal, TerminalRecord
  <1>5. \A i \in DOMAIN responses' : i \in DOMAIN terminals /\ TerminalKept(i)
    <2> SUFFICES ASSUME NEW i \in DOMAIN responses' PROVE i \in DOMAIN terminals /\ TerminalKept(i)
      OBVIOUS
    <2>1. i \in DOMAIN responses /\ i \in DOMAIN terminals
      BY <1>1 DEF KeptInv, ReplayConsistent
    <2>2. responses[i].replay_expires <= terminals[i].expires /\ ~(responses[i].replay_expires <= now)
      BY <1>1, <2>1 DEF KeptInv, ReplaysCovered, ReplayOver
    <2>3. responses[i].replay_expires \in Nat /\ terminals[i].expires \in Nat /\ now \in Nat
      BY <2>1, TimesTyped
    <2> QED BY <2>1, <2>2, <2>3 DEF TerminalKept
  <1>6. ReplayConsistent'
    <2>1. ASSUME NEW i
          PROVE  i \in DOMAIN responses' <=>
                   i \in DOMAIN terminals' /\ terminals'[i].retrieval_state = "response_ready"
      BY <1>1, <1>2, <1>4, <1>5 DEF KeptInv, ReplayConsistent
    <2>2. ASSUME NEW i \in DOMAIN responses'
          PROVE  /\ responses'[i].digest = terminals'[i].digest
                 /\ responses'[i].generation = terminals'[i].generation
                 /\ terminals'[i].outcome = "completed"
      BY <1>1, <1>2, <1>4, <1>5 DEF KeptInv, ReplayConsistent
    <2> QED BY <2>1, <2>2 DEF ReplayConsistent
  <1>7. ReplaysCovered'
    <2> SUFFICES ASSUME NEW i \in DOMAIN responses'
                 PROVE  responses'[i].replay_expires <= terminals'[i].expires
      BY DEF ReplaysCovered
    <2> QED BY <1>1, <1>2, <1>4, <1>5 DEF KeptInv, ReplaysCovered
  <1>8. Live' = Live /\ \A j \in Live : Work(j)' = Work(j)
    BY <1>0, WorkKept
  <1>9. FreshLifecycleUnstopped'
    <2> SUFFICES ASSUME NEW i \in DOMAIN tombstones'
                 PROVE  /\ i \in DOMAIN terminals' /\ i \notin Live'
                        /\ tombstones'[i].expires <= terminals'[i].expires
                        /\ tombstones'[i].status = terminals'[i].outcome
                        /\ tombstones'[i].generation = terminals'[i].generation
      BY DEF FreshLifecycleUnstopped
    <2>1. /\ i \in DOMAIN tombstones /\ i \in DOMAIN terminals /\ i \notin Live
          /\ tombstones[i].expires <= terminals[i].expires
          /\ tombstones[i].status = terminals[i].outcome
          /\ tombstones[i].generation = terminals[i].generation
          /\ ~(tombstones[i].expires <= now) /\ tombstones'[i] = tombstones[i]
      BY <1>3 DEF KeptInv, FreshLifecycleUnstopped
    <2>2. tombstones[i].expires \in Nat /\ terminals[i].expires \in Nat /\ now \in Nat
      BY <2>1, TimesTyped
    <2>3. TerminalKept(i)
      BY <2>1, <2>2 DEF TerminalKept
    <2> QED BY <1>2, <1>4, <1>8, <2>1, <2>3
  <1>10. DeferredStillDue'
    BY <1>0, <1>8 DEF KeptInv, DeferredStillDue
  <1>11. ClaimsCovered'
    BY <1>0, TimesTyped, ClaimsStayCovered DEF KeptInv
  <1> QED BY <1>6, <1>7, <1>9, <1>10, <1>11 DEF KeptInv

\* A new lifecycle starts under an identity that retains nothing.
LEMMA KeptSelect ==
    ASSUME IInv, KeptInv, NEW i, NEW fp, NEW deadline, NEW ct, NEW n, NEW gone,
           SelectAndReserve(i, fp, deadline, ct, n, gone)
    PROVE  KeptInv'
  <1>0. /\ UNCHANGED <<now, deferred, responses, terminals, tombstones, generation>>
        /\ i \notin DOMAIN terminals
    BY DEF SelectAndReserve, Reaped, retained
  <1>1. /\ Live' = Live \cup {i} /\ \A j \in Live : Work(j)' = Work(j)
        /\ UNCHANGED <<queued, claims>>
    BY SelectEffect
  <1>2. ReplayConsistent' /\ ReplaysCovered'
    BY <1>0 DEF KeptInv, ReplayConsistent, ReplaysCovered
  <1>3. FreshLifecycleUnstopped'
    BY <1>0, <1>1 DEF KeptInv, FreshLifecycleUnstopped
  <1>4. DeferredStillDue'
    BY <1>0, <1>1 DEF KeptInv, DeferredStillDue
  <1>5. ClaimsCovered'
    BY <1>0, <1>1 DEF KeptInv, ClaimsCovered
  <1> QED BY <1>2, <1>3, <1>4, <1>5 DEF KeptInv

\* Queued work keeps its deadline.
LEMMA KeptEnqueue ==
    ASSUME IInv, KeptInv, NEW i, NEW fp, NEW deadline, NEW token, NEW n, NEW ct,
           EnqueueEncryptedRequest(i, fp, deadline, token, n, ct)
    PROVE  KeptInv'
  <1>0. UNCHANGED <<now, deferred, responses, terminals, tombstones, generation>>
    BY DEF EnqueueEncryptedRequest, Reaped, retained
  <1>1. /\ Live' = Live /\ \A j \in Live : Work(j)'.deadline = Work(j).deadline
        /\ \A j \in DOMAIN queued : queued'[j] = queued[j]
        /\ UNCHANGED claims
    BY EnqueueEffect
  <1>2. ReplayConsistent' /\ ReplaysCovered'
    BY <1>0 DEF KeptInv, ReplayConsistent, ReplaysCovered
  <1>3. FreshLifecycleUnstopped'
    BY <1>0, <1>1 DEF KeptInv, FreshLifecycleUnstopped
  <1>4. DeferredStillDue'
    BY <1>0, <1>1 DEF KeptInv, DeferredStillDue
  <1>5. DOMAIN claims \subseteq DOMAIN queued
    BY DEF IInv, Consistent, LifecycleExclusive
  <1>6. ClaimsCovered'
    BY <1>0, <1>1, <1>5 DEF KeptInv, ClaimsCovered
  <1> QED BY <1>2, <1>3, <1>4, <1>6 DEF KeptInv

\* A deferred deadline keeps its reservation out of the stale ones.
LEMMA KeptReapReservations ==
    ASSUME IInv, KeptInv, ReapReservations
    PROVE  KeptInv'
  <1>0. UNCHANGED <<now, deferred, responses, terminals, tombstones, generation>>
    BY DEF ReapReservations, retained, counters
  <1>1. /\ Live' = Live \ {i \in DOMAIN reservations : StaleReservation(i)}
        /\ \A j \in Live' : Work(j)' = Work(j)
        /\ UNCHANGED <<queued, claims>>
    BY ReapReservationsEffect
  <1>2. ReplayConsistent' /\ ReplaysCovered'
    BY <1>0 DEF KeptInv, ReplayConsistent, ReplaysCovered
  <1>3. FreshLifecycleUnstopped'
    BY <1>0, <1>1 DEF KeptInv, FreshLifecycleUnstopped
  <1>4. DeferredStillDue'
    BY <1>0, <1>1 DEF KeptInv, DeferredStillDue, StaleReservation
  <1>5. ClaimsCovered'
    BY <1>0, <1>1 DEF KeptInv, ClaimsCovered
  <1> QED BY <1>2, <1>3, <1>4, <1>5 DEF KeptInv

\* The claim that is made.
LEMMA ClaimEffect ==
    ASSUME IInv, NEW n, NEW cred, NEW consumer, NEW i, ClaimQueuedRequest(n, cred, consumer, i)
    PROVE  \E c : /\ claims' = Put(claims, i, c)
                  /\ c.deadline = queued[i].deadline /\ c.generation = generation + 1
                  /\ c.lease = Min2(now + config["claim_ttl"], queued[i].deadline)
                  /\ c.node = n
                  /\ i \in DOMAIN queued /\ i \notin ActiveClaims
                  /\ generation' = generation + 1
                  /\ UNCHANGED <<now, reservations, queued, deferred, responses, terminals,
                                 tombstones>>
  <1> DEFINE c == [consumer |-> consumer, node |-> n, owner |-> records[n].owner,
                   deadline |-> queued[i].deadline, generation |-> generation',
                   lease |-> Min2(now + config["claim_ttl"], queued[i].deadline)]
  <1>1. /\ claims' = Put(claims, i, c) /\ generation' = generation + 1
        /\ i \in Queue(n) /\ n \in DOMAIN records /\ Claimable(i)
        /\ UNCHANGED <<now, reservations, queued, deferred, responses, terminals, tombstones>>
    BY DEF ClaimQueuedRequest, Reaped, retained
  <1>2. /\ c.deadline = queued[i].deadline /\ c.generation = generation + 1 /\ c.node = n
        /\ c.lease = Min2(now + config["claim_ttl"], queued[i].deadline)
    BY <1>1
  <1> HIDE DEF c
  <1>3. i \in DOMAIN queued
    <2>1. n \in Node
      BY <1>1 DEF IInv, TypeOK, RegistryTypeOK, IsMap
    <2> QED BY <1>1, <2>1 DEF IInv, Consistent, IndexExact, QueueIndexed
  <1> QED BY <1>1, <1>2, <1>3 DEF Claimable

\* A claim starts with the deadline of its request and a new generation.
LEMMA KeptClaim ==
    ASSUME IInv, KeptInv, NEW n, NEW cred, NEW consumer, NEW i,
           ClaimQueuedRequest(n, cred, consumer, i)
    PROVE  KeptInv'
  <1>0. PICK c : /\ claims' = Put(claims, i, c)
                 /\ c.deadline = queued[i].deadline /\ c.generation = generation + 1
                 /\ c.lease = Min2(now + config["claim_ttl"], queued[i].deadline)
                 /\ i \in DOMAIN queued /\ generation' = generation + 1
                 /\ UNCHANGED <<now, reservations, queued, deferred, responses, terminals,
                                tombstones>>
    BY ClaimEffect
  <1>1. /\ i \in DOMAIN queued /\ DOMAIN claims' = DOMAIN claims \cup {i}
        /\ \A j \in DOMAIN claims : j # i => claims'[j] = claims[j]
        /\ claims'[i].deadline = queued[i].deadline /\ claims'[i].generation = generation + 1
        /\ claims'[i].lease = Min2(now + config["claim_ttl"], queued[i].deadline)
        /\ generation' = generation + 1
        /\ UNCHANGED <<now, reservations, queued, deferred, responses, terminals, tombstones>>
    BY <1>0 DEF Put
  <1>2. Live' = Live /\ \A j \in Live : Work(j)' = Work(j)
    BY <1>1, WorkKept
  <1>3. ReplayConsistent' /\ ReplaysCovered'
    BY <1>1 DEF KeptInv, ReplayConsistent, ReplaysCovered
  <1>4. FreshLifecycleUnstopped' /\ DeferredStillDue'
    BY <1>1, <1>2 DEF KeptInv, FreshLifecycleUnstopped, DeferredStillDue
  <1>5. ASSUME NEW j \in DOMAIN claims'
        PROVE  /\ claims'[j].deadline = queued'[j].deadline
               /\ claims'[j].lease <= claims'[j].deadline
               /\ claims'[j].lease <= now' + config["claim_ttl"]
               /\ claims'[j].generation <= generation'
    <2>0. /\ now \in Nat /\ generation \in Nat /\ queued[i].deadline \in Nat
          /\ config["claim_ttl"] \in Nat
      BY <1>1, TimesTyped
    <2>1. CASE j = i
      BY <1>1, <2>0, <2>1 DEF Min2
    <2>2. CASE j # i
      <3>1. claims[j].generation \in Nat
        BY <1>1, <2>2, TimesTyped
      <3> QED BY <1>1, <2>0, <2>2, <3>1 DEF KeptInv, ClaimsCovered
    <2> QED BY <2>1, <2>2
  <1>6. ClaimsCovered'
    BY <1>5 DEF ClaimsCovered
  <1> QED BY <1>3, <1>4, <1>6 DEF KeptInv

\* A renewed lease.
LEMMA RenewEffect ==
    ASSUME IInv, NEW n, NEW cred, NEW consumer, NEW i, NEW gen, RenewClaim(n, cred, consumer, i, gen)
    PROVE  /\ i \in DOMAIN claims /\ DOMAIN claims' = DOMAIN claims
           /\ \A j \in DOMAIN claims : /\ claims'[j].deadline = claims[j].deadline
                                       /\ claims'[j].generation = claims[j].generation
                                       /\ claims'[j].node = claims[j].node
                                       /\ claims'[j].owner = claims[j].owner
                                       /\ j # i => claims'[j].lease = claims[j].lease
           /\ claims'[i].lease = Min2(now + config["claim_ttl"], claims[i].deadline)
           /\ claims[i].lease > now
           /\ UNCHANGED <<now, reservations, queued, deferred, responses, terminals, tombstones,
                          generation>>
  <1>1. /\ claims' = [claims EXCEPT ![i].lease = Min2(now + config["claim_ttl"], claims[i].deadline)]
        /\ i \in DOMAIN claims /\ claims[i].lease > now
        /\ UNCHANGED <<now, reservations, queued, deferred, responses, terminals, tombstones,
                       generation>>
    BY DEF RenewClaim, Reaped, HoldsClaim, retained, counters
  <1>2. \A j \in DOMAIN claims : claims[j] \in ClaimRecord
    BY DEF IInv, TypeOK, LifecycleTypeOK, Values
  <1>3. \A j \in DOMAIN claims : /\ claims'[j].deadline = claims[j].deadline
                                 /\ claims'[j].generation = claims[j].generation
                                 /\ claims'[j].node = claims[j].node
                                 /\ claims'[j].owner = claims[j].owner
                                 /\ j # i => claims'[j].lease = claims[j].lease
    BY <1>1, <1>2 DEF ClaimRecord
  <1>4. claims'[i].lease = Min2(now + config["claim_ttl"], claims[i].deadline)
    BY <1>1, <1>2 DEF ClaimRecord
  <1> QED BY <1>1, <1>3, <1>4

\* A renewed lease ends no later than its request.
LEMMA KeptRenew ==
    ASSUME IInv, KeptInv, NEW n, NEW cred, NEW consumer, NEW i, NEW gen,
           RenewClaim(n, cred, consumer, i, gen)
    PROVE  KeptInv'
  <1>1. /\ i \in DOMAIN claims /\ DOMAIN claims' = DOMAIN claims
        /\ \A j \in DOMAIN claims : /\ claims'[j].deadline = claims[j].deadline
                                    /\ claims'[j].generation = claims[j].generation
                                    /\ j # i => claims'[j].lease = claims[j].lease
        /\ claims'[i].lease = Min2(now + config["claim_ttl"], claims[i].deadline)
        /\ UNCHANGED <<now, reservations, queued, deferred, responses, terminals, tombstones,
                       generation>>
    BY RenewEffect
  <1>2. Live' = Live /\ \A j \in Live : Work(j)' = Work(j)
    BY <1>1, WorkKept
  <1>3. ReplayConsistent' /\ ReplaysCovered'
    BY <1>1 DEF KeptInv, ReplayConsistent, ReplaysCovered
  <1>4. FreshLifecycleUnstopped' /\ DeferredStillDue'
    BY <1>1, <1>2 DEF KeptInv, FreshLifecycleUnstopped, DeferredStillDue
  <1>5. ASSUME NEW j \in DOMAIN claims'
        PROVE  /\ claims'[j].deadline = queued'[j].deadline
               /\ claims'[j].lease <= claims'[j].deadline
               /\ claims'[j].lease <= now' + config["claim_ttl"]
               /\ claims'[j].generation <= generation'
    <2>0. /\ now \in Nat /\ claims[i].deadline \in Nat /\ config["claim_ttl"] \in Nat
      BY <1>1, TimesTyped
    <2>1. CASE j = i
      BY <1>1, <2>0, <2>1 DEF Min2, KeptInv, ClaimsCovered
    <2>2. CASE j # i
      BY <1>1, <2>2 DEF KeptInv, ClaimsCovered
    <2> QED BY <2>1, <2>2
  <1>6. ClaimsCovered'
    BY <1>5 DEF ClaimsCovered
  <1> QED BY <1>3, <1>4, <1>6 DEF KeptInv

\* An acknowledged stop instruction keeps everything but its mark.
LEMMA KeptControl ==
    ASSUME IInv, KeptInv, NEW n, NEW cred, NEW consumer, NEW i, NEW gen,
           AcknowledgeControl(n, cred, consumer, i, gen)
    PROVE  KeptInv'
  <1>1. /\ tombstones' = [tombstones EXCEPT ![i].acknowledged = TRUE]
        /\ UNCHANGED <<now, reservations, queued, claims, deferred, responses, terminals, generation>>
    BY DEF AcknowledgeControl, Reaped, lifecycle, counters
  <1>2. \A j \in DOMAIN tombstones : tombstones[j] \in ControlTombstone
    BY DEF IInv, TypeOK, RetainedTypeOK, Values
  <1>3. /\ DOMAIN tombstones' = DOMAIN tombstones
        /\ \A j \in DOMAIN tombstones : /\ tombstones'[j].expires = tombstones[j].expires
                                        /\ tombstones'[j].status = tombstones[j].status
                                        /\ tombstones'[j].generation = tombstones[j].generation
    BY <1>1, <1>2 DEF ControlTombstone
  <1>4. Live' = Live /\ \A j \in Live : Work(j)' = Work(j)
    BY <1>1, WorkKept
  <1>5. FreshLifecycleUnstopped'
    BY <1>1, <1>3, <1>4 DEF KeptInv, FreshLifecycleUnstopped
  <1>6. ReplayConsistent' /\ ReplaysCovered' /\ ClaimsCovered'
    BY <1>1 DEF KeptInv, ReplayConsistent, ReplaysCovered, ClaimsCovered
  <1>7. DeferredStillDue'
    BY <1>1, <1>4 DEF KeptInv, DeferredStillDue
  <1> QED BY <1>5, <1>6, <1>7 DEF KeptInv

\* The response that is accepted and the terminal record that promises it.
LEMMA AcceptEffect ==
    ASSUME IInv, NEW n, NEW cred, NEW consumer, NEW i, NEW gen, NEW reply,
           AcceptResponse(n, cred, consumer, i, gen, reply)
    PROVE  \E r, t :
           /\ responses' = Put(responses, i, r) /\ terminals' = Put(terminals, i, t)
           /\ r.digest = t.digest /\ r.generation = t.generation
           /\ r.generation = claims[i].generation
           /\ r.replay_expires = now + config["response_replay_ttl"]
           /\ t.outcome = "completed" /\ t.retrieval_state = "response_ready"
           /\ t.expires = now + config["terminal_retention"]
           /\ Forget(i) /\ i \in Live /\ i \in DOMAIN queued /\ i \in DOMAIN claims
           /\ i \notin DOMAIN terminals /\ claims[i].deadline > now
           /\ UNCHANGED <<now, deferred, tombstones, generation>>
  <1>1. /\ Forget(i) /\ i \in DOMAIN queued /\ i \in DOMAIN claims /\ i \notin DOMAIN terminals
        /\ claims[i].generation = gen /\ claims[i].deadline > now
        /\ UNCHANGED <<now, deferred, tombstones, generation>>
    BY DEF AcceptResponse, Reaped, HoldsClaim, counters
  <1>2. PICK r : /\ responses' = Put(responses, i, r)
                 /\ r.digest = reply /\ r.generation = gen
                 /\ r.replay_expires = now + config["response_replay_ttl"]
    BY DEF AcceptResponse
  <1>3. PICK t : /\ terminals' = Put(terminals, i, t)
                 /\ t.digest = reply /\ t.generation = gen /\ t.outcome = "completed"
                 /\ t.retrieval_state = "response_ready"
                 /\ t.expires = now + config["terminal_retention"]
    BY DEF AcceptResponse
  <1>4. i \in Live
    BY <1>1 DEF Live
  <1> QED BY <1>1, <1>2, <1>3, <1>4

\* An accepted response comes with the terminal record that promises it.
LEMMA KeptAccept ==
    ASSUME IInv, KeptInv, NEW n, NEW cred, NEW consumer, NEW i, NEW gen, NEW reply,
           AcceptResponse(n, cred, consumer, i, gen, reply)
    PROVE  KeptInv'
  <1>0. PICK r, t :
           /\ responses' = Put(responses, i, r) /\ terminals' = Put(terminals, i, t)
           /\ r.digest = t.digest /\ r.generation = t.generation
           /\ r.replay_expires = now + config["response_replay_ttl"]
           /\ t.outcome = "completed" /\ t.retrieval_state = "response_ready"
           /\ t.expires = now + config["terminal_retention"]
           /\ Forget(i) /\ i \in Live /\ i \in DOMAIN queued /\ i \in DOMAIN claims
           /\ i \notin DOMAIN terminals /\ claims[i].deadline > now
           /\ UNCHANGED <<now, deferred, tombstones, generation>>
    BY AcceptEffect
  <1>1. /\ Forget(i) /\ i \in Live /\ i \in DOMAIN queued /\ i \in DOMAIN claims
        /\ i \notin DOMAIN terminals /\ claims[i].deadline > now
        /\ DOMAIN responses' = DOMAIN responses \cup {i} /\ responses'[i] = r
        /\ \A j \in DOMAIN responses : j # i => responses'[j] = responses[j]
        /\ UNCHANGED <<now, deferred, tombstones, generation>>
    BY <1>0 DEF Put
  <1>2. /\ DOMAIN terminals' = DOMAIN terminals \cup {i} /\ terminals'[i] = t
        /\ \A j \in DOMAIN terminals : terminals'[j] = terminals[j]
    BY <1>0 DEF Put
  <1>3. i \notin DOMAIN responses /\ i \notin DOMAIN tombstones
        /\ DOMAIN responses \subseteq DOMAIN terminals
    BY <1>1 DEF KeptInv, ReplayConsistent, FreshLifecycleUnstopped
  <1>4. Live' = Live \ {i} /\ \A j \in Live' : Work(j)' = Work(j)
    BY <1>1, ForgetEffect
  <1>5. ReplayConsistent'
    <2>1. ASSUME NEW j
          PROVE  j \in DOMAIN responses' <=>
                   j \in DOMAIN terminals' /\ terminals'[j].retrieval_state = "response_ready"
      BY <1>0, <1>1, <1>2, <1>3 DEF KeptInv, ReplayConsistent
    <2>2. ASSUME NEW j \in DOMAIN responses'
          PROVE  /\ responses'[j].digest = terminals'[j].digest
                 /\ responses'[j].generation = terminals'[j].generation
                 /\ terminals'[j].outcome = "completed"
      BY <1>0, <1>1, <1>2, <1>3 DEF KeptInv, ReplayConsistent
    <2> QED BY <2>1, <2>2 DEF ReplayConsistent
  <1>6. ReplaysCovered'
    <2> SUFFICES ASSUME NEW j \in DOMAIN responses'
                 PROVE  responses'[j].replay_expires <= terminals'[j].expires
      BY DEF ReplaysCovered
    <2>1. CASE j = i
      BY <1>0, <1>1, <1>2, <2>1, TimesTyped
    <2>2. CASE j # i
      BY <1>1, <1>2, <1>3, <2>2 DEF KeptInv, ReplaysCovered
    <2> QED BY <2>1, <2>2
  <1>7. FreshLifecycleUnstopped'
    BY <1>1, <1>2, <1>3, <1>4 DEF KeptInv, FreshLifecycleUnstopped
  <1>8. i \notin deferred
    <2>1. i \notin DOMAIN reservations
      BY <1>1 DEF IInv, Consistent, LifecycleExclusive
    <2>2. Work(i).deadline = claims[i].deadline
      BY <1>1, <2>1 DEF Work, KeptInv, ClaimsCovered
    <2>3. claims[i].deadline \in Nat /\ now \in Nat
      BY <1>1, TimesTyped
    <2> QED BY <1>1, <2>2, <2>3 DEF KeptInv, DeferredStillDue
  <1>9. DeferredStillDue'
    BY <1>1, <1>4, <1>8 DEF KeptInv, DeferredStillDue
  <1>10. ClaimsCovered'
    BY <1>1, ClaimsForget DEF KeptInv
  <1> QED BY <1>5, <1>6, <1>7, <1>9, <1>10 DEF KeptInv

\* The response that is acknowledged, and the ones that are kept.
LEMMA AcknowledgeEffect ==
    ASSUME IInv, NEW i, NEW token, AcknowledgeResponse(i, token)
    PROVE  /\ i \in DOMAIN terminals /\ i \in DOMAIN responses
           /\ terminals[i].retrieval_state = "response_ready"
           /\ DOMAIN responses' = DOMAIN responses \ {i}
           /\ \A j \in DOMAIN responses' : responses'[j] = responses[j]
           /\ terminals' = [terminals EXCEPT ![i].retrieval_state = "acknowledged"]
           /\ DOMAIN terminals' = DOMAIN terminals
           /\ \A j \in DOMAIN terminals : /\ terminals'[j].expires = terminals[j].expires
                                          /\ terminals'[j].digest = terminals[j].digest
                                          /\ terminals'[j].generation = terminals[j].generation
                                          /\ terminals'[j].outcome = terminals[j].outcome
                                          /\ j # i => terminals'[j] = terminals[j]
           /\ terminals'[i].retrieval_state = "acknowledged"
           /\ UNCHANGED <<now, reservations, queued, claims, deferred, tombstones, generation>>
  <1>1. /\ i \in DOMAIN terminals /\ i \in DOMAIN responses
        /\ terminals[i].retrieval_state = "response_ready"
        /\ responses' = Drop(responses, {i})
        /\ terminals' = [terminals EXCEPT ![i].retrieval_state = "acknowledged"]
        /\ UNCHANGED <<now, reservations, queued, claims, deferred, tombstones, generation>>
    BY DEF AcknowledgeResponse, Reaped, lifecycle, counters
  <1>2. \A j \in DOMAIN terminals : terminals[j] \in TerminalRecord
    BY DEF IInv, TypeOK, RetainedTypeOK, Values
  <1>3. /\ DOMAIN responses' = DOMAIN responses \ {i}
        /\ \A j \in DOMAIN responses' : responses'[j] = responses[j]
    BY <1>1 DEF Drop
  <1>4. \A j \in DOMAIN terminals : /\ terminals'[j].expires = terminals[j].expires
                                    /\ terminals'[j].digest = terminals[j].digest
                                    /\ terminals'[j].generation = terminals[j].generation
                                    /\ terminals'[j].outcome = terminals[j].outcome
                                    /\ j # i => terminals'[j] = terminals[j]
    BY <1>1, <1>2 DEF TerminalRecord
  <1>5. terminals'[i].retrieval_state = "acknowledged" /\ DOMAIN terminals' = DOMAIN terminals
    BY <1>1, <1>2 DEF TerminalRecord
  <1> QED BY <1>1, <1>3, <1>4, <1>5

\* An acknowledged response leaves its terminal record.
LEMMA KeptAcknowledge ==
    ASSUME IInv, KeptInv, NEW i, NEW token, AcknowledgeResponse(i, token)
    PROVE  KeptInv'
  <1>1. /\ i \in DOMAIN terminals /\ i \in DOMAIN responses
        /\ DOMAIN responses' = DOMAIN responses \ {i}
        /\ \A j \in DOMAIN responses' : responses'[j] = responses[j]
        /\ DOMAIN terminals' = DOMAIN terminals
        /\ \A j \in DOMAIN terminals : /\ terminals'[j].expires = terminals[j].expires
                                       /\ terminals'[j].digest = terminals[j].digest
                                       /\ terminals'[j].generation = terminals[j].generation
                                       /\ terminals'[j].outcome = terminals[j].outcome
                                       /\ j # i => terminals'[j] = terminals[j]
        /\ terminals'[i].retrieval_state = "acknowledged"
        /\ UNCHANGED <<now, reservations, queued, claims, deferred, tombstones, generation>>
    BY AcknowledgeEffect
  <1>2. DOMAIN responses \subseteq DOMAIN terminals
    BY DEF KeptInv, ReplayConsistent
  <1>3. ReplayConsistent'
    <2>1. ASSUME NEW j
          PROVE  j \in DOMAIN responses' <=>
                   j \in DOMAIN terminals' /\ terminals'[j].retrieval_state = "response_ready"
      BY <1>1 DEF KeptInv, ReplayConsistent
    <2>2. ASSUME NEW j \in DOMAIN responses'
          PROVE  /\ responses'[j].digest = terminals'[j].digest
                 /\ responses'[j].generation = terminals'[j].generation
                 /\ terminals'[j].outcome = "completed"
      BY <1>1, <1>2 DEF KeptInv, ReplayConsistent
    <2> QED BY <2>1, <2>2 DEF ReplayConsistent
  <1>4. ReplaysCovered'
    BY <1>1, <1>2 DEF KeptInv, ReplaysCovered
  <1>5. Live' = Live /\ \A j \in Live : Work(j)' = Work(j)
    BY <1>1, WorkKept
  <1>6. FreshLifecycleUnstopped' /\ DeferredStillDue'
    BY <1>1, <1>5 DEF KeptInv, FreshLifecycleUnstopped, DeferredStillDue
  <1>7. ClaimsCovered'
    BY <1>1 DEF KeptInv, ClaimsCovered
  <1> QED BY <1>3, <1>4, <1>6, <1>7 DEF KeptInv

\* Outside the deadline loop there is nothing due to visit.
LEMMA DuesOutside ==
    ASSUME IInv', lock' # "reap"
    PROVE  DuesFound'
  BY DEF IInv, Consistent, LoopsFresh, PhaseOK, DuesFound

\* The body of an operation gives the lock back.
LEMMA BodyReleases ==
    ASSUME ClientOperation \/ WorkerOperation
    PROVE  lock' = "free"
  <1>1. ASSUME NEW i, NEW fp, NEW deadline, NEW ct, NEW n, NEW gone,
               SelectAndReserve(i, fp, deadline, ct, n, gone)
        PROVE  lock' = "free"
    BY <1>1 DEF SelectAndReserve, Reaped
  <1>2. ASSUME NEW i, NEW fp, NEW deadline, NEW token, NEW n, NEW ct,
               EnqueueEncryptedRequest(i, fp, deadline, token, n, ct)
        PROVE  lock' = "free"
    BY <1>2 DEF EnqueueEncryptedRequest, Reaped
  <1>3. ASSUME NEW i, NEW token, AcknowledgeResponse(i, token) PROVE lock' = "free"
    BY <1>3 DEF AcknowledgeResponse, Reaped
  <1>4. ASSUME NEW i, NEW ct, CancelRequest(i, ct) PROVE lock' = "free"
    BY <1>4 DEF CancelRequest, Reaped
  <1>5. ASSUME NEW n, NEW cred, NEW consumer, NEW i, ClaimQueuedRequest(n, cred, consumer, i)
        PROVE  lock' = "free"
    BY <1>5 DEF ClaimQueuedRequest, Reaped
  <1>6. ASSUME NEW n, NEW cred, NEW consumer, NEW i, NEW gen, RenewClaim(n, cred, consumer, i, gen)
        PROVE  lock' = "free"
    BY <1>6 DEF RenewClaim, Reaped
  <1>7. ASSUME NEW n, NEW cred, NEW consumer, NEW i, NEW gen,
               AcknowledgeControl(n, cred, consumer, i, gen)
        PROVE  lock' = "free"
    BY <1>7 DEF AcknowledgeControl, Reaped
  <1>8. ASSUME NEW n, NEW cred, NEW consumer, NEW i, NEW gen, NEW reply,
               AcceptResponse(n, cred, consumer, i, gen, reply)
        PROVE  lock' = "free"
    BY <1>8 DEF AcceptResponse, Reaped
  <1> QED BY <1>1, <1>2, <1>3, <1>4, <1>5, <1>6, <1>7, <1>8 DEF ClientOperation, WorkerOperation

\* The loop's list is exact while nothing it looks at changes.
LEMMA DuesIdle ==
    ASSUME DuesFound, UNCHANGED <<now, lock, reservations, queued, deferred, due>>
    PROVE  DuesFound'
  <1>1. Live' = Live
    BY DEF Live
  <1>2. \A j : Work(j)' = Work(j)
    BY DEF Work
  <1> QED BY <1>1, <1>2 DEF DuesFound

\* A decided identity leaves the list, the deferrals and the live work together.
LEMMA DuesTerminalize ==
    ASSUME IInv, DuesFound, NEW i \in Live, NEW status, NEW reason, NEW force,
           Terminalize(i, status, reason, force), due' = due \ {i}, UNCHANGED <<now, lock>>
    PROVE  DuesFound'
  <1>1. Live' = Live \ {i} /\ \A j \in Live' : Work(j)' = Work(j)
    BY TerminalizeEffect, ForgetEffect
  <1>2. deferred' = deferred \ {i} /\ due \subseteq Live
    BY DEF Terminalize, IInv, Consistent, LoopsFresh
  <1>3. \A j \in due' : j \in Live' /\ Work(j)' = Work(j)
    BY <1>1, <1>2
  <1> QED BY <1>1, <1>2, <1>3 DEF DuesFound

\* The reaper's steps that decide or defer a request.
LEMMA OutcomeLoops ==
    ASSUME IInv, OutcomeInv, NEW i \in Identity, DueStep(i) \/ BatchStep(i)
    PROVE  OutcomeInv'
  <1>1. CASE DueStep(i)
    <2>0. /\ lock = "reap" /\ i \in due /\ due' = due \ {i} /\ i \in Live
          /\ UNCHANGED <<now, lock, generation>>
      BY <1>1 DEF DueStep, counters, IInv, Consistent, LoopsFresh
    <2>1. CASE Terminalize(i, "expired", "request_deadline_expired", FALSE)
      BY <2>0, <2>1, KeptTerminalize, DuesTerminalize DEF OutcomeInv
    <2>2. CASE /\ deferred' = deferred \cup {i}
               /\ UNCHANGED <<reservations, queued, queued_tokens, cancel_tokens,
                              node_queues, claims, node_work, retained>>
      <3>1. Live' = Live /\ \A j \in Live : Work(j)' = Work(j)
        BY <2>2, WorkKept
      <3>2. Work(i).deadline <= now
        BY <2>0 DEF OutcomeInv, DuesFound
      <3>3. DeferredStillDue'
        BY <2>0, <2>2, <3>1, <3>2 DEF OutcomeInv, KeptInv, DeferredStillDue
      <3>4. ReplayConsistent' /\ ReplaysCovered' /\ ClaimsCovered'
        BY <2>0, <2>2 DEF OutcomeInv, KeptInv, ReplayConsistent, ReplaysCovered, ClaimsCovered,
                          retained
      <3>5. FreshLifecycleUnstopped'
        BY <2>2, <3>1 DEF OutcomeInv, KeptInv, FreshLifecycleUnstopped, retained
      <3>6. due \subseteq Live
        BY DEF IInv, Consistent, LoopsFresh
      <3>7. DuesFound'
        BY <2>0, <2>2, <3>1, <3>6 DEF OutcomeInv, DuesFound
      <3> QED BY <3>3, <3>4, <3>5, <3>7 DEF OutcomeInv, KeptInv
    <2> QED BY <1>1, <2>1, <2>2 DEF DueStep
  <1>2. CASE BatchStep(i)
    <2>0. /\ tearing # None /\ i \in batch /\ UNCHANGED <<now, lock, due, generation>>
      BY <1>2 DEF BatchStep, counters
    <2>1. i \in Live /\ due = {}
      <3>1. i \in At(node_work, tearing) /\ due = {} /\ tearing \in Node
        BY <2>0 DEF IInv, Consistent, LoopsFresh, PhaseOK, TypeOK, LoopTypeOK
      <3> QED BY <3>1 DEF IInv, Consistent, IndexExact, WorkIndexed
    <2>2. CASE Terminalize(i, "cancelled", "server_unregistered", TRUE)
      <3>1. due' = due \ {i}
        BY <2>0, <2>1
      <3> QED BY <2>0, <2>1, <2>2, <3>1, KeptTerminalize, DuesTerminalize DEF OutcomeInv
    <2>3. CASE UNCHANGED <<lifecycle, retained>>
      <3>1. KeptInv'
        BY <2>0, <2>3, KeptIdle, TimesTyped DEF OutcomeInv, lifecycle, retained
      <3>2. DuesFound'
        BY <2>0, <2>3, DuesIdle DEF OutcomeInv, lifecycle
      <3> QED BY <3>1, <3>2 DEF OutcomeInv
    <2> QED BY <1>2, <2>2, <2>3 DEF BatchStep
  <1> QED BY <1>1, <1>2

\* Every step keeps what is retained consistent.
LEMMA OutcomeNext ==
    ASSUME IInv, IInv', OutcomeInv, [Next]_vars
    PROVE  OutcomeInv'
  <1>0. now \in Nat
    BY TimesTyped
  <1>1. ASSUME now' \in Nat, now' >= now,
               UNCHANGED <<reservations, queued, claims, deferred, responses, terminals, tombstones,
                           generation>>,
               lock' # "reap" \/ UNCHANGED <<now, lock, due>>
        PROVE  OutcomeInv'
    <2>1. KeptInv'
      BY <1>1, KeptIdle DEF OutcomeInv
    <2>2. DuesFound'
      BY <1>1, DuesOutside, DuesIdle DEF OutcomeInv
    <2> QED BY <2>1, <2>2 DEF OutcomeInv
  <1>2. CASE Reaper
    <2>1. ASSUME NEW phase \in Phase \ {"free", "ready"}, Enter(phase) PROVE OutcomeInv'
      <3>1. KeptInv'
        BY <2>1, KeptEnter DEF OutcomeInv
      <3>2. CASE phase = "reap"
        <4>1. due' = DueNow /\ UNCHANGED <<now, reservations, queued, deferred>>
          BY <2>1, <3>2 DEF Enter, lifecycle
        <4>2. Live' = Live /\ \A j \in Live : Work(j)' = Work(j)
          BY <4>1, WorkKept
        <4>3. DuesFound'
          BY <4>1, <4>2 DEF DuesFound, DueNow
        <4> QED BY <3>1, <4>3 DEF OutcomeInv
      <3>3. CASE phase # "reap"
        BY <2>1, <3>1, <3>3, DuesOutside DEF OutcomeInv, Enter
      <3> QED BY <3>2, <3>3
    <2>2. ASSUME NEW n \in Node, LeaseStep(n) PROVE OutcomeInv'
      <3>1. UNCHANGED <<now, lock, lifecycle, retained, counters, due>>
        BY <2>2 DEF LeaseStep, BeginTransition
      <3> QED BY <1>0, <1>1, <3>1 DEF lifecycle, retained, counters
    <2>3. ASSUME NEW n \in Node, LeaseStepRaises(n) \/ SweepContinue(n) PROVE OutcomeInv'
      <3>1. /\ UNCHANGED <<now, lifecycle, retained, counters>> /\ lock' # "reap"
        BY <2>3 DEF LeaseStepRaises, SweepContinue, ContinueTransition
      <3> QED BY <1>0, <1>1, <3>1 DEF lifecycle, retained, counters
    <2>4. CASE EndTransition
      <3>1. /\ UNCHANGED <<now, lifecycle, retained, counters, due>>
            /\ lock' # "reap" \/ UNCHANGED lock
        BY <2>4 DEF EndTransition
      <3> QED BY <1>0, <1>1, <3>1 DEF lifecycle, retained, counters
    <2>5. CASE ReapReservations
      BY <2>5, KeptReapReservations, DuesOutside DEF ReapReservations, OutcomeInv
    <2> QED BY <1>2, <2>1, <2>2, <2>3, <2>4, <2>5, OutcomeLoops DEF Reaper
  <1>3. CASE NodeOperation
    <2>1. ASSUME NEW n, NEW cred, NEW caps, Register(n, caps, cred) \/ Renew(n, cred, caps)
          PROVE  OutcomeInv'
      <3>1. UNCHANGED <<now, lifecycle, retained, counters>> /\ lock' # "reap"
        BY <2>1 DEF Register, Renew, Reaped
      <3> QED BY <1>0, <1>1, <3>1 DEF lifecycle, retained, counters
    <2>2. ASSUME NEW n, NEW cred, NEW state, SetSchedulerState(n, cred, state) PROVE OutcomeInv'
      <3>1. UNCHANGED <<now, lifecycle, retained, counters>> /\ lock' # "reap"
        BY <2>2 DEF SetSchedulerState, Reaped
      <3> QED BY <1>0, <1>1, <3>1 DEF lifecycle, retained, counters
    <2>3. ASSUME NEW n, NEW cred, NEW cause,
                 UnregisterBegin(n, cred, cause) \/ UnregisterContinue(n, cred, cause)
          PROVE  OutcomeInv'
      <3>1. UNCHANGED <<now, lifecycle, retained, counters>> /\ lock' # "reap"
        BY <2>3 DEF UnregisterBegin, UnregisterContinue, BeginTransition, ContinueTransition
      <3> QED BY <1>0, <1>1, <3>1 DEF lifecycle, retained, counters
    <2> QED BY <1>3, <2>1, <2>2, <2>3 DEF NodeOperation
  <1>4. CASE ClientOperation
    <2>1. lock' # "reap"
      BY <1>4, BodyReleases
    <2>2. ASSUME NEW i, NEW ct, CancelRequest(i, ct) PROVE KeptInv'
      <3>1. /\ i \in Live /\ Terminalize(i, "cancelled", "requester_cancelled", FALSE)
            /\ UNCHANGED <<now, generation>>
        BY <2>2 DEF CancelRequest, Reaped, counters
      <3> QED BY <3>1, KeptTerminalize DEF OutcomeInv
    <2>3. KeptInv'
      BY <1>4, <2>2, KeptSelect, KeptEnqueue, KeptAcknowledge DEF ClientOperation, OutcomeInv
    <2> QED BY <2>1, <2>3, DuesOutside DEF OutcomeInv
  <1>5. CASE WorkerOperation
    <2>1. lock' # "reap"
      BY <1>5, BodyReleases
    <2>2. KeptInv'
      BY <1>5, KeptClaim, KeptRenew, KeptControl, KeptAccept DEF WorkerOperation, OutcomeInv
    <2> QED BY <2>1, <2>2, DuesOutside DEF OutcomeInv
  <1>6. CASE Release
    <2>1. UNCHANGED <<now, lifecycle, retained, counters>> /\ lock' # "reap"
      BY <1>6 DEF Release, Reaped
    <2> QED BY <1>0, <1>1, <2>1 DEF lifecycle, retained, counters
  <1>7. CASE Tick
    <2>1. UNCHANGED <<lifecycle, retained, counters>> /\ now' = now + 1 /\ lock' # "reap"
      BY <1>7 DEF Tick
    <2>2. now' \in Nat /\ now' >= now
      BY <1>0, <2>1
    <2> QED BY <1>1, <2>1, <2>2 DEF lifecycle, retained, counters
  <1>8. CASE UNCHANGED vars
    <2>1. UNCHANGED <<now, lock, lifecycle, retained, counters, due>>
      BY <1>8 DEF vars, loop
    <2> QED BY <1>0, <1>1, <2>1 DEF lifecycle, retained, counters
  <1> QED BY <1>2, <1>3, <1>4, <1>5, <1>6, <1>7, <1>8 DEF Next

\* The invariant behind the theorems on retained records and outcomes.
THEOREM OutcomeInvariant == Spec => []OutcomeInv
  <1>1. Init => OutcomeInv
    <2> SUFFICES ASSUME Init PROVE OutcomeInv
      OBVIOUS
    <2>1. Live = {}
      BY DEF Init, Empty, Live
    <2>2. KeptInv
      BY <2>1 DEF Init, Empty, KeptInv, ReplayConsistent, ReplaysCovered, FreshLifecycleUnstopped,
                  DeferredStillDue, ClaimsCovered
    <2> QED BY <2>2 DEF Init, OutcomeInv, DuesFound
  <1>2. IInv /\ IInv' /\ OutcomeInv /\ [Next]_vars => OutcomeInv'
    BY OutcomeNext
  <1> QED BY <1>1, <1>2, Invariant, PTL DEF Spec
--------------------------------------------------------------------------------
(* What no step does to an outcome or to a claim                           *)

KeepingStep == OutcomeStep /\ ReplayStep /\ DropStep
FencingStep == FencedStep /\ StopStep
SafeStep == KeepingStep /\ FencingStep

\* A record is not changed by writing its own field.
LEMMA SameTerminal ==
    ASSUME IInv, NEW i \in DOMAIN terminals
    PROVE  terminals[i] = [terminals[i] EXCEPT !.retrieval_state = terminals[i].retrieval_state]
  <1>1. terminals[i] \in TerminalRecord
    BY DEF IInv, TypeOK, RetainedTypeOK, Values
  <1> QED BY <1>1 DEF TerminalRecord

\* Outcomes stay when no terminal record changes.
LEMMA OutcomesStay ==
    ASSUME IInv, \A i \in DOMAIN terminals : i \in DOMAIN terminals' /\ terminals'[i] = terminals[i]
    PROVE  OutcomeStep
  <1> SUFFICES ASSUME NEW i \in DOMAIN terminals
               PROVE  terminals'[i] = [terminals[i] EXCEPT
                                         !.retrieval_state = terminals'[i].retrieval_state]
    BY DEF OutcomeStep
  <1> QED BY SameTerminal

\* Claims are fenced when none of them changes.
LEMMA ClaimsStay ==
    ASSUME IInv, UNCHANGED claims
    PROVE  FencingStep
  <1>1. \A i \in DOMAIN claims : claims[i].lease \in Nat /\ claims[i].generation \in Nat
    BY TimesTyped
  <1>2. FencedStep
    BY <1>1 DEF FencedStep
  <1> QED BY <1>2 DEF FencingStep, StopStep, ActiveClaims

\* Nothing live or retained changes.
LEMMA IdleSafe ==
    ASSUME IInv, UNCHANGED <<reservations, queued, claims, responses, terminals>>
    PROVE  SafeStep
  <1>1. OutcomeStep /\ FencingStep
    BY OutcomesStay, ClaimsStay
  <1> QED BY <1>1 DEF SafeStep, KeepingStep, ReplayStep, DropStep

\* Reaping drops only what is over.
LEMMA EnterSafe ==
    ASSUME IInv, OutcomeInv, NEW phase, Enter(phase)
    PROVE  SafeStep
  <1>0. /\ UNCHANGED <<now, reservations, queued, claims>>
        /\ responses' = Drop(responses, {i \in DOMAIN responses : ReplayOver(i)})
        /\ terminals' = [i \in {j \in DOMAIN terminals : TerminalKept(j)} |-> ReapedTerminal(i)]
    BY DEF Enter, ReapRetained, lifecycle
  <1>1. FencingStep
    BY <1>0, ClaimsStay
  <1>2. DropStep
    BY <1>0 DEF DropStep
  <1>3. ReplayStep
    BY <1>0 DEF ReplayStep, Drop, ReplayOver
  <1>4. OutcomeStep
    <2> SUFFICES ASSUME NEW i \in DOMAIN terminals
                 PROVE  IF i \in DOMAIN terminals'
                        THEN /\ terminals'[i] = [terminals[i] EXCEPT
                                                   !.retrieval_state = terminals'[i].retrieval_state]
                             /\ \/ terminals'[i].retrieval_state = terminals[i].retrieval_state
                                \/ terminals[i].retrieval_state = "response_ready"
                        ELSE terminals[i].expires <= now
      BY DEF OutcomeStep
    <2>1. CASE i \notin DOMAIN terminals'
      <3>1. ~(terminals[i].expires > now) /\ terminals[i].expires \in Nat /\ now \in Nat
        BY <1>0, <2>1, TimesTyped DEF TerminalKept
      <3> QED BY <2>1, <3>1
    <2>2. CASE i \in DOMAIN terminals' /\ terminals'[i] = terminals[i]
      BY <2>2, SameTerminal
    <2>3. CASE /\ i \in DOMAIN terminals' /\ terminals[i].retrieval_state = "response_ready"
               /\ terminals'[i] = [terminals[i] EXCEPT !.retrieval_state = "retrieval_expired"]
      <3>1. terminals[i] \in TerminalRecord
        BY DEF IInv, TypeOK, RetainedTypeOK, Values
      <3>2. terminals'[i].retrieval_state = "retrieval_expired"
        BY <2>3, <3>1 DEF TerminalRecord
      <3> QED BY <2>3, <3>2
    <2> QED BY <1>0, <2>1, <2>2, <2>3 DEF ReapedTerminal
  <1> QED BY <1>1, <1>2, <1>3, <1>4 DEF SafeStep, KeepingStep

\* A decision adds an outcome; a running claim is told when it has to be.
LEMMA TerminalizeSafe ==
    ASSUME IInv, OutcomeInv, NEW i \in Live, NEW status, NEW reason, NEW force,
           Terminalize(i, status, reason, force),
           i \in ActiveClaims => TombstonedClaim(i, status, force)
    PROVE  SafeStep
  <1>1. /\ Forget(i) /\ responses' = responses
        /\ DOMAIN terminals' = DOMAIN terminals \cup {i}
        /\ \A j \in DOMAIN terminals : terminals'[j] = terminals[j]
    BY TerminalizeEffect
  <1>2. /\ DOMAIN reservations' = DOMAIN reservations \ {i}
        /\ DOMAIN queued' = DOMAIN queued \ {i}
        /\ DOMAIN claims' = DOMAIN claims \ {i}
        /\ \A j \in DOMAIN claims' : claims'[j] = claims[j]
    BY <1>1, ForgetEffect
  <1>3. OutcomeStep
    BY <1>1, OutcomesStay
  <1>4. ReplayStep /\ DropStep
    BY <1>1, <1>2 DEF ReplayStep, DropStep
  <1>5. \A j \in DOMAIN claims : claims[j].lease \in Nat /\ claims[j].generation \in Nat
    BY TimesTyped
  <1>6. FencedStep
    BY <1>1, <1>2, <1>5 DEF FencedStep
  <1>7. StopStep
    <2>1. ActiveClaims \ DOMAIN claims' \subseteq {i}
      BY <1>2 DEF ActiveClaims
    <2>2. CASE i \in ActiveClaims
      <3>1. /\ i \in DOMAIN tombstones' /\ tombstones'[i].generation = claims[i].generation
            /\ tombstones'[i].owner = claims[i].owner
        BY <2>2, StopEffect
      <3> QED BY <2>1, <3>1 DEF StopStep
    <2>3. CASE i \notin ActiveClaims
      BY <2>1, <2>3 DEF StopStep
    <2> QED BY <2>2, <2>3
  <1> QED BY <1>3, <1>4, <1>6, <1>7 DEF SafeStep, KeepingStep, FencingStep

\* The reaper's loops: a lease never outlives its deadline, so a due request has no running
\* lease, and a batch tells every claim.
LEMMA LoopsSafe ==
    ASSUME IInv, OutcomeInv, NEW i \in Identity, DueStep(i) \/ BatchStep(i)
    PROVE  SafeStep
  <1>1. CASE DueStep(i)
    <2>0. i \in due /\ i \in Live
      BY <1>1 DEF DueStep, IInv, Consistent, LoopsFresh
    <2>1. CASE Terminalize(i, "expired", "request_deadline_expired", FALSE)
      <3>1. i \notin ActiveClaims
        <4> SUFFICES ASSUME i \in DOMAIN claims, claims[i].lease > now PROVE FALSE
          BY DEF ActiveClaims
        <4>1. i \in DOMAIN queued /\ i \notin DOMAIN reservations
          BY DEF IInv, Consistent, LifecycleExclusive
        <4>2. Work(i).deadline <= now /\ Work(i).deadline = claims[i].deadline
          BY <2>0, <4>1 DEF OutcomeInv, DuesFound, KeptInv, ClaimsCovered, Work
        <4>3. claims[i].lease <= claims[i].deadline
          BY DEF OutcomeInv, KeptInv, ClaimsCovered
        <4>4. claims[i].lease \in Nat /\ claims[i].deadline \in Nat /\ now \in Nat
          BY TimesTyped
        <4> QED BY <4>2, <4>3, <4>4
      <3> QED BY <2>0, <2>1, <3>1, TerminalizeSafe
    <2>2. CASE UNCHANGED <<reservations, queued, claims, retained>>
      BY <2>2, IdleSafe DEF retained
    <2> QED BY <1>1, <2>1, <2>2 DEF DueStep
  <1>2. CASE BatchStep(i)
    <2>0. tearing # None /\ i \in batch
      BY <1>2 DEF BatchStep
    <2>1. i \in Live
      <3>1. i \in At(node_work, tearing) /\ tearing \in Node
        BY <2>0 DEF IInv, Consistent, LoopsFresh, TypeOK, LoopTypeOK
      <3> QED BY <3>1 DEF IInv, Consistent, IndexExact, WorkIndexed
    <2>2. CASE Terminalize(i, "cancelled", "server_unregistered", TRUE)
      <3>1. i \in ActiveClaims => TombstonedClaim(i, "cancelled", TRUE)
        BY DEF ActiveClaims, TombstonedClaim
      <3> QED BY <2>1, <2>2, <3>1, TerminalizeSafe
    <2>3. CASE UNCHANGED <<lifecycle, retained>>
      BY <2>3, IdleSafe DEF lifecycle, retained
    <2> QED BY <1>2, <2>2, <2>3 DEF BatchStep
  <1> QED BY <1>1, <1>2

\* A reservation is released silently only before its deadline: one that is due is deferred.
LEMMA ReapReservationsSafe ==
    ASSUME IInv, OutcomeInv, ReapReservations
    PROVE  SafeStep
  <1>1. /\ UNCHANGED <<now, responses, terminals, deferred>> /\ lock = "reap" /\ due = {}
        /\ reservations' = Drop(reservations, {i \in DOMAIN reservations : StaleReservation(i)})
    BY DEF ReapReservations, retained
  <1>2. UNCHANGED <<queued, claims>>
    BY DEF ReapReservations
  <1>3. OutcomeStep /\ FencingStep /\ ReplayStep
    BY <1>1, <1>2, OutcomesStay, ClaimsStay DEF ReplayStep
  <1>4. ASSUME NEW i \in DOMAIN reservations, i \notin DOMAIN reservations'
        PROVE  reservations[i].expires <= now /\ now < reservations[i].deadline
    <2>1. reservations[i].expires <= now /\ i \notin deferred
      BY <1>1, <1>4 DEF Drop, StaleReservation
    <2>2. i \in Live /\ Work(i) = reservations[i]
      BY DEF Live, Work
    <2>3. ~(reservations[i].deadline <= now)
      BY <1>1, <2>1, <2>2 DEF OutcomeInv, DuesFound
    <2>4. reservations[i].deadline \in Nat /\ now \in Nat
      BY <2>2, TimesTyped
    <2> QED BY <2>1, <2>3, <2>4
  <1>5. DropStep
    BY <1>2, <1>4 DEF DropStep
  <1> QED BY <1>3, <1>5 DEF SafeStep, KeepingStep

\* The operations of clients.
LEMMA ClientSafe ==
    ASSUME IInv, OutcomeInv, ClientOperation
    PROVE  SafeStep
  <1>1. ASSUME NEW i, NEW fp, NEW deadline, NEW ct, NEW n, NEW gone,
               SelectAndReserve(i, fp, deadline, ct, n, gone)
        PROVE  SafeStep
    <2>1. UNCHANGED <<queued, claims, responses, terminals>>
      BY <1>1 DEF SelectAndReserve, retained
    <2>2. DOMAIN reservations \subseteq DOMAIN reservations'
      BY <1>1, SelectEffect
    <2>3. OutcomeStep /\ FencingStep
      BY <2>1, OutcomesStay, ClaimsStay
    <2> QED BY <2>1, <2>2, <2>3 DEF SafeStep, KeepingStep, ReplayStep, DropStep
  <1>2. ASSUME NEW i, NEW fp, NEW deadline, NEW token, NEW n, NEW ct,
               EnqueueEncryptedRequest(i, fp, deadline, token, n, ct)
        PROVE  SafeStep
    <2>1. UNCHANGED <<claims, responses, terminals>>
      BY <1>2 DEF EnqueueEncryptedRequest, retained
    <2>2. /\ DOMAIN queued' = DOMAIN queued \cup {i}
          /\ DOMAIN reservations' = DOMAIN reservations \ {i}
      BY <1>2, EnqueueEffect
    <2>3. OutcomeStep /\ FencingStep
      BY <2>1, OutcomesStay, ClaimsStay
    <2> QED BY <2>1, <2>2, <2>3 DEF SafeStep, KeepingStep, ReplayStep, DropStep
  <1>3. ASSUME NEW i, NEW token, AcknowledgeResponse(i, token) PROVE SafeStep
    <2>1. /\ DOMAIN responses' = DOMAIN responses \ {i}
          /\ \A j \in DOMAIN responses' : responses'[j] = responses[j]
          /\ terminals'[i].retrieval_state = "acknowledged"
          /\ UNCHANGED <<reservations, queued, claims>>
      BY <1>3, AcknowledgeEffect
    <2>2. /\ terminals' = [terminals EXCEPT ![i].retrieval_state = "acknowledged"]
          /\ terminals[i].retrieval_state = "response_ready" /\ i \in DOMAIN terminals
      BY <1>3, AcknowledgeEffect
    <2>3. OutcomeStep
      <3> SUFFICES ASSUME NEW j \in DOMAIN terminals
                   PROVE  /\ j \in DOMAIN terminals'
                          /\ terminals'[j] = [terminals[j] EXCEPT
                                                !.retrieval_state = terminals'[j].retrieval_state]
                          /\ \/ terminals'[j].retrieval_state = terminals[j].retrieval_state
                             \/ terminals[j].retrieval_state = "response_ready"
        BY DEF OutcomeStep
      <3>1. CASE j = i
        BY <2>1, <2>2, <3>1
      <3>2. CASE j # i
        <4>1. terminals'[j] = terminals[j] /\ j \in DOMAIN terminals'
          BY <2>2, <3>2
        <4> QED BY <4>1, SameTerminal
      <3> QED BY <3>1, <3>2
    <2>4. FencingStep
      BY <2>1, ClaimsStay
    <2> QED BY <2>1, <2>3, <2>4 DEF SafeStep, KeepingStep, ReplayStep, DropStep
  <1>4. ASSUME NEW i, NEW ct, CancelRequest(i, ct) PROVE SafeStep
    <2>1. i \in Live /\ Terminalize(i, "cancelled", "requester_cancelled", FALSE)
      BY <1>4 DEF CancelRequest
    <2>2. i \in ActiveClaims => TombstonedClaim(i, "cancelled", FALSE)
      BY DEF ActiveClaims, TombstonedClaim
    <2> QED BY <2>1, <2>2, TerminalizeSafe
  <1> QED BY <1>1, <1>2, <1>3, <1>4 DEF ClientOperation

\* The operations of workers: a claim replaces only an ended lease, and a renewal never
\* shortens one.
LEMMA WorkerSafe ==
    ASSUME IInv, OutcomeInv, WorkerOperation
    PROVE  SafeStep
  <1>0. /\ now \in Nat /\ generation \in Nat /\ config["claim_ttl"] \in Nat
        /\ \A j \in DOMAIN claims : /\ claims[j].lease \in Nat /\ claims[j].generation \in Nat
                                    /\ claims[j].deadline \in Nat
    BY TimesTyped
  <1>1. ASSUME NEW n, NEW cred, NEW consumer, NEW i, ClaimQueuedRequest(n, cred, consumer, i)
        PROVE  SafeStep
    <2>1. PICK c : /\ claims' = Put(claims, i, c) /\ c.generation = generation + 1
                   /\ i \notin ActiveClaims
                   /\ UNCHANGED <<reservations, queued, responses, terminals>>
      BY <1>1, ClaimEffect
    <2>2. /\ DOMAIN claims' = DOMAIN claims \cup {i} /\ claims'[i] = c
          /\ \A j \in DOMAIN claims : j # i => claims'[j] = claims[j]
      BY <2>1 DEF Put
    <2>3. OutcomeStep
      BY <2>1, OutcomesStay
    <2>4. ASSUME NEW j \in DOMAIN claims
          PROVE  /\ claims'[j].generation >= claims[j].generation
                 /\ claims[j].lease > now => /\ claims'[j].generation = claims[j].generation
                                             /\ claims'[j].lease >= claims[j].lease
      <3>1. CASE j = i
        <4>1. ~(claims[i].lease > now) /\ claims[i].generation <= generation
          BY <2>1, <3>1 DEF ActiveClaims, OutcomeInv, KeptInv, ClaimsCovered
        <4> QED BY <1>0, <2>1, <2>2, <3>1, <4>1
      <3>2. CASE j # i
        BY <1>0, <2>2, <3>2
      <3> QED BY <3>1, <3>2
    <2>5. FencedStep
      BY <2>2, <2>4 DEF FencedStep
    <2>6. StopStep
      BY <2>2 DEF StopStep, ActiveClaims
    <2> QED BY <2>1, <2>3, <2>5, <2>6 DEF SafeStep, KeepingStep, FencingStep, ReplayStep, DropStep
  <1>2. ASSUME NEW n, NEW cred, NEW consumer, NEW i, NEW gen, RenewClaim(n, cred, consumer, i, gen)
        PROVE  SafeStep
    <2>1. /\ i \in DOMAIN claims /\ DOMAIN claims' = DOMAIN claims
          /\ \A j \in DOMAIN claims : /\ claims'[j].generation = claims[j].generation
                                      /\ j # i => claims'[j].lease = claims[j].lease
          /\ claims'[i].lease = Min2(now + config["claim_ttl"], claims[i].deadline)
          /\ UNCHANGED <<now, reservations, queued, responses, terminals>>
      BY <1>2, RenewEffect
    <2>2. claims'[i].lease >= claims[i].lease
      BY <1>0, <2>1 DEF OutcomeInv, KeptInv, ClaimsCovered, Min2
    <2>3. \A j \in DOMAIN claims : /\ claims'[j].generation >= claims[j].generation
                                   /\ claims'[j].lease >= claims[j].lease
      BY <1>0, <2>1, <2>2
    <2>4. FencedStep
      BY <2>1, <2>3 DEF FencedStep
    <2>5. StopStep
      BY <2>1 DEF StopStep, ActiveClaims
    <2>6. OutcomeStep
      BY <2>1, OutcomesStay
    <2> QED BY <2>1, <2>4, <2>5, <2>6 DEF SafeStep, KeepingStep, FencingStep, ReplayStep, DropStep
  <1>3. ASSUME NEW n, NEW cred, NEW consumer, NEW i, NEW gen,
               AcknowledgeControl(n, cred, consumer, i, gen)
        PROVE  SafeStep
    <2>1. UNCHANGED <<reservations, queued, claims, responses, terminals>>
      BY <1>3 DEF AcknowledgeControl, lifecycle
    <2> QED BY <2>1, IdleSafe
  <1>4. ASSUME NEW n, NEW cred, NEW consumer, NEW i, NEW gen, NEW reply,
               AcceptResponse(n, cred, consumer, i, gen, reply)
        PROVE  SafeStep
    <2>1. PICK r, t :
            /\ responses' = Put(responses, i, r) /\ terminals' = Put(terminals, i, t)
            /\ r.generation = claims[i].generation
            /\ Forget(i) /\ i \in Live /\ i \notin DOMAIN terminals
      BY <1>4, AcceptEffect
    <2>2. /\ DOMAIN reservations' = DOMAIN reservations \ {i}
          /\ DOMAIN queued' = DOMAIN queued \ {i}
          /\ DOMAIN claims' = DOMAIN claims \ {i}
          /\ \A j \in DOMAIN claims' : claims'[j] = claims[j]
      BY <2>1, ForgetEffect
    <2>3. i \notin DOMAIN responses
      BY <2>1 DEF OutcomeInv, KeptInv, ReplayConsistent
    <2>4. /\ DOMAIN responses' = DOMAIN responses \cup {i} /\ responses'[i] = r
          /\ \A j \in DOMAIN responses : responses'[j] = responses[j]
      BY <2>1, <2>3 DEF Put
    <2>5. /\ DOMAIN terminals' = DOMAIN terminals \cup {i}
          /\ \A j \in DOMAIN terminals : terminals'[j] = terminals[j]
      BY <2>1 DEF Put
    <2>6. OutcomeStep
      BY <2>5, OutcomesStay
    <2>7. ReplayStep /\ DropStep
      BY <2>2, <2>4, <2>5 DEF ReplayStep, DropStep
    <2>8. FencedStep
      BY <1>0, <2>2, <2>5 DEF FencedStep
    <2>9. StopStep
      BY <2>1, <2>2, <2>4 DEF StopStep, ActiveClaims
    <2> QED BY <2>6, <2>7, <2>8, <2>9 DEF SafeStep, KeepingStep, FencingStep
  <1> QED BY <1>1, <1>2, <1>3, <1>4 DEF WorkerOperation

\* Every step of the store.
LEMMA NextSafe ==
    ASSUME IInv, OutcomeInv, Next
    PROVE  SafeStep
  <1>1. CASE Reaper
    <2>1. ASSUME NEW n \in Node, LeaseStep(n) PROVE SafeStep
      BY <2>1, IdleSafe DEF LeaseStep, BeginTransition, lifecycle, retained
    <2>2. ASSUME NEW n \in Node, LeaseStepRaises(n) \/ SweepContinue(n) PROVE SafeStep
      BY <2>2, IdleSafe DEF LeaseStepRaises, SweepContinue, ContinueTransition, lifecycle, retained
    <2>3. CASE EndTransition
      BY <2>3, IdleSafe DEF EndTransition, lifecycle, retained
    <2> QED BY <1>1, <2>1, <2>2, <2>3, EnterSafe, LoopsSafe, ReapReservationsSafe DEF Reaper
  <1>2. CASE NodeOperation
    <2>1. ASSUME NEW n, NEW cred, NEW caps, Register(n, caps, cred) \/ Renew(n, cred, caps)
          PROVE  SafeStep
      BY <2>1, IdleSafe DEF Register, Renew, lifecycle, retained
    <2>2. ASSUME NEW n, NEW cred, NEW state, SetSchedulerState(n, cred, state) PROVE SafeStep
      BY <2>2, IdleSafe DEF SetSchedulerState, lifecycle, retained
    <2>3. ASSUME NEW n, NEW cred, NEW cause,
                 UnregisterBegin(n, cred, cause) \/ UnregisterContinue(n, cred, cause)
          PROVE  SafeStep
      BY <2>3, IdleSafe DEF UnregisterBegin, UnregisterContinue, BeginTransition, ContinueTransition,
                            lifecycle, retained
    <2> QED BY <1>2, <2>1, <2>2, <2>3 DEF NodeOperation
  <1>3. CASE Release \/ Tick
    BY <1>3, IdleSafe DEF Release, Tick, lifecycle, retained
  <1> QED BY <1>1, <1>2, <1>3, ClientSafe, WorkerSafe DEF Next

\* What cancel, expiry, unregister, accept_encrypted_response and retrieval do to one request:
\* no step rewrites or drops an outcome before its retention ends, drops a response before its
\* replay deadline, or loses queued work.
THEOREM OutcomesAreKept == Spec => OutcomeKept
  <1>1. IInv /\ OutcomeInv /\ [Next]_vars => [OutcomeStep /\ ReplayStep /\ DropStep]_vars
    BY NextSafe DEF SafeStep, KeepingStep
  <1> QED BY <1>1, Invariant, OutcomeInvariant, PTL DEF Spec, OutcomeKept

\* claim_queued_request, renew_claim_or_read_control and _terminalize_locked: no step steals or
\* shortens a running lease, and a request that ends under one leaves its worker the response it
\* sent itself or a stop instruction for its generation.
THEOREM WorkersAreFenced == Spec => WorkerFenced
  <1>1. IInv /\ OutcomeInv /\ [Next]_vars => [FencedStep /\ StopStep]_vars
    BY NextSafe DEF SafeStep, FencingStep
  <1> QED BY <1>1, Invariant, OutcomeInvariant, PTL DEF Spec, WorkerFenced
--------------------------------------------------------------------------------
(* The configured bounds                                                   *)

Within(S, b) == IsFiniteSet(S) /\ Cardinality(S) <= b

\* One more element fits where there is room, and none is needed for a subset.
LEMMA WithinGrow ==
    ASSUME NEW S, NEW T, NEW x, NEW b \in Nat, Within(S, b), T \subseteq S \cup {x},
           T \subseteq S \/ Cardinality(S) < b
    PROVE  Within(T, b)
  <1>1. IsFiniteSet(S) /\ Cardinality(S) \in Nat /\ Cardinality(S) <= b
    BY FS_CardinalityType DEF Within
  <1>2. CASE T \subseteq S
    <2>1. IsFiniteSet(T) /\ Cardinality(T) <= Cardinality(S)
      BY <1>1, <1>2, FS_Subset
    <2>2. Cardinality(T) \in Nat
      BY <2>1, FS_CardinalityType
    <2> QED BY <1>1, <2>1, <2>2 DEF Within
  <1>3. CASE Cardinality(S) < b
    <2>1. /\ IsFiniteSet(S \cup {x})
          /\ Cardinality(S \cup {x}) = IF x \in S THEN Cardinality(S) ELSE Cardinality(S) + 1
      BY <1>1, FS_AddElement
    <2>2. IsFiniteSet(T) /\ Cardinality(T) <= Cardinality(S \cup {x})
      BY <2>1, FS_Subset
    <2>3. Cardinality(T) \in Nat
      BY <2>2, FS_CardinalityType
    <2> QED BY <1>1, <1>3, <2>1, <2>2, <2>3 DEF Within
  <1> QED BY <1>2, <1>3

\* A subset fits.
LEMMA WithinShrink ==
    ASSUME NEW S, NEW T, NEW b \in Nat, Within(S, b), T \subseteq S
    PROVE  Within(T, b)
  BY WithinGrow

\* The empty set fits.
LEMMA WithinEmpty ==
    ASSUME NEW b \in Nat
    PROVE  Within({}, b)
  BY FS_EmptySet DEF Within

\* Every bound of the configuration is a natural number.
LEMMA SettingIsNat ==
    ASSUME NEW f \in ConfigField
    PROVE  config[f] \in Nat
  <1>1. config \in [ConfigField -> Positive]
    BY ConfigAssumption DEF ConfigValid
  <1> QED BY <1>1 DEF Positive

\* The bounds of this section are among them.
LEMMA BoundsAreNat ==
    /\ config["max_compute_nodes"] \in Nat
    /\ config["max_pending_node_transitions"] \in Nat
    /\ config["max_node_tombstones"] \in Nat
    /\ config["max_removed_owner_fences"] \in Nat
    /\ config["max_scheduler_fingerprints"] \in Nat
    /\ config["max_reservations"] \in Nat
    /\ config["max_queued_requests"] \in Nat
    /\ config["max_request_lifecycles"] \in Nat
    /\ config["max_reservations_per_node"] \in Nat
    /\ config["max_queue_depth_per_node"] \in Nat
    /\ config["max_reservations_per_client"] \in Nat
    /\ config["max_queued_requests_per_client"] \in Nat
    /\ config["max_claims"] \in Nat
    /\ config["max_claims_per_node"] \in Nat
    /\ config["max_responses"] \in Nat
    /\ config["max_terminal_records"] \in Nat
    /\ config["max_control_tombstones"] \in Nat
    /\ config["max_control_tombstones_per_node"] \in Nat
    /\ config["max_responses_per_client"] \in Nat
    /\ config["max_terminal_records_per_client"] \in Nat
  <1>1. /\ "max_compute_nodes" \in ConfigField
        /\ "max_pending_node_transitions" \in ConfigField
        /\ "max_node_tombstones" \in ConfigField
        /\ "max_removed_owner_fences" \in ConfigField
        /\ "max_scheduler_fingerprints" \in ConfigField
        /\ "max_reservations" \in ConfigField
        /\ "max_queued_requests" \in ConfigField
        /\ "max_request_lifecycles" \in ConfigField
        /\ "max_reservations_per_node" \in ConfigField
        /\ "max_queue_depth_per_node" \in ConfigField
        /\ "max_reservations_per_client" \in ConfigField
        /\ "max_queued_requests_per_client" \in ConfigField
        /\ "max_claims" \in ConfigField
        /\ "max_claims_per_node" \in ConfigField
        /\ "max_responses" \in ConfigField
        /\ "max_terminal_records" \in ConfigField
        /\ "max_control_tombstones" \in ConfigField
        /\ "max_control_tombstones_per_node" \in ConfigField
        /\ "max_responses_per_client" \in ConfigField
        /\ "max_terminal_records_per_client" \in ConfigField
    BY DEF ConfigField
  <1>2. \A f \in ConfigField : config[f] \in Nat
    BY SettingIsNat
  <1> QED BY <1>1, <1>2, Zenon

OfNode(f, n) == {i \in DOMAIN f : f[i].node = n}
ByClient(S, c) == {i \in S : i[1] = c}

RegistryBound ==
    /\ Within(DOMAIN records, config["max_compute_nodes"])
    /\ Within(DOMAIN pending, config["max_pending_node_transitions"])
    /\ Within(DOMAIN node_tombstones, config["max_node_tombstones"])
    /\ Within(DOMAIN former, config["max_removed_owner_fences"])
    /\ Within(DOMAIN cursors, config["max_scheduler_fingerprints"])

LiveBound ==
    /\ Within(DOMAIN reservations, config["max_reservations"])
    /\ Within(DOMAIN queued, config["max_queued_requests"])
    /\ Within(Live, config["max_request_lifecycles"])
    /\ \A n \in Node : /\ Within(OfNode(reservations, n), config["max_reservations_per_node"])
                       /\ Within(OfNode(queued, n), config["max_queue_depth_per_node"])
    /\ \A c \in Client :
         /\ Within(ByClient(Live, c), config["max_reservations_per_client"])
         /\ Within(ByClient(DOMAIN queued, c), config["max_queued_requests_per_client"])

ClaimBound ==
    /\ Within(ActiveClaims, config["max_claims"])
    /\ \A n \in Node : Within({i \in ActiveClaims : claims[i].node = n}, config["max_claims_per_node"])

RetainedBound ==
    /\ Within(DOMAIN responses, config["max_responses"])
    /\ Within(DOMAIN terminals, config["max_terminal_records"])
    /\ Within(DOMAIN tombstones, config["max_control_tombstones"])
    /\ \A n \in Node : Within(OfNode(tombstones, n), config["max_control_tombstones_per_node"])
    /\ \A c \in Client :
         /\ Within(ByClient(DOMAIN responses, c), config["max_responses_per_client"])
         /\ Within(ByClient(DOMAIN terminals, c), config["max_terminal_records_per_client"])

BoundInv == RegistryBound /\ LiveBound /\ ClaimBound /\ RetainedBound

\* Reserved and queued work are counted apart and together alike.
LEMMA LiveCounted ==
    ASSUME IInv, LiveBound
    PROVE  /\ Cardinality(Live) = Cardinality(DOMAIN reservations) + Cardinality(DOMAIN queued)
           /\ \A c : Cardinality(ByClient(Live, c)) = OfClient(reservations, c) + OfClient(queued, c)
  <1>1. IsFiniteSet(DOMAIN reservations) /\ IsFiniteSet(DOMAIN queued)
    BY DEF LiveBound, Within
  <1>2. DOMAIN reservations \cap DOMAIN queued = {}
    BY DEF IInv, Consistent, LifecycleExclusive
  <1>3. ASSUME NEW S, NEW T, IsFiniteSet(S), IsFiniteSet(T), S \cap T = {}
        PROVE  Cardinality(S \cup T) = Cardinality(S) + Cardinality(T)
    <2>1. Cardinality(S \cup T) = Cardinality(S) + Cardinality(T) - Cardinality(S \cap T)
      BY <1>3, FS_Union
    <2>2. Cardinality(S \cap T) = 0
      BY <1>3, FS_EmptySet
    <2>3. Cardinality(S) \in Nat /\ Cardinality(T) \in Nat
      BY <1>3, FS_CardinalityType
    <2> QED BY <2>1, <2>2, <2>3
  <1>4. Cardinality(Live) = Cardinality(DOMAIN reservations) + Cardinality(DOMAIN queued)
    BY <1>1, <1>2, <1>3 DEF Live
  <1>5. ASSUME NEW c
        PROVE  Cardinality(ByClient(Live, c)) = OfClient(reservations, c) + OfClient(queued, c)
    <2> DEFINE S == ByClient(DOMAIN reservations, c)
               T == ByClient(DOMAIN queued, c)
    <2>1. S \subseteq DOMAIN reservations /\ T \subseteq DOMAIN queued
      BY DEF ByClient
    <2>2. IsFiniteSet(S) /\ IsFiniteSet(T)
      BY <1>1, <2>1, FS_Subset
    <2>3. S \cap T = {} /\ ByClient(Live, c) = S \cup T
      BY <1>2, <2>1 DEF ByClient, Live
    <2>4. OfClient(reservations, c) = Cardinality(S) /\ OfClient(queued, c) = Cardinality(T)
      BY DEF OfClient, ByClient
    <2> HIDE DEF S, T
    <2> QED BY <1>3, <2>2, <2>3, <2>4
  <1> QED BY <1>4, <1>5

\* The bounds as the store counts them.
LEMMA BoundIsBounded ==
    ASSUME IInv, BoundInv
    PROVE  Bounded
  <1>1. ASSUME NEW c \in Client
        PROVE  /\ OfClient(reservations, c) + OfClient(queued, c)
                    <= config["max_reservations_per_client"]
               /\ OfClient(queued, c) <= config["max_queued_requests_per_client"]
               /\ OfClient(responses, c) <= config["max_responses_per_client"]
               /\ OfClient(terminals, c) <= config["max_terminal_records_per_client"]
    <2>1. Cardinality(ByClient(Live, c)) <= config["max_reservations_per_client"]
      BY DEF BoundInv, LiveBound, Within
    <2>2. Cardinality(ByClient(Live, c)) = OfClient(reservations, c) + OfClient(queued, c)
      BY LiveCounted DEF BoundInv
    <2>3. OfClient(queued, c) <= config["max_queued_requests_per_client"]
      BY DEF BoundInv, LiveBound, Within, OfClient, ByClient
    <2>4. /\ OfClient(responses, c) <= config["max_responses_per_client"]
          /\ OfClient(terminals, c) <= config["max_terminal_records_per_client"]
      BY DEF BoundInv, RetainedBound, Within, OfClient, ByClient
    <2> QED BY <2>1, <2>2, <2>3, <2>4
  <1>2. ASSUME NEW n \in Node
        PROVE  /\ OnNode(reservations, n) <= config["max_reservations_per_node"]
               /\ Cardinality(Queue(n)) <= config["max_queue_depth_per_node"]
               /\ OnNode(tombstones, n) <= config["max_control_tombstones_per_node"]
               /\ Cardinality({i \in ActiveClaims : claims[i].node = n})
                    <= config["max_claims_per_node"]
    <2>1. Queue(n) = OfNode(queued, n)
      BY DEF IInv, Consistent, IndexExact, QueueIndexed, OfNode
    <2>2. Cardinality(OfNode(queued, n)) <= config["max_queue_depth_per_node"]
      BY DEF BoundInv, LiveBound, Within
    <2>3. OnNode(reservations, n) <= config["max_reservations_per_node"]
      BY DEF BoundInv, LiveBound, Within, OnNode, OfNode
    <2>4. OnNode(tombstones, n) <= config["max_control_tombstones_per_node"]
      BY DEF BoundInv, RetainedBound, Within, OnNode, OfNode
    <2>5. Cardinality({i \in ActiveClaims : claims[i].node = n}) <= config["max_claims_per_node"]
      BY DEF BoundInv, ClaimBound, Within
    <2> QED BY <2>1, <2>2, <2>3, <2>4, <2>5
  <1>3. /\ Cardinality(DOMAIN records) <= config["max_compute_nodes"]
        /\ Cardinality(DOMAIN pending) <= config["max_pending_node_transitions"]
        /\ Cardinality(DOMAIN node_tombstones) <= config["max_node_tombstones"]
        /\ Cardinality(DOMAIN former) <= config["max_removed_owner_fences"]
        /\ Cardinality(DOMAIN cursors) <= config["max_scheduler_fingerprints"]
    BY DEF BoundInv, RegistryBound, Within
  <1>4. /\ Cardinality(DOMAIN reservations) <= config["max_reservations"]
        /\ Cardinality(Live) <= config["max_request_lifecycles"]
        /\ Cardinality(DOMAIN queued) <= config["max_queued_requests"]
    BY DEF BoundInv, LiveBound, Within
  <1>5. /\ Cardinality(DOMAIN responses) <= config["max_responses"]
        /\ Cardinality(DOMAIN terminals) <= config["max_terminal_records"]
        /\ Cardinality(DOMAIN tombstones) <= config["max_control_tombstones"]
        /\ Cardinality(ActiveClaims) <= config["max_claims"]
    BY DEF BoundInv, RetainedBound, ClaimBound, Within
  <1> QED BY <1>1, <1>2, <1>3, <1>4, <1>5 DEF Bounded

\* Live work that only leaves stays within its bounds.
LEMMA LiveShrinks ==
    ASSUME LiveBound, DOMAIN reservations' \subseteq DOMAIN reservations,
           DOMAIN queued' \subseteq DOMAIN queued,
           \A j \in DOMAIN reservations' : reservations'[j] = reservations[j],
           \A j \in DOMAIN queued' : queued'[j] = queued[j]
    PROVE  LiveBound'
  <1>1. /\ config["max_reservations"] \in Nat /\ config["max_queued_requests"] \in Nat
        /\ config["max_request_lifecycles"] \in Nat /\ config["max_reservations_per_node"] \in Nat
        /\ config["max_queue_depth_per_node"] \in Nat
        /\ config["max_reservations_per_client"] \in Nat
        /\ config["max_queued_requests_per_client"] \in Nat
    BY BoundsAreNat
  <1>2. Live' \subseteq Live
    BY DEF Live
  <1>3. ASSUME NEW n \in Node
        PROVE  /\ Within(OfNode(reservations, n)', config["max_reservations_per_node"])
               /\ Within(OfNode(queued, n)', config["max_queue_depth_per_node"])
    <2>1. OfNode(reservations, n)' \subseteq OfNode(reservations, n)
      BY DEF OfNode
    <2>2. OfNode(queued, n)' \subseteq OfNode(queued, n)
      BY DEF OfNode
    <2> QED BY <1>1, <2>1, <2>2, WithinShrink DEF LiveBound
  <1>4. ASSUME NEW c \in Client
        PROVE  /\ Within(ByClient(Live, c)', config["max_reservations_per_client"])
               /\ Within(ByClient(DOMAIN queued, c)', config["max_queued_requests_per_client"])
    <2>1. ByClient(Live, c)' \subseteq ByClient(Live, c)
      BY <1>2 DEF ByClient
    <2>2. ByClient(DOMAIN queued, c)' \subseteq ByClient(DOMAIN queued, c)
      BY DEF ByClient
    <2> QED BY <1>1, <2>1, <2>2, WithinShrink DEF LiveBound
  <1>5. /\ Within(DOMAIN reservations', config["max_reservations"])
        /\ Within(DOMAIN queued', config["max_queued_requests"])
        /\ Within(Live', config["max_request_lifecycles"])
    BY <1>1, <1>2, WithinShrink DEF LiveBound
  <1> QED BY <1>3, <1>4, <1>5 DEF LiveBound

\* Claims that end, or go on as they are, stay within their bounds.
LEMMA ClaimShrinks ==
    ASSUME ClaimBound,
           \A j \in DOMAIN claims' : /\ j \in DOMAIN claims /\ claims'[j].node = claims[j].node
                                     /\ claims'[j].lease > now' => claims[j].lease > now
    PROVE  ClaimBound'
  <1>1. config["max_claims"] \in Nat /\ config["max_claims_per_node"] \in Nat
    BY BoundsAreNat
  <1>2. ActiveClaims' \subseteq ActiveClaims
    BY DEF ActiveClaims
  <1>3. ASSUME NEW n \in Node
        PROVE  Within({i \in ActiveClaims' : claims'[i].node = n}, config["max_claims_per_node"])
    <2>1. {i \in ActiveClaims' : claims'[i].node = n} \subseteq {i \in ActiveClaims : claims[i].node = n}
      BY <1>2 DEF ActiveClaims
    <2> QED BY <1>1, <2>1, WithinShrink DEF ClaimBound
  <1>4. Within(ActiveClaims', config["max_claims"])
    BY <1>1, <1>2, WithinShrink DEF ClaimBound
  <1> QED BY <1>3, <1>4 DEF ClaimBound

\* Retained records that only go stay within their bounds.
LEMMA RetainedShrinks ==
    ASSUME RetainedBound, DOMAIN responses' \subseteq DOMAIN responses,
           DOMAIN terminals' \subseteq DOMAIN terminals,
           DOMAIN tombstones' \subseteq DOMAIN tombstones,
           \A j \in DOMAIN tombstones' : tombstones'[j].node = tombstones[j].node
    PROVE  RetainedBound'
  <1>1. /\ config["max_responses"] \in Nat /\ config["max_terminal_records"] \in Nat
        /\ config["max_control_tombstones"] \in Nat /\ config["max_control_tombstones_per_node"] \in Nat
        /\ config["max_responses_per_client"] \in Nat
        /\ config["max_terminal_records_per_client"] \in Nat
    BY BoundsAreNat
  <1>2. ASSUME NEW n \in Node
        PROVE  Within(OfNode(tombstones, n)', config["max_control_tombstones_per_node"])
    <2>1. OfNode(tombstones, n)' \subseteq OfNode(tombstones, n)
      BY DEF OfNode
    <2> QED BY <1>1, <2>1, WithinShrink DEF RetainedBound
  <1>3. ASSUME NEW c \in Client
        PROVE  /\ Within(ByClient(DOMAIN responses, c)', config["max_responses_per_client"])
               /\ Within(ByClient(DOMAIN terminals, c)', config["max_terminal_records_per_client"])
    <2>1. /\ ByClient(DOMAIN responses, c)' \subseteq ByClient(DOMAIN responses, c)
          /\ ByClient(DOMAIN terminals, c)' \subseteq ByClient(DOMAIN terminals, c)
      BY DEF ByClient
    <2> QED BY <1>1, <2>1, WithinShrink DEF RetainedBound
  <1>4. /\ Within(DOMAIN responses', config["max_responses"])
        /\ Within(DOMAIN terminals', config["max_terminal_records"])
        /\ Within(DOMAIN tombstones', config["max_control_tombstones"])
    BY <1>1, WithinShrink DEF RetainedBound
  <1> QED BY <1>2, <1>3, <1>4 DEF RetainedBound

\* A new lifecycle was admitted with room for it in every count.
LEMMA LiveSelect ==
    ASSUME IInv, LiveBound, NEW i, NEW fp, NEW deadline, NEW ct, NEW n, NEW gone,
           SelectAndReserve(i, fp, deadline, ct, n, gone)
    PROVE  LiveBound'
  <1>1. /\ Live' = Live \cup {i}
        /\ DOMAIN reservations' = DOMAIN reservations \cup {i}
        /\ \A j \in DOMAIN reservations : reservations'[j] = reservations[j]
        /\ reservations'[i].node = n
        /\ UNCHANGED queued
    BY SelectEffect
  <1>2. AdmissionRoom(i[1]) /\ Selected(fp, n)
    BY DEF SelectAndReserve
  <1>3. /\ Cardinality(DOMAIN reservations) < config["max_reservations"]
        /\ Cardinality(Live) < config["max_request_lifecycles"]
        /\ Cardinality(ByClient(Live, i[1])) < config["max_reservations_per_client"]
    BY <1>2, LiveCounted DEF AdmissionRoom
  <1>4. Cardinality(OfNode(reservations, n)) < config["max_reservations_per_node"]
    <2>1. n \in Tied(fp)
      BY <1>2 DEF Selected
    <2>2. Eligible(n, fp)
      BY <2>1 DEF Tied
    <2> QED BY <2>2 DEF Eligible, OnNode, OfNode
  <1>5. ASSUME NEW m \in Node
        PROVE  /\ Within(OfNode(reservations, m)', config["max_reservations_per_node"])
               /\ Within(OfNode(queued, m)', config["max_queue_depth_per_node"])
    <2>1. /\ OfNode(reservations, m)' \subseteq OfNode(reservations, m) \cup {i}
          /\ m # n => OfNode(reservations, m)' \subseteq OfNode(reservations, m)
      BY <1>1 DEF OfNode
    <2>2. Within(OfNode(reservations, m), config["max_reservations_per_node"])
      BY DEF LiveBound
    <2>3. Within(OfNode(reservations, m)', config["max_reservations_per_node"])
      BY <1>4, <2>1, <2>2, BoundsAreNat, WithinGrow
    <2>4. OfNode(queued, m)' = OfNode(queued, m)
      BY <1>1 DEF OfNode
    <2> QED BY <2>3, <2>4 DEF LiveBound
  <1>6. ASSUME NEW c \in Client
        PROVE  /\ Within(ByClient(Live, c)', config["max_reservations_per_client"])
               /\ Within(ByClient(DOMAIN queued, c)', config["max_queued_requests_per_client"])
    <2>1. /\ ByClient(Live, c)' \subseteq ByClient(Live, c) \cup {i}
          /\ c # i[1] => ByClient(Live, c)' \subseteq ByClient(Live, c)
      BY <1>1 DEF ByClient
    <2>2. Within(ByClient(Live, c), config["max_reservations_per_client"])
      BY DEF LiveBound
    <2>3. Within(ByClient(Live, c)', config["max_reservations_per_client"])
      BY <1>3, <2>1, <2>2, BoundsAreNat, WithinGrow
    <2>4. ByClient(DOMAIN queued, c)' = ByClient(DOMAIN queued, c)
      BY <1>1 DEF ByClient
    <2> QED BY <2>3, <2>4 DEF LiveBound
  <1>7. /\ Within(DOMAIN reservations', config["max_reservations"])
        /\ Within(Live', config["max_request_lifecycles"])
        /\ Within(DOMAIN queued', config["max_queued_requests"])
    <2>1. /\ Within(DOMAIN reservations, config["max_reservations"])
          /\ Within(Live, config["max_request_lifecycles"])
          /\ Within(DOMAIN queued, config["max_queued_requests"])
      BY DEF LiveBound
    <2> QED BY <1>1, <1>3, <2>1, BoundsAreNat, WithinGrow
  <1> QED BY <1>5, <1>6, <1>7 DEF LiveBound

\* Queued work had room in its queue, in all queues and for its client.
LEMMA LiveEnqueue ==
    ASSUME IInv, LiveBound, NEW i, NEW fp, NEW deadline, NEW token, NEW n, NEW ct,
           EnqueueEncryptedRequest(i, fp, deadline, token, n, ct)
    PROVE  LiveBound'
  <1>1. /\ Live' = Live
        /\ DOMAIN queued' = DOMAIN queued \cup {i} /\ queued'[i].node = n
        /\ DOMAIN reservations' = DOMAIN reservations \ {i}
        /\ \A j \in DOMAIN queued : queued'[j] = queued[j]
        /\ \A j \in DOMAIN reservations' : reservations'[j] = reservations[j]
    BY EnqueueEffect
  <1>2. n \in Node /\ QueueRoom(i, n)
    BY DEF EnqueueEncryptedRequest, IInv, TypeOK, RegistryTypeOK, IsMap
  <1>3. Queue(n) = OfNode(queued, n)
    BY <1>2 DEF IInv, Consistent, IndexExact, QueueIndexed, OfNode
  <1>4. /\ Cardinality(OfNode(queued, n)) < config["max_queue_depth_per_node"]
        /\ Cardinality(DOMAIN queued) < config["max_queued_requests"]
        /\ Cardinality(ByClient(DOMAIN queued, i[1])) < config["max_queued_requests_per_client"]
    BY <1>2, <1>3 DEF QueueRoom, OfClient, ByClient
  <1>5. ASSUME NEW m \in Node
        PROVE  /\ Within(OfNode(reservations, m)', config["max_reservations_per_node"])
               /\ Within(OfNode(queued, m)', config["max_queue_depth_per_node"])
    <2>1. /\ OfNode(queued, m)' \subseteq OfNode(queued, m) \cup {i}
          /\ m # n => OfNode(queued, m)' \subseteq OfNode(queued, m)
      BY <1>1 DEF OfNode
    <2>2. Within(OfNode(queued, m), config["max_queue_depth_per_node"])
      BY DEF LiveBound
    <2>3. Within(OfNode(queued, m)', config["max_queue_depth_per_node"])
      BY <1>4, <2>1, <2>2, BoundsAreNat, WithinGrow
    <2>4. OfNode(reservations, m)' \subseteq OfNode(reservations, m)
      BY <1>1 DEF OfNode
    <2>5. Within(OfNode(reservations, m), config["max_reservations_per_node"])
      BY DEF LiveBound
    <2> QED BY <2>3, <2>4, <2>5, BoundsAreNat, WithinShrink
  <1>6. ASSUME NEW c \in Client
        PROVE  /\ Within(ByClient(Live, c)', config["max_reservations_per_client"])
               /\ Within(ByClient(DOMAIN queued, c)', config["max_queued_requests_per_client"])
    <2>1. /\ ByClient(DOMAIN queued, c)' \subseteq ByClient(DOMAIN queued, c) \cup {i}
          /\ c # i[1] => ByClient(DOMAIN queued, c)' \subseteq ByClient(DOMAIN queued, c)
      BY <1>1 DEF ByClient
    <2>2. Within(ByClient(DOMAIN queued, c), config["max_queued_requests_per_client"])
      BY DEF LiveBound
    <2>3. Within(ByClient(DOMAIN queued, c)', config["max_queued_requests_per_client"])
      BY <1>4, <2>1, <2>2, BoundsAreNat, WithinGrow
    <2>4. ByClient(Live, c)' = ByClient(Live, c)
      BY <1>1 DEF ByClient
    <2> QED BY <2>3, <2>4 DEF LiveBound
  <1>7. /\ Within(DOMAIN reservations', config["max_reservations"])
        /\ Within(Live', config["max_request_lifecycles"])
        /\ Within(DOMAIN queued', config["max_queued_requests"])
    <2>1. /\ Within(DOMAIN reservations, config["max_reservations"])
          /\ Within(Live, config["max_request_lifecycles"])
          /\ Within(DOMAIN queued, config["max_queued_requests"])
      BY DEF LiveBound
    <2>2. DOMAIN reservations' \subseteq DOMAIN reservations
      BY <1>1
    <2>3. Within(DOMAIN reservations', config["max_reservations"])
      BY <2>1, <2>2, BoundsAreNat, WithinShrink
    <2> QED BY <1>1, <1>4, <2>1, <2>3, BoundsAreNat, WithinGrow
  <1> QED BY <1>5, <1>6, <1>7 DEF LiveBound

\* A new claim counts against the claims whose lease is running.
LEMMA ClaimGrows ==
    ASSUME IInv, ClaimBound, NEW n, NEW cred, NEW consumer, NEW i,
           ClaimQueuedRequest(n, cred, consumer, i)
    PROVE  ClaimBound'
  <1>1. PICK c : claims' = Put(claims, i, c) /\ c.node = n /\ UNCHANGED now
    BY ClaimEffect
  <1>2. /\ DOMAIN claims' = DOMAIN claims \cup {i} /\ claims'[i] = c
        /\ \A j \in DOMAIN claims : j # i => claims'[j] = claims[j]
    BY <1>1 DEF Put
  <1>3. /\ Cardinality(ActiveClaims) < config["max_claims"]
        /\ Cardinality({j \in ActiveClaims : claims[j].node = n}) < config["max_claims_per_node"]
    BY DEF ClaimQueuedRequest, ClaimRoom
  <1>4. ActiveClaims' \subseteq ActiveClaims \cup {i}
    BY <1>1, <1>2 DEF ActiveClaims
  <1>5. Within(ActiveClaims', config["max_claims"])
    BY <1>3, <1>4, BoundsAreNat, WithinGrow DEF ClaimBound
  <1>6. ASSUME NEW m \in Node
        PROVE  Within({j \in ActiveClaims' : claims'[j].node = m}, config["max_claims_per_node"])
    <2> DEFINE S == {j \in ActiveClaims : claims[j].node = m}
               T == {j \in ActiveClaims' : claims'[j].node = m}
    <2>1. T \subseteq S \cup {i} /\ (m # n => T \subseteq S)
      BY <1>1, <1>2 DEF ActiveClaims
    <2>2. Within(S, config["max_claims_per_node"])
      BY DEF ClaimBound
    <2>3. m = n => Cardinality(S) < config["max_claims_per_node"]
      BY <1>3
    <2> HIDE DEF S, T
    <2>4. Within(T, config["max_claims_per_node"])
      BY <2>1, <2>2, <2>3, BoundsAreNat, WithinGrow
    <2> QED BY <2>4 DEF T
  <1> QED BY <1>5, <1>6 DEF ClaimBound

\* A forgotten claim is one less; a renewed one was counted already.
LEMMA ClaimForgotten ==
    ASSUME IInv, ClaimBound, NEW i \in Live, Forget(i), UNCHANGED now
    PROVE  ClaimBound'
  <1>1. /\ DOMAIN claims' = DOMAIN claims \ {i}
        /\ \A j \in DOMAIN claims' : claims'[j] = claims[j]
    BY ForgetEffect
  <1> QED BY <1>1, ClaimShrinks

\* A decision found room for its terminal record and for its stop instruction.
LEMMA RetainedTerminalize ==
    ASSUME IInv, RetainedBound, NEW i \in Live, NEW status, NEW reason, NEW force,
           Terminalize(i, status, reason, force)
    PROVE  RetainedBound'
  <1>1. /\ DOMAIN terminals' = DOMAIN terminals \cup {i} /\ responses' = responses
        /\ \A j \in DOMAIN tombstones : j # i => tombstones'[j] = tombstones[j]
    BY TerminalizeEffect
  <1>2. TerminalRoom(i)
    BY DEF Terminalize, CanTerminalize
  <1>3. /\ Cardinality(DOMAIN terminals) < config["max_terminal_records"]
        /\ Cardinality(ByClient(DOMAIN terminals, i[1])) < config["max_terminal_records_per_client"]
    BY <1>2 DEF TerminalRoom, OfClient, ByClient
  <1>4. Within(DOMAIN terminals', config["max_terminal_records"])
    BY <1>1, <1>3, BoundsAreNat, WithinGrow DEF RetainedBound
  <1>5. ASSUME NEW c \in Client
        PROVE  /\ Within(ByClient(DOMAIN responses, c)', config["max_responses_per_client"])
               /\ Within(ByClient(DOMAIN terminals, c)', config["max_terminal_records_per_client"])
    <2>1. /\ ByClient(DOMAIN terminals, c)' \subseteq ByClient(DOMAIN terminals, c) \cup {i}
          /\ c # i[1] => ByClient(DOMAIN terminals, c)' \subseteq ByClient(DOMAIN terminals, c)
      BY <1>1 DEF ByClient
    <2>2. Within(ByClient(DOMAIN terminals, c), config["max_terminal_records_per_client"])
      BY DEF RetainedBound
    <2>3. Within(ByClient(DOMAIN terminals, c)', config["max_terminal_records_per_client"])
      BY <1>3, <2>1, <2>2, BoundsAreNat, WithinGrow
    <2>4. ByClient(DOMAIN responses, c)' = ByClient(DOMAIN responses, c)
      BY <1>1 DEF ByClient
    <2> QED BY <2>3, <2>4 DEF RetainedBound
  <1>6. /\ Within(DOMAIN tombstones', config["max_control_tombstones"])
        /\ \A n \in Node : Within(OfNode(tombstones, n)', config["max_control_tombstones_per_node"])
    <2>1. CASE ~TombstonedClaim(i, status, force)
      <3>1. tombstones' = tombstones
        BY <2>1, TerminalizeEffect
      <3> QED BY <3>1 DEF RetainedBound, OfNode
    <2>2. CASE TombstonedClaim(i, status, force)
      <3>1. DOMAIN tombstones' = DOMAIN tombstones \cup {i} /\ tombstones'[i].node = claims[i].node
        BY <2>2, StopEffect
      <3>2. TombstoneRoom(claims[i].node)
        BY <2>2 DEF Terminalize, CanTerminalize
      <3>3. /\ Cardinality(DOMAIN tombstones) < config["max_control_tombstones"]
            /\ Cardinality(OfNode(tombstones, claims[i].node))
                 < config["max_control_tombstones_per_node"]
        BY <3>2 DEF TombstoneRoom, OnNode, OfNode
      <3>4. Within(DOMAIN tombstones', config["max_control_tombstones"])
        BY <3>1, <3>3, BoundsAreNat, WithinGrow DEF RetainedBound
      <3>5. ASSUME NEW n \in Node
            PROVE  Within(OfNode(tombstones, n)', config["max_control_tombstones_per_node"])
        <4>1. /\ OfNode(tombstones, n)' \subseteq OfNode(tombstones, n) \cup {i}
              /\ n # claims[i].node => OfNode(tombstones, n)' \subseteq OfNode(tombstones, n)
          BY <1>1, <3>1 DEF OfNode
        <4>2. Within(OfNode(tombstones, n), config["max_control_tombstones_per_node"])
          BY DEF RetainedBound
        <4> QED BY <3>3, <4>1, <4>2, BoundsAreNat, WithinGrow
      <3> QED BY <3>4, <3>5
    <2> QED BY <2>1, <2>2
  <1> QED BY <1>1, <1>4, <1>5, <1>6 DEF RetainedBound

\* An accepted response found room for itself and for its terminal record.
LEMMA RetainedAccept ==
    ASSUME IInv, RetainedBound, NEW n, NEW cred, NEW consumer, NEW i, NEW gen, NEW reply,
           AcceptResponse(n, cred, consumer, i, gen, reply)
    PROVE  RetainedBound'
  <1>0. PICK r, t : /\ responses' = Put(responses, i, r) /\ terminals' = Put(terminals, i, t)
                    /\ UNCHANGED tombstones
    BY AcceptEffect
  <1>1. DOMAIN responses' = DOMAIN responses \cup {i} /\ DOMAIN terminals' = DOMAIN terminals \cup {i}
    BY <1>0 DEF Put
  <1>2. TerminalRoom(i) /\ ResponseRoom(i[1])
    BY DEF AcceptResponse
  <1>3. /\ Cardinality(DOMAIN terminals) < config["max_terminal_records"]
        /\ Cardinality(ByClient(DOMAIN terminals, i[1])) < config["max_terminal_records_per_client"]
        /\ Cardinality(DOMAIN responses) < config["max_responses"]
        /\ Cardinality(ByClient(DOMAIN responses, i[1])) < config["max_responses_per_client"]
    BY <1>2 DEF TerminalRoom, ResponseRoom, OfClient, ByClient
  <1>4. /\ Within(DOMAIN terminals', config["max_terminal_records"])
        /\ Within(DOMAIN responses', config["max_responses"])
    BY <1>1, <1>3, BoundsAreNat, WithinGrow DEF RetainedBound
  <1>5. ASSUME NEW c \in Client
        PROVE  /\ Within(ByClient(DOMAIN responses, c)', config["max_responses_per_client"])
               /\ Within(ByClient(DOMAIN terminals, c)', config["max_terminal_records_per_client"])
    <2>1. /\ ByClient(DOMAIN terminals, c)' \subseteq ByClient(DOMAIN terminals, c) \cup {i}
          /\ c # i[1] => ByClient(DOMAIN terminals, c)' \subseteq ByClient(DOMAIN terminals, c)
      BY <1>1 DEF ByClient
    <2>2. /\ ByClient(DOMAIN responses, c)' \subseteq ByClient(DOMAIN responses, c) \cup {i}
          /\ c # i[1] => ByClient(DOMAIN responses, c)' \subseteq ByClient(DOMAIN responses, c)
      BY <1>1 DEF ByClient
    <2>3. /\ Within(ByClient(DOMAIN responses, c), config["max_responses_per_client"])
          /\ Within(ByClient(DOMAIN terminals, c), config["max_terminal_records_per_client"])
      BY DEF RetainedBound
    <2>4. Within(ByClient(DOMAIN responses, c)', config["max_responses_per_client"])
      BY <1>3, <2>2, <2>3, BoundsAreNat, WithinGrow
    <2>5. Within(ByClient(DOMAIN terminals, c)', config["max_terminal_records_per_client"])
      BY <1>3, <2>1, <2>3, BoundsAreNat, WithinGrow
    <2> QED BY <2>4, <2>5
  <1> QED BY <1>0, <1>4, <1>5 DEF RetainedBound, OfNode

\* Reaping the retained records only drops some.
LEMMA RetainedEnter ==
    ASSUME IInv, RetainedBound, NEW phase, Enter(phase)
    PROVE  RetainedBound'
  <1>1. /\ responses' = Drop(responses, {i \in DOMAIN responses : ReplayOver(i)})
        /\ terminals' = [i \in {j \in DOMAIN terminals : TerminalKept(j)} |-> ReapedTerminal(i)]
        /\ tombstones' =
             Drop(tombstones, {i \in DOMAIN tombstones : tombstones[i].expires <= now})
    BY DEF Enter, ReapRetained
  <1>2. /\ DOMAIN responses' \subseteq DOMAIN responses /\ DOMAIN tombstones' \subseteq DOMAIN tombstones
        /\ \A j \in DOMAIN tombstones' : tombstones'[j] = tombstones[j]
    BY <1>1 DEF Drop
  <1>3. DOMAIN terminals' \subseteq DOMAIN terminals
    BY <1>1
  <1> QED BY <1>2, <1>3, RetainedShrinks

\* The registry stays within its bounds while it only loses entries.
LEMMA RegistryShrinks ==
    ASSUME RegistryBound, DOMAIN records' \subseteq DOMAIN records,
           DOMAIN pending' \subseteq DOMAIN pending,
           DOMAIN node_tombstones' \subseteq DOMAIN node_tombstones,
           DOMAIN former' \subseteq DOMAIN former, DOMAIN cursors' \subseteq DOMAIN cursors
    PROVE  RegistryBound'
  BY BoundsAreNat, WithinShrink DEF RegistryBound

\* A removal found room for its transition, its fence and its tombstone.
LEMMA RegistryBegin ==
    ASSUME RegistryBound, NEW n, NEW cause, BeginTransition(n, cause)
    PROVE  RegistryBound'
  <1> DEFINE k == <<n, records[n].owner>>
  <1>1. /\ DOMAIN records' \subseteq DOMAIN records /\ DOMAIN cursors' \subseteq DOMAIN cursors
        /\ DOMAIN pending' = DOMAIN pending \cup {n}
        /\ DOMAIN former' = DOMAIN former \cup {k}
        /\ DOMAIN node_tombstones' = DOMAIN node_tombstones \cup {n}
    BY DEF BeginTransition, Drop, Put
  <1>2. /\ Cardinality(DOMAIN pending) < config["max_pending_node_transitions"]
        /\ \/ k \in DOMAIN former
           \/ Cardinality(DOMAIN former) < config["max_removed_owner_fences"]
        /\ \/ n \in DOMAIN node_tombstones
           \/ Cardinality(DOMAIN node_tombstones) < config["max_node_tombstones"]
    BY DEF BeginTransition, TransitionRoom
  <1> HIDE DEF k
  <1>3. Within(DOMAIN pending', config["max_pending_node_transitions"])
    BY <1>1, <1>2, BoundsAreNat, WithinGrow DEF RegistryBound
  <1>4. Within(DOMAIN former', config["max_removed_owner_fences"])
    <2>1. DOMAIN former' \subseteq DOMAIN former \/ Cardinality(DOMAIN former) < config["max_removed_owner_fences"]
      BY <1>1, <1>2
    <2> QED BY <1>1, <2>1, BoundsAreNat, WithinGrow DEF RegistryBound
  <1>5. Within(DOMAIN node_tombstones', config["max_node_tombstones"])
    <2>1. \/ DOMAIN node_tombstones' \subseteq DOMAIN node_tombstones
          \/ Cardinality(DOMAIN node_tombstones) < config["max_node_tombstones"]
      BY <1>1, <1>2
    <2> QED BY <1>1, <2>1, BoundsAreNat, WithinGrow DEF RegistryBound
  <1>6. /\ Within(DOMAIN records', config["max_compute_nodes"])
        /\ Within(DOMAIN cursors', config["max_scheduler_fingerprints"])
    BY <1>1, BoundsAreNat, WithinShrink DEF RegistryBound
  <1> QED BY <1>3, <1>4, <1>5, <1>6 DEF RegistryBound

\* A selection has a cursor already, has room for one, or evicts one.
LEMMA RegistrySelect ==
    ASSUME RegistryBound, NEW i, NEW fp, NEW deadline, NEW ct, NEW n, NEW gone,
           SelectAndReserve(i, fp, deadline, ct, n, gone)
    PROVE  RegistryBound'
  <1>1. /\ UNCHANGED <<records, pending, node_tombstones, former>>
        /\ cursors' = Put(Drop(cursors, gone), fp, <<n, activity'>>)
        /\ Evictable(fp, gone)
    BY DEF SelectAndReserve, registry, removed
  <1>2. DOMAIN cursors' = (DOMAIN cursors \ gone) \cup {fp}
    BY <1>1 DEF Put, Drop
  <1>3. Within(DOMAIN cursors, config["max_scheduler_fingerprints"])
    BY DEF RegistryBound
  <1>4. CASE \/ fp \in DOMAIN cursors
             \/ Cardinality(DOMAIN cursors) < config["max_scheduler_fingerprints"]
    <2>1. /\ DOMAIN cursors' \subseteq DOMAIN cursors \cup {fp}
          /\ \/ DOMAIN cursors' \subseteq DOMAIN cursors
             \/ Cardinality(DOMAIN cursors) < config["max_scheduler_fingerprints"]
      BY <1>2, <1>4
    <2>2. Within(DOMAIN cursors', config["max_scheduler_fingerprints"])
      BY <1>3, <2>1, BoundsAreNat, WithinGrow
    <2> QED BY <1>1, <2>2 DEF RegistryBound
  <1>5. CASE ~(\/ fp \in DOMAIN cursors
               \/ Cardinality(DOMAIN cursors) < config["max_scheduler_fingerprints"])
    <2>1. PICK f \in DOMAIN cursors : gone = {f}
      BY <1>1, <1>5 DEF Evictable
    <2>2. /\ IsFiniteSet(DOMAIN cursors) /\ Cardinality(DOMAIN cursors) \in Nat
          /\ Cardinality(DOMAIN cursors) <= config["max_scheduler_fingerprints"]
      BY <1>3, FS_CardinalityType DEF Within
    <2>3. /\ IsFiniteSet(DOMAIN cursors \ {f})
          /\ Cardinality(DOMAIN cursors \ {f}) = Cardinality(DOMAIN cursors) - 1
      BY <2>2, FS_RemoveElement
    <2>4. Cardinality(DOMAIN cursors \ {f}) \in Nat
      BY <2>3, FS_CardinalityType
    <2>5. /\ Within(DOMAIN cursors \ {f}, config["max_scheduler_fingerprints"])
          /\ Cardinality(DOMAIN cursors \ {f}) < config["max_scheduler_fingerprints"]
      BY <2>2, <2>3, <2>4, BoundsAreNat DEF Within
    <2>6. DOMAIN cursors' \subseteq (DOMAIN cursors \ {f}) \cup {fp}
      BY <1>2, <2>1
    <2>7. Within(DOMAIN cursors', config["max_scheduler_fingerprints"])
      BY <2>5, <2>6, BoundsAreNat, WithinGrow
    <2> QED BY <1>1, <2>7 DEF RegistryBound
  <1> QED BY <1>4, <1>5

\* A step that leaves the live work, the claims and the retained records alone.
LEMMA RequestsIdle ==
    ASSUME IInv, LiveBound, ClaimBound, RetainedBound, now' \in Nat, now' >= now,
           UNCHANGED <<lifecycle, retained>>
    PROVE  LiveBound' /\ ClaimBound' /\ RetainedBound'
  <1>0. UNCHANGED <<reservations, queued, claims, responses, terminals, tombstones>>
    BY DEF lifecycle, retained
  <1>1. LiveBound'
    BY <1>0, LiveShrinks
  <1>2. RetainedBound'
    BY <1>0, RetainedShrinks
  <1>3. now \in Nat /\ \A j \in DOMAIN claims : claims[j].lease \in Nat
    BY TimesTyped
  <1>4. \A j \in DOMAIN claims : claims[j].lease > now' => claims[j].lease > now
    BY <1>3
  <1>5. ClaimBound'
    BY <1>0, <1>4, ClaimShrinks
  <1> QED BY <1>1, <1>2, <1>5

\* A step that decides a request.
LEMMA RequestsTerminalize ==
    ASSUME IInv, LiveBound, ClaimBound, RetainedBound, NEW i \in Live, NEW status, NEW reason,
           NEW force, Terminalize(i, status, reason, force), UNCHANGED now
    PROVE  LiveBound' /\ ClaimBound' /\ RetainedBound'
  <1>1. Forget(i)
    BY DEF Terminalize
  <1>2. /\ DOMAIN reservations' = DOMAIN reservations \ {i}
        /\ DOMAIN queued' = DOMAIN queued \ {i}
        /\ \A j \in DOMAIN reservations' : reservations'[j] = reservations[j]
        /\ \A j \in DOMAIN queued' : queued'[j] = queued[j]
    BY <1>1, ForgetEffect
  <1>3. LiveBound'
    BY <1>2, LiveShrinks
  <1> QED BY <1>1, <1>3, ClaimForgotten, RetainedTerminalize

\* The reaper and the operations of nodes.
LEMMA BoundReaper ==
    ASSUME IInv, BoundInv, Reaper \/ NodeOperation \/ Release \/ Tick \/ UNCHANGED vars
    PROVE  BoundInv'
  <1>0. now \in Nat
    BY TimesTyped
  <1>1. ASSUME UNCHANGED <<lifecycle, retained>>, now' \in Nat, now' >= now, RegistryBound'
        PROVE  BoundInv'
    BY <1>1, RequestsIdle DEF BoundInv
  <1>2. ASSUME NEW phase, Enter(phase) PROVE BoundInv'
    <2>1. /\ UNCHANGED <<now, records, pending, cursors, reservations, queued, claims>>
          /\ node_tombstones' =
               Drop(node_tombstones,
                    {n \in DOMAIN node_tombstones : node_tombstones[n].expires <= now})
          /\ former' = Drop(former, {k \in DOMAIN former : ~FenceKept(k)})
      BY <1>2 DEF Enter, ReapRetained, registry, lifecycle
    <2>2. RegistryBound'
      BY <2>1, RegistryShrinks DEF BoundInv, Drop
    <2>3. LiveBound' /\ ClaimBound'
      BY <2>1, LiveShrinks, ClaimShrinks DEF BoundInv
    <2>4. RetainedBound'
      BY <1>2, RetainedEnter DEF BoundInv
    <2> QED BY <2>2, <2>3, <2>4 DEF BoundInv
  <1>3. ASSUME NEW i \in Identity, DueStep(i) \/ BatchStep(i) PROVE BoundInv'
    <2>1. UNCHANGED <<now, records, pending, node_tombstones, former, cursors>>
      BY <1>3 DEF DueStep, BatchStep, registry, removed
    <2>2. RegistryBound'
      BY <2>1, RegistryShrinks DEF BoundInv
    <2>3. CASE /\ UNCHANGED <<reservations, queued, claims, retained>>
      <3>1. LiveBound' /\ ClaimBound' /\ RetainedBound'
        BY <2>1, <2>3, LiveShrinks, ClaimShrinks, RetainedShrinks DEF BoundInv, retained
      <3> QED BY <2>2, <3>1 DEF BoundInv
    <2>4. ASSUME NEW status, NEW reason, NEW force, i \in Live, Terminalize(i, status, reason, force)
          PROVE  BoundInv'
      <3>1. LiveBound' /\ ClaimBound' /\ RetainedBound'
        BY <2>1, <2>4, RequestsTerminalize DEF BoundInv
      <3> QED BY <2>2, <3>1 DEF BoundInv
    <2>5. CASE DueStep(i)
      <3>1. i \in Live
        BY <2>5 DEF DueStep, IInv, Consistent, LoopsFresh
      <3> QED BY <2>3, <2>4, <2>5, <3>1 DEF DueStep
    <2>6. CASE BatchStep(i)
      <3>1. i \in Live
        <4>1. i \in At(node_work, tearing) /\ tearing \in Node
          BY <2>6 DEF BatchStep, IInv, Consistent, LoopsFresh, TypeOK, LoopTypeOK
        <4> QED BY <4>1 DEF IInv, Consistent, IndexExact, WorkIndexed
      <3>2. CASE UNCHANGED <<lifecycle, retained>>
        BY <2>3, <3>2 DEF lifecycle
      <3>3. CASE Terminalize(i, "cancelled", "server_unregistered", TRUE)
        BY <2>4, <3>1, <3>3
      <3> QED BY <2>6, <3>2, <3>3 DEF BatchStep
    <2> QED BY <1>3, <2>5, <2>6
  <1>4. ASSUME NEW n, NEW cause, BeginTransition(n, cause) PROVE BoundInv'
    <2>1. UNCHANGED <<now, lifecycle, retained>>
      BY <1>4 DEF BeginTransition
    <2> QED BY <1>0, <1>1, <1>4, <2>1, RegistryBegin DEF BoundInv
  <1>5. ASSUME UNCHANGED <<lifecycle, retained, registry, removed, cursors>>, now' \in Nat, now' >= now
        PROVE  BoundInv'
    BY <1>1, <1>5, RegistryShrinks DEF BoundInv, registry, removed
  <1>6. ASSUME NEW n, LeaseStepRaises(n) \/ SweepContinue(n) PROVE BoundInv'
    BY <1>0, <1>5, <1>6 DEF LeaseStepRaises, SweepContinue, ContinueTransition
  <1>7. CASE EndTransition
    <2>1. /\ UNCHANGED <<now, lifecycle, retained, records, cursors>>
          /\ DOMAIN pending' \subseteq DOMAIN pending /\ DOMAIN former' = DOMAIN former
          /\ DOMAIN node_tombstones' = DOMAIN node_tombstones
      BY <1>7 DEF EndTransition, registry, removed, Drop
    <2> QED BY <1>0, <1>1, <2>1, RegistryShrinks DEF BoundInv
  <1>8. CASE ReapReservations
    <2>1. /\ UNCHANGED <<now, records, pending, node_tombstones, former, cursors>>
          /\ UNCHANGED <<responses, terminals, tombstones>>
      BY <1>8 DEF ReapReservations, registry, removed, retained
    <2>2. /\ DOMAIN reservations' \subseteq DOMAIN reservations
          /\ \A j \in DOMAIN reservations' : reservations'[j] = reservations[j]
          /\ UNCHANGED <<queued, claims>>
      BY <1>8, ReapReservationsEffect
    <2>3. LiveBound' /\ ClaimBound'
      BY <2>1, <2>2, LiveShrinks, ClaimShrinks DEF BoundInv
    <2>4. RegistryBound' /\ RetainedBound'
      BY <2>1, RegistryShrinks, RetainedShrinks DEF BoundInv
    <2> QED BY <2>3, <2>4 DEF BoundInv
  <1>9. ASSUME NEW n, NEW caps, NEW cred, Register(n, caps, cred) PROVE BoundInv'
    <2>1. /\ UNCHANGED <<now, lifecycle, retained, removed, cursors>>
          /\ DOMAIN records' = DOMAIN records \cup {n}
          /\ n \in DOMAIN records \/ Cardinality(DOMAIN records) < config["max_compute_nodes"]
      BY <1>9 DEF Register, Reaped, RegisterNew, RegisterExisting, Put
    <2>2. Within(DOMAIN records', config["max_compute_nodes"])
      <3>1. \/ DOMAIN records' \subseteq DOMAIN records
            \/ Cardinality(DOMAIN records) < config["max_compute_nodes"]
        BY <2>1
      <3> QED BY <2>1, <3>1, BoundsAreNat, WithinGrow DEF BoundInv, RegistryBound
    <2>3. RegistryBound'
      BY <2>1, <2>2 DEF BoundInv, RegistryBound, removed
    <2> QED BY <1>0, <1>1, <2>1, <2>3
  <1>10. ASSUME NEW n, NEW cred, NEW caps, Renew(n, cred, caps) PROVE BoundInv'
    <2>1. UNCHANGED <<now, lifecycle, retained, removed, cursors>> /\ DOMAIN records' = DOMAIN records
      BY <1>10 DEF Renew, Reaped
    <2> QED BY <1>0, <1>1, <2>1, RegistryShrinks DEF BoundInv, removed
  <1>11. ASSUME NEW n, NEW cred, NEW state, SetSchedulerState(n, cred, state) PROVE BoundInv'
    <2>1. UNCHANGED <<now, lifecycle, retained, removed, cursors, records>>
      BY <1>11 DEF SetSchedulerState, Reaped
    <2> QED BY <1>0, <1>1, <2>1, RegistryShrinks DEF BoundInv, removed
  <1>12. ASSUME NEW n, NEW cred, NEW cause, UnregisterContinue(n, cred, cause) PROVE BoundInv'
    BY <1>0, <1>5, <1>12 DEF UnregisterContinue, ContinueTransition
  <1>13. CASE Reaper
    BY <1>13, <1>2, <1>3, <1>4, <1>6, <1>7, <1>8 DEF Reaper, LeaseStep
  <1>14. CASE NodeOperation
    BY <1>14, <1>4, <1>9, <1>10, <1>11, <1>12 DEF NodeOperation, UnregisterBegin
  <1>15. CASE Release \/ UNCHANGED vars
    BY <1>15, <1>0, <1>5 DEF Release, Reaped, vars
  <1>16. CASE Tick
    <2>1. now' = now + 1 /\ UNCHANGED <<lifecycle, retained, registry, removed, cursors>>
      BY <1>16 DEF Tick
    <2> QED BY <1>0, <1>5, <2>1
  <1> QED BY <1>13, <1>14, <1>15, <1>16

\* The operations of clients and workers.
LEMMA BoundRequests ==
    ASSUME IInv, BoundInv, ClientOperation \/ WorkerOperation
    PROVE  BoundInv'
  <1>1. ASSUME NEW i, NEW fp, NEW deadline, NEW ct, NEW n, NEW gone,
               SelectAndReserve(i, fp, deadline, ct, n, gone)
        PROVE  BoundInv'
    <2>1. UNCHANGED <<now, claims, responses, terminals, tombstones>>
      BY <1>1 DEF SelectAndReserve, Reaped, retained
    <2>2. ClaimBound' /\ RetainedBound'
      BY <2>1, ClaimShrinks, RetainedShrinks DEF BoundInv
    <2> QED BY <1>1, <2>2, LiveSelect, RegistrySelect DEF BoundInv
  <1>2. ASSUME UNCHANGED <<registry, removed, cursors>> PROVE RegistryBound'
    BY <1>2, RegistryShrinks DEF BoundInv, registry, removed
  <1>3. ASSUME NEW i, NEW fp, NEW deadline, NEW token, NEW n, NEW ct,
               EnqueueEncryptedRequest(i, fp, deadline, token, n, ct)
        PROVE  BoundInv'
    <2>1. UNCHANGED <<now, claims, responses, terminals, tombstones, registry, removed, cursors>>
      BY <1>3 DEF EnqueueEncryptedRequest, Reaped, retained
    <2>2. ClaimBound' /\ RetainedBound'
      BY <2>1, ClaimShrinks, RetainedShrinks DEF BoundInv
    <2> QED BY <1>2, <1>3, <2>1, <2>2, LiveEnqueue DEF BoundInv
  <1>4. ASSUME NEW i, NEW token, AcknowledgeResponse(i, token) PROVE BoundInv'
    <2>1. /\ DOMAIN responses' = DOMAIN responses \ {i} /\ DOMAIN terminals' = DOMAIN terminals
          /\ UNCHANGED <<now, reservations, queued, claims, tombstones>>
      BY <1>4, AcknowledgeEffect
    <2>2. UNCHANGED <<registry, removed, cursors>>
      BY <1>4 DEF AcknowledgeResponse
    <2>3. LiveBound' /\ ClaimBound' /\ RetainedBound'
      BY <2>1, LiveShrinks, ClaimShrinks, RetainedShrinks DEF BoundInv
    <2> QED BY <1>2, <2>2, <2>3 DEF BoundInv
  <1>5. ASSUME NEW i, NEW ct, CancelRequest(i, ct) PROVE BoundInv'
    <2>1. /\ i \in Live /\ Terminalize(i, "cancelled", "requester_cancelled", FALSE)
          /\ UNCHANGED <<now, registry, removed, cursors>>
      BY <1>5 DEF CancelRequest, Reaped
    <2> QED BY <1>2, <2>1, RequestsTerminalize DEF BoundInv
  <1>6. ASSUME NEW n, NEW cred, NEW consumer, NEW i, ClaimQueuedRequest(n, cred, consumer, i)
        PROVE  BoundInv'
    <2>1. UNCHANGED <<reservations, queued, responses, terminals, tombstones, registry, removed, cursors>>
      BY <1>6 DEF ClaimQueuedRequest, retained
    <2>2. LiveBound' /\ RetainedBound'
      BY <2>1, LiveShrinks, RetainedShrinks DEF BoundInv
    <2> QED BY <1>2, <1>6, <2>1, <2>2, ClaimGrows DEF BoundInv
  <1>7. ASSUME NEW n, NEW cred, NEW consumer, NEW i, NEW gen, RenewClaim(n, cred, consumer, i, gen)
        PROVE  BoundInv'
    <2>1. UNCHANGED <<reservations, queued, responses, terminals, tombstones, registry, removed, cursors>>
      BY <1>7 DEF RenewClaim, retained
    <2>2. /\ DOMAIN claims' = DOMAIN claims /\ claims[i].lease > now /\ UNCHANGED now
          /\ \A j \in DOMAIN claims : /\ claims'[j].node = claims[j].node
                                      /\ j # i => claims'[j].lease = claims[j].lease
      BY <1>7, RenewEffect
    <2>3. LiveBound' /\ RetainedBound'
      BY <2>1, LiveShrinks, RetainedShrinks DEF BoundInv
    <2>4. ClaimBound'
      BY <2>2, ClaimShrinks DEF BoundInv
    <2> QED BY <1>2, <2>1, <2>3, <2>4 DEF BoundInv
  <1>8. ASSUME NEW n, NEW cred, NEW consumer, NEW i, NEW gen,
               AcknowledgeControl(n, cred, consumer, i, gen)
        PROVE  BoundInv'
    <2>1. /\ UNCHANGED <<now, reservations, queued, claims, responses, terminals, registry, removed, cursors>>
          /\ tombstones' = [tombstones EXCEPT ![i].acknowledged = TRUE]
      BY <1>8 DEF AcknowledgeControl, Reaped, lifecycle
    <2>2. \A j \in DOMAIN tombstones : tombstones[j] \in ControlTombstone
      BY DEF IInv, TypeOK, RetainedTypeOK, Values
    <2>3. /\ DOMAIN tombstones' = DOMAIN tombstones
          /\ \A j \in DOMAIN tombstones : tombstones'[j].node = tombstones[j].node
      BY <2>1, <2>2 DEF ControlTombstone
    <2>4. LiveBound' /\ ClaimBound' /\ RetainedBound'
      BY <2>1, <2>3, LiveShrinks, ClaimShrinks, RetainedShrinks DEF BoundInv
    <2> QED BY <1>2, <2>1, <2>4 DEF BoundInv
  <1>9. ASSUME NEW n, NEW cred, NEW consumer, NEW i, NEW gen, NEW reply,
               AcceptResponse(n, cred, consumer, i, gen, reply)
        PROVE  BoundInv'
    <2>1. /\ Forget(i) /\ i \in DOMAIN queued /\ UNCHANGED <<now, registry, removed, cursors>>
      BY <1>9 DEF AcceptResponse, Reaped
    <2>2. i \in Live
      BY <2>1 DEF Live
    <2>3. /\ DOMAIN reservations' = DOMAIN reservations \ {i}
          /\ DOMAIN queued' = DOMAIN queued \ {i}
          /\ \A j \in DOMAIN reservations' : reservations'[j] = reservations[j]
          /\ \A j \in DOMAIN queued' : queued'[j] = queued[j]
      BY <2>1, <2>2, ForgetEffect
    <2>4. LiveBound'
      BY <2>3, LiveShrinks DEF BoundInv
    <2>5. ClaimBound'
      BY <2>1, <2>2, ClaimForgotten DEF BoundInv
    <2> QED BY <1>2, <1>9, <2>1, <2>4, <2>5, RetainedAccept DEF BoundInv
  <1> QED BY <1>1, <1>3, <1>4, <1>5, <1>6, <1>7, <1>8, <1>9 DEF ClientOperation, WorkerOperation

\* The bounds of RelayStateStoreConfig and the records kept after a decision: every bound holds
\* whichever path admitted the record, each replayable response has the terminal record that
\* promises it, a stop instruction ends with the outcome it belongs to, and a deferred deadline
\* is still due.
THEOREM RetainedIsSound == Spec => []RetainedSound
  <1>1. Init => BoundInv
    <2> SUFFICES ASSUME Init PROVE BoundInv
      OBVIOUS
    <2>1. /\ DOMAIN records = {} /\ DOMAIN pending = {} /\ DOMAIN node_tombstones = {}
          /\ DOMAIN former = {} /\ DOMAIN cursors = {} /\ DOMAIN reservations = {}
          /\ DOMAIN queued = {} /\ DOMAIN claims = {} /\ DOMAIN responses = {}
          /\ DOMAIN terminals = {} /\ DOMAIN tombstones = {}
      BY DEF Init, Empty
    <2>2. /\ Live = {} /\ ActiveClaims = {}
          /\ \A n : /\ OfNode(reservations, n) = {} /\ OfNode(queued, n) = {}
                    /\ OfNode(tombstones, n) = {}
          /\ \A c : ByClient({}, c) = {}
      BY <2>1 DEF Live, ActiveClaims, OfNode, ByClient
    <2>3. \A n : {i \in ActiveClaims : claims[i].node = n} = {}
      BY <2>2
    <2>4. RegistryBound
      BY <2>1, BoundsAreNat, WithinEmpty DEF RegistryBound
    <2>5. LiveBound
      BY <2>1, <2>2, BoundsAreNat, WithinEmpty DEF LiveBound
    <2>6. ClaimBound
      BY <2>2, <2>3, BoundsAreNat, WithinEmpty DEF ClaimBound
    <2>7. RetainedBound
      BY <2>1, <2>2, BoundsAreNat, WithinEmpty DEF RetainedBound
    <2> QED BY <2>4, <2>5, <2>6, <2>7 DEF BoundInv
  <1>2. IInv /\ BoundInv /\ [Next]_vars => BoundInv'
    BY BoundReaper, BoundRequests DEF Next
  <1>3. IInv /\ OutcomeInv /\ BoundInv => RetainedSound
    BY BoundIsBounded DEF OutcomeInv, KeptInv, RetainedSound
  <1> QED BY <1>1, <1>2, <1>3, Invariant, OutcomeInvariant, PTL DEF Spec
================================================================================
