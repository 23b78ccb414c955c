-------------------------- MODULE RelayClient_proofs --------------------------
(***************************************************************************)
(* Proofs about RelayClient, for every set and order of relays, every poll *)
(* failure limit, and with or without the teardown callback.               *)
(***************************************************************************)
EXTENDS RelayClient, ListFilter_proofs, TLAPS
--------------------------------------------------------------------------------
(* The relay targets                                                       *)

\* The relay index wraps around once.
LEMMA WrapAround ==
    ASSUME NEW n \in Nat, n > 0, NEW a \in 0 .. n - 1, NEW b \in 0 .. n - 1
    PROVE  (a + b) % n = IF a + b < n THEN a + b ELSE a + b - n
  OBVIOUS

\* A remainder is a valid index.
LEMMA RemainderRange ==
    ASSUME NEW n \in Nat, n > 0, NEW a \in Nat
    PROVE  a % n \in 0 .. n - 1
  OBVIOUS

\* N is the number of configured relays.
LEMMA NType == N \in Nat /\ N > 0 /\ \A i \in 1 .. N : RelayUrls[i] \in Relays
  BY RelayUrlsAssumption DEF N

\* Every relay has a configured index.
LEMMA IndexOfType ==
    ASSUME NEW r \in Relays
    PROVE  IndexOf(r) \in 0 .. N - 1
  <1>1. \E i \in 1 .. N : RelayUrls[i] = r
    BY RelayUrlsAssumption DEF N
  <1>2. (CHOOSE i \in 1 .. N : RelayUrls[i] = r) \in 1 .. N
    BY <1>1
  <1> QED BY <1>2, NType DEF IndexOf

\* The candidate at any offset is a relay.
LEMMA CandidateType ==
    ASSUME active \in 0 .. N - 1, NEW k \in Nat
    PROVE  Candidate(k) \in Relays
  <1>1. active + k \in Nat
    BY NType
  <1>2. (active + k) % N \in 0 .. N - 1
    BY <1>1, NType, RemainderRange
  <1>3. ((active + k) % N) + 1 \in 1 .. N
    BY <1>2, NType
  <1> QED BY <1>3, NType DEF Candidate

\* Going once around from any active relay meets every relay.
LEMMA EveryRelayIsACandidate ==
    ASSUME active \in 0 .. N - 1, NEW r \in Relays
    PROVE  \E i \in 1 .. N : Candidate(i - 1) = r
  <1> PICK k \in 1 .. N : RelayUrls[k] = r
    BY RelayUrlsAssumption DEF N
  <1> DEFINE b == IF k - 1 >= active THEN k - 1 - active ELSE k - 1 - active + N
  <1>1. N \in Nat /\ N > 0 /\ k \in 1 .. N
    BY NType
  <1>2. /\ b \in 0 .. N - 1
        /\ (IF active + b < N THEN active + b ELSE active + b - N) = k - 1
    BY <1>1
  <1> HIDE DEF b
  <1>3. (active + b) % N = k - 1
    BY <1>1, <1>2, WrapAround
  <1>4. Candidate(b) = RelayUrls[k]
    BY <1>1, <1>3 DEF Candidate
  <1>5. b + 1 \in 1 .. N /\ (b + 1) - 1 = b
    BY <1>1, <1>2
  <1>6. Candidate((b + 1) - 1) = r
    BY <1>4, <1>5
  <1> QED BY <1>5, <1>6

\* unregister_from_relay tries every relay the client has evidence of.
LEMMA TargetsAreTheRegistered ==
    ASSUME active \in 0 .. N - 1, registered \in SUBSET Relays
    PROVE  /\ UnregisterTargets \in Seq(Relays)
           /\ Elements(UnregisterTargets) = registered
  <1> DEFINE urls == [i \in 1 .. N |-> Candidate(i - 1)]
  <1>1. \A i \in 1 .. N : i - 1 \in Nat
    BY NType
  <1>2. urls \in Seq(Relays)
    <2>1. \A i \in 1 .. N : Candidate(i - 1) \in Relays
      BY <1>1, CandidateType
    <2> QED BY <2>1, NType
  <1>3. Elements(urls) = Relays
    <2>1. Elements(urls) \subseteq Relays
      <3> HIDE DEF urls
      <3> QED BY <1>2 DEF Elements
    <2>2. ASSUME NEW r \in Relays
          PROVE  r \in Elements(urls)
      <3>1. PICK i \in 1 .. N : Candidate(i - 1) = r
        BY EveryRelayIsACandidate
      <3>2. DOMAIN urls = 1 .. N /\ urls[i] = r
        BY <3>1
      <3> HIDE DEF urls
      <3> QED BY <3>2 DEF Elements
    <2> HIDE DEF urls
    <2> QED BY <2>1, <2>2
  <1>4. UnregisterTargets = Only(urls, registered)
    BY DEF UnregisterTargets
  <1> HIDE DEF urls
  <1>5. Only(urls, registered) \in Seq(Relays)
        /\ Elements(Only(urls, registered)) = Elements(urls) \cap registered
    BY <1>2, OnlyFacts
  <1> QED BY <1>3, <1>4, <1>5
--------------------------------------------------------------------------------
(* The inductive invariant                                                 *)

\* The poll thread holds a counted mutation; so does a heartbeat that registers.
PollMutates == poll.pc \in {"registering", "posting", "post"}
HeartbeatMutates == hb.pc = "registering"
One(b) == IF b THEN 1 ELSE 0

PollRecord == [pc : PollPcs, offset : Nat, relay : Relays \cup {"none"}, verdict : Verdicts]
SupRecord == [inference : {"none", "running", "ok", "raised"},
              control : {"none", "inflight", "active", "terminal", "denied", "failed"},
              available : BOOLEAN, expired : BOOLEAN, cancelled : BOOLEAN,
              terminal : Terminals]
HbRecord == [pc : {"off", "idle", "registering", "book"}, relay : Relays \cup {"none"},
             stop : BOOLEAN, stopping : BOOLEAN]
OpRecord == [pc : {"idle", "latching", "joining", "barrier", "unregister", "unregistering",
                   "stopped"},
             todo : Seq(Relays), failed : BOOLEAN]

\* The fields the argument is about, and the relay a thread works on.
RegistryTypeOK == registered \in SUBSET Relays /\ active \in 0 .. N - 1
PollTypeOK ==
    /\ poll \in PollRecord
    /\ poll.pc \in {"registering", "registered", "send", "polling", "apply"}
          => poll.relay \in Relays
SupTypeOK == sup \in SupRecord
HbTypeOK ==
    /\ hb \in HbRecord
    /\ hb.pc \in {"registering", "book"} => hb.relay \in Relays
OpTypeOK ==
    /\ op \in OpRecord
    /\ op.pc = "unregistering" => op.todo # <<>>
TypeOK == RegistryTypeOK /\ PollTypeOK /\ SupTypeOK /\ HbTypeOK /\ OpTypeOK

\* Where a request's verdict may be seen and where its answer may have gone out.
OutcomeOK ==
    /\ sent => poll.pc \in {"post", "finish", "joining"} /\ sup.terminal = "none"
    /\ sup.terminal # "none" => poll.pc \in {"terminate", "quiesce", "finish", "joining"}

\* Where an inference may still run: under its supervisor, or left behind by a client
\* without teardown callback, whose poll loop then only winds down.
InferenceOK ==
    sup.inference = "running" =>
        \/ poll.pc \in {"supervise", "control", "terminate", "quiesce"}
        \/ /\ poll.pc \in {"submit", "posting", "post", "finish", "joining", "start", "exited"}
           /\ ~FatalWired /\ stopPolling

\* The mutation barrier counts the registrations and responses in flight, and no new
\* one begins once Stop has latched it.
BarrierOK ==
    /\ mutations = One(PollMutates) + One(HeartbeatMutates)
    /\ op.pc \in {"joining", "barrier", "unregister", "unregistering", "stopped"}
          => latched
    /\ op.pc \in {"unregister", "unregistering"} \/ (op.pc = "stopped" /\ complete) =>
          ~PollMutates /\ ~HeartbeatMutates

\* A registration the client does not know of is accounted for, and an unregistration
\* that has met no failure leaves only what it has still to do.
EvidenceOK ==
    /\ atRelay \subseteq registered \cup orphaned
    /\ op.pc \in {"unregister", "unregistering"} /\ ~op.failed =>
          atRelay \subseteq Elements(op.todo) \cup orphaned
    /\ complete => op.pc = "stopped" \/ (op.pc = "idle" /\ poll.pc = "off")
    /\ op.pc = "stopped" /\ complete => atRelay \subseteq orphaned

IInv == TypeOK /\ OutcomeOK /\ InferenceOK /\ BarrierOK /\ EvidenceOK
\* The end of a round, and the step to its next candidate, change nothing else of the
\* poll thread.
LEMMA RoundStep ==
    ASSUME PollTypeOK, RoundFailed \/ RoundAnswered \/ NextCandidate
    PROVE  PollTypeOK' /\ poll'.pc \in {"start", "candidate"}
  <1>1. \/ poll' = RoundOver
        \/ poll' = [poll EXCEPT !.pc = "candidate", !.offset = @ + 1, !.verdict = "none"]
    BY DEF RoundFailed, RoundAnswered, NextCandidate
  <1>2. CASE poll' = RoundOver
    BY <1>2 DEF RoundOver, PollTypeOK, PollRecord, PollPcs, Verdicts
  <1>3. CASE poll' = [poll EXCEPT !.pc = "candidate", !.offset = @ + 1, !.verdict = "none"]
    <2>1. poll.offset + 1 \in Nat
      BY DEF PollTypeOK, PollRecord
    <2>2. poll' \in PollRecord
      BY <1>3, <2>1 DEF PollTypeOK, PollRecord, PollPcs, Verdicts
    <2>3. poll'.pc = "candidate"
      BY <1>3 DEF PollTypeOK, PollRecord
    <2> QED BY <2>2, <2>3 DEF PollTypeOK
  <1> QED BY <1>1, <1>2, <1>3

\* A list that is not empty has a first entry, and its tail has all the others.
LEMMA HeadAndTail ==
    ASSUME NEW S, NEW s \in Seq(S), s # <<>>
    PROVE  /\ Head(s) \in S /\ Tail(s) \in Seq(S)
           /\ Elements(s) \subseteq {Head(s)} \cup Elements(Tail(s))
  <1>1. Head(s) \in S /\ Tail(s) \in Seq(S) /\ Head(s) = s[1]
        /\ Len(Tail(s)) = Len(s) - 1 /\ DOMAIN Tail(s) = 1 .. (Len(s) - 1)
        /\ \A i \in 1 .. (Len(s) - 1) : Tail(s)[i] = s[i + 1]
    OBVIOUS
  <1>2. ASSUME NEW i \in DOMAIN s
        PROVE  s[i] \in {Head(s)} \cup Elements(Tail(s))
    <2>1. CASE i = 1
      BY <2>1, <1>1
    <2>2. CASE i # 1
      <3>1. i - 1 \in DOMAIN Tail(s) /\ Tail(s)[i - 1] = s[i]
        BY <2>2, <1>1
      <3> QED BY <3>1 DEF Elements
    <2> QED BY <2>1, <2>2
  <1> QED BY <1>1, <1>2 DEF Elements

\* Every step keeps the verdict and the answer of a request apart.
LEMMA OutcomeStep ==
    ASSUME TypeOK, OutcomeOK, [Next]_vars
    PROVE  OutcomeOK'
  <1> USE DEF OutcomeOK, clientVars, TypeOK, PollTypeOK, SupTypeOK, PollRecord, SupRecord
  <1>1. CASE Start
    BY <1>1 DEF Start, StepTo, PollAt
  <1>2. CASE PollStart
    BY <1>2 DEF PollStart, PollAt, StepTo, RoundFailed, RoundOver
  <1>3. CASE PollCandidate
    BY <1>3 DEF PollCandidate, PollAt, BeginMutation, RoundFailed, RoundOver, NextCandidate
  <1>4. CASE RegisterSucceeds
    BY <1>4 DEF RegisterSucceeds, PollAt, RecordRegistration, EndMutation, StepTo
  <1>5. CASE RegisterRefused
    BY <1>5 DEF RegisterRefused, PollAt, EndMutation, NextCandidate, RoundFailed, RoundOver
  <1>6. CASE RegisterRaises
    BY <1>6 DEF RegisterRaises, PollAt, EndMutation, RelayMayHold, NextCandidate,
       RoundFailed, RoundOver, Forget
  <1>7. CASE BookRegistration
    BY <1>7 DEF BookRegistration, PollAt, StepTo, RoundFailed, RoundOver
  <1>8. CASE SendPoll
    BY <1>8 DEF SendPoll, PollAt, StepTo, RoundFailed, RoundOver
  <1>9. CASE PollReply
    BY <1>9 DEF PollReply, PollAt, RoundFailed, RoundOver
  <1>10. CASE ApplyPoll
    BY <1>10 DEF ApplyPoll, PollAt, StepTo, RoundAnswered, RoundFailed, RoundOver,
       NextCandidate, Forget
  <1>11. CASE SkipRequest
    BY <1>11 DEF SkipRequest, PollAt, RoundAnswered, RoundOver
  <1>12. CASE BeginRequest
    BY <1>12 DEF BeginRequest, PollAt, StartedHeartbeat, NoRequest, StepTo
  <1>13. CASE Supervise
    BY <1>13 DEF Supervise, PollAt, Terminal, StepTo
  <1>14. CASE AwaitControl
    BY <1>14 DEF AwaitControl, PollAt, Terminal, StepTo
  <1>15. CASE TerminateWorker
    BY <1>15 DEF TerminateWorker, PollAt, StepTo
  <1>16. CASE ReturnFromSupervisor
    BY <1>16 DEF ReturnFromSupervisor, PollAt, StepTo, Quiesced
  <1>17. CASE AbandonFutures
    BY <1>17 DEF AbandonFutures, PollAt, StepTo, Quiesced
  <1>18. CASE Submit
    BY <1>18 DEF Submit, PollAt, StepTo, BeginMutation, Suppressed
  <1>19. CASE PostResponse
    BY <1>19 DEF PostResponse, PollAt, StepTo, EndMutation, Suppressed
  <1>20. CASE PostReplied
    BY <1>20 DEF PostReplied, PollAt, StepTo, EndMutation
  <1>21. CASE FinishRequest
    BY <1>21 DEF FinishRequest, PollAt, StepTo
  <1>22. CASE JoinHeartbeat
    BY <1>22 DEF JoinHeartbeat, PollAt, JoinReturns, RoundAnswered, RoundOver, NoRequest
  <1>23. CASE HeartbeatThread
    <2>1. UNCHANGED <<poll, sup, sent>>
      BY <1>23 DEF HeartbeatThread, HeartbeatRefresh, HeartbeatRegistered, HeartbeatFails,
         HeartbeatBook, HeartbeatExits
    <2> QED BY <2>1
  <1>24. CASE StopThread
    BY <1>24 DEF StopThread, StopFlags, OpAt, OpTo, StopLatch, StopDecides, JoinReturns,
       PassBarrier, BarrierTimesOut, UnregisterSkips, UnregisterSends, UnregisterConfirmed,
       UnregisterUnconfirmed, UnregisterReturns, NewSession
  <1>25. CASE External
    BY <1>25 DEF External, InferenceEnds, ControlReplies, DeadlinePasses, InRequest,
       GenerationCancelled, LeaseAges, RelayForgets
  <1>26. CASE Ended \/ UNCHANGED vars
    BY <1>26 DEF Ended, vars
  <1> QED BY <1>1, <1>2, <1>3, <1>4, <1>5, <1>6, <1>7, <1>8, <1>9, <1>10, <1>11, <1>12,
     <1>13, <1>14, <1>15, <1>16, <1>17, <1>18, <1>19, <1>20, <1>21, <1>22, <1>23, <1>24,
     <1>25, <1>26 DEF Next, PollThread

\* Every step keeps an inference under its supervisor, or polling stopped.
LEMMA InferenceStep ==
    ASSUME TypeOK, InferenceOK, [Next]_vars
    PROVE  InferenceOK'
  <1> USE DEF InferenceOK, clientVars, TypeOK, PollTypeOK, SupTypeOK, PollRecord, SupRecord
  <1>1. CASE Start
    BY <1>1 DEF Start, StepTo, PollAt
  <1>2. CASE PollStart
    BY <1>2 DEF PollStart, PollAt, StepTo, RoundFailed, RoundOver
  <1>3. CASE PollCandidate
    BY <1>3 DEF PollCandidate, PollAt, BeginMutation, RoundFailed, RoundOver, NextCandidate
  <1>4. CASE RegisterSucceeds
    BY <1>4 DEF RegisterSucceeds, PollAt, RecordRegistration, EndMutation, StepTo
  <1>5. CASE RegisterRefused
    BY <1>5 DEF RegisterRefused, PollAt, EndMutation, NextCandidate, RoundFailed, RoundOver
  <1>6. CASE RegisterRaises
    BY <1>6 DEF RegisterRaises, PollAt, EndMutation, RelayMayHold, NextCandidate,
       RoundFailed, RoundOver, Forget
  <1>7. CASE BookRegistration
    BY <1>7 DEF BookRegistration, PollAt, StepTo, RoundFailed, RoundOver
  <1>8. CASE SendPoll
    BY <1>8 DEF SendPoll, PollAt, StepTo, RoundFailed, RoundOver
  <1>9. CASE PollReply
    BY <1>9 DEF PollReply, PollAt, RoundFailed, RoundOver
  <1>10. CASE ApplyPoll
    BY <1>10 DEF ApplyPoll, PollAt, StepTo, RoundAnswered, RoundFailed, RoundOver,
       NextCandidate, Forget
  <1>11. CASE SkipRequest
    BY <1>11 DEF SkipRequest, PollAt, RoundAnswered, RoundOver
  <1>12. CASE BeginRequest
    BY <1>12 DEF BeginRequest, PollAt, StartedHeartbeat, NoRequest, StepTo
  <1>13. CASE Supervise
    BY <1>13 DEF Supervise, PollAt, Terminal, StepTo
  <1>14. CASE AwaitControl
    BY <1>14 DEF AwaitControl, PollAt, Terminal, StepTo
  <1>15. CASE TerminateWorker
    BY <1>15 DEF TerminateWorker, PollAt, StepTo
  <1>16. CASE ReturnFromSupervisor
    BY <1>16 DEF ReturnFromSupervisor, PollAt, StepTo, Quiesced
  <1>17. CASE AbandonFutures
    BY <1>17 DEF AbandonFutures, PollAt, StepTo, Quiesced
  <1>18. CASE Submit
    BY <1>18 DEF Submit, PollAt, StepTo, BeginMutation, Suppressed
  <1>19. CASE PostResponse
    BY <1>19 DEF PostResponse, PollAt, StepTo, EndMutation, Suppressed
  <1>20. CASE PostReplied
    BY <1>20 DEF PostReplied, PollAt, StepTo, EndMutation
  <1>21. CASE FinishRequest
    BY <1>21 DEF FinishRequest, PollAt, StepTo
  <1>22. CASE JoinHeartbeat
    BY <1>22 DEF JoinHeartbeat, PollAt, JoinReturns, RoundAnswered, RoundOver, NoRequest
  <1>23. CASE HeartbeatThread
    <2>1. UNCHANGED <<poll, sup, stopPolling>>
      BY <1>23 DEF HeartbeatThread, HeartbeatRefresh, HeartbeatRegistered, HeartbeatFails,
         HeartbeatBook, HeartbeatExits
    <2> QED BY <2>1
  <1>24. CASE StopThread
    BY <1>24 DEF StopThread, StopFlags, OpAt, OpTo, StopLatch, StopDecides, JoinReturns,
       PassBarrier, BarrierTimesOut, UnregisterSkips, UnregisterSends, UnregisterConfirmed,
       UnregisterUnconfirmed, UnregisterReturns, NewSession
  <1>25. CASE External
    BY <1>25 DEF External, InferenceEnds, ControlReplies, DeadlinePasses, InRequest,
       GenerationCancelled, LeaseAges, RelayForgets
  <1>26. CASE Ended \/ UNCHANGED vars
    BY <1>26 DEF Ended, vars
  <1> QED BY <1>1, <1>2, <1>3, <1>4, <1>5, <1>6, <1>7, <1>8, <1>9, <1>10, <1>11, <1>12,
     <1>13, <1>14, <1>15, <1>16, <1>17, <1>18, <1>19, <1>20, <1>21, <1>22, <1>23, <1>24,
     <1>25, <1>26 DEF Next, PollThread

\* Every step keeps the types.
LEMMA TypeStep ==
    ASSUME TypeOK, [Next]_vars
    PROVE  TypeOK'
  <1> USE DEF TypeOK, clientVars
  <1>1. CASE Start
    <2>1. RegistryTypeOK'
      BY <1>1 DEF Start, StepTo, PollAt, RegistryTypeOK
    <2>2. PollTypeOK'
      BY <1>1 DEF Start, StepTo, PollAt, PollTypeOK, PollRecord, PollPcs, Verdicts
    <2>3. SupTypeOK' /\ HbTypeOK' /\ OpTypeOK'
      BY <1>1 DEF Start, StepTo, PollAt, SupTypeOK, HbTypeOK, OpTypeOK
    <2> QED BY <2>1, <2>2, <2>3
  <1>2. CASE PollStart
    <2>1. PollTypeOK'
      <3>1. CASE RoundFailed
        BY <3>1, RoundStep
      <3>2. CASE StepTo("exited") \/ poll' = [poll EXCEPT !.pc = "candidate", !.offset = 0]
        <4>1. 0 \in Nat /\ poll \in PollRecord
          BY DEF PollTypeOK
        <4>2. poll' \in PollRecord
          BY <3>2, <4>1 DEF StepTo, PollRecord, PollPcs
        <4>3. poll'.pc \in {"exited", "candidate"}
          BY <3>2, <4>1 DEF StepTo, PollRecord
        <4> QED BY <4>2, <4>3 DEF PollTypeOK
      <3> QED BY <1>2, <3>1, <3>2 DEF PollStart
    <2>2. RegistryTypeOK' /\ SupTypeOK' /\ HbTypeOK' /\ OpTypeOK'
      BY <1>2, RoundStep DEF PollStart, PollAt, StepTo, RegistryTypeOK, SupTypeOK, HbTypeOK,
         OpTypeOK
    <2> QED BY <2>1, <2>2
  <1>3. CASE PollCandidate
    <2>1. PollTypeOK'
      BY <1>3, NType, CandidateType, RoundStep DEF PollCandidate, PollAt, BeginMutation,
         PollTypeOK, PollRecord, PollPcs, Verdicts, RegistryTypeOK
    <2>2. RegistryTypeOK' /\ SupTypeOK' /\ HbTypeOK' /\ OpTypeOK'
      BY <1>3, RoundStep DEF PollCandidate, PollAt, BeginMutation, RegistryTypeOK,
         SupTypeOK, HbTypeOK, OpTypeOK
    <2> QED BY <2>1, <2>2
  <1>4. CASE RegisterSucceeds
    <2>1. RegistryTypeOK'
      BY <1>4 DEF RegisterSucceeds, PollAt, RecordRegistration, EndMutation, StepTo,
         RegistryTypeOK, PollTypeOK, PollRecord, PollPcs, Verdicts
    <2>2. PollTypeOK'
      BY <1>4 DEF RegisterSucceeds, PollAt, RecordRegistration, EndMutation, StepTo,
         PollTypeOK, PollRecord, PollPcs, Verdicts
    <2>3. SupTypeOK' /\ HbTypeOK' /\ OpTypeOK'
      BY <1>4 DEF RegisterSucceeds, PollAt, RecordRegistration, EndMutation, StepTo,
         SupTypeOK, HbTypeOK, OpTypeOK
    <2> QED BY <2>1, <2>2, <2>3
  <1>5. CASE RegisterRefused
    <2>1. PollTypeOK'
      BY <1>5, RoundStep DEF RegisterRefused, PollAt, EndMutation, PollTypeOK, PollRecord,
         PollPcs, Verdicts
    <2>2. RegistryTypeOK' /\ SupTypeOK' /\ HbTypeOK' /\ OpTypeOK'
      BY <1>5, RoundStep DEF RegisterRefused, PollAt, EndMutation, RegistryTypeOK,
         SupTypeOK, HbTypeOK, OpTypeOK
    <2> QED BY <2>1, <2>2
  <1>6. CASE RegisterRaises
    <2>1. RegistryTypeOK'
      BY <1>6, RoundStep DEF RegisterRaises, PollAt, EndMutation, RelayMayHold, Forget,
         RegistryTypeOK
    <2>2. PollTypeOK'
      BY <1>6, RoundStep DEF RegisterRaises, PollAt, EndMutation, RelayMayHold, Forget,
         PollTypeOK, PollRecord, PollPcs, Verdicts
    <2>3. SupTypeOK' /\ HbTypeOK' /\ OpTypeOK'
      BY <1>6, RoundStep DEF RegisterRaises, PollAt, EndMutation, RelayMayHold, Forget,
         SupTypeOK, HbTypeOK, OpTypeOK
    <2> QED BY <2>1, <2>2, <2>3
  <1>7. CASE BookRegistration
    <2>1. RegistryTypeOK'
      BY <1>7, RoundStep DEF BookRegistration, PollAt, StepTo, RegistryTypeOK, PollTypeOK,
         PollRecord, PollPcs, Verdicts
    <2>2. PollTypeOK'
      BY <1>7, RoundStep DEF BookRegistration, PollAt, StepTo, PollTypeOK, PollRecord,
         PollPcs, Verdicts
    <2>3. SupTypeOK' /\ HbTypeOK' /\ OpTypeOK'
      BY <1>7, RoundStep DEF BookRegistration, PollAt, StepTo, SupTypeOK, HbTypeOK, OpTypeOK
    <2> QED BY <2>1, <2>2, <2>3
  <1>8. CASE SendPoll
    <2>1. PollTypeOK'
      BY <1>8, RoundStep DEF SendPoll, PollAt, StepTo, PollTypeOK, PollRecord, PollPcs, Verdicts
    <2>2. RegistryTypeOK' /\ SupTypeOK' /\ HbTypeOK' /\ OpTypeOK'
      BY <1>8, RoundStep DEF SendPoll, PollAt, StepTo, RegistryTypeOK, SupTypeOK, HbTypeOK,
         OpTypeOK
    <2> QED BY <2>1, <2>2
  <1>9. CASE PollReply
    <2>1. PollTypeOK'
      BY <1>9, RoundStep DEF PollReply, PollAt, PollTypeOK, PollRecord, PollPcs, Verdicts
    <2>2. RegistryTypeOK' /\ SupTypeOK' /\ HbTypeOK' /\ OpTypeOK'
      BY <1>9, RoundStep DEF PollReply, PollAt, RegistryTypeOK, SupTypeOK, HbTypeOK, OpTypeOK
    <2> QED BY <2>1, <2>2
  <1>10. CASE ApplyPoll
    <2>1. RegistryTypeOK'
      BY <1>10, IndexOfType, RoundStep DEF ApplyPoll, PollAt, StepTo, Forget,
         RegistryTypeOK, PollTypeOK, PollRecord, PollPcs, Verdicts
    <2>2. PollTypeOK'
      BY <1>10, RoundStep DEF ApplyPoll, PollAt, StepTo, Forget, PollTypeOK, PollRecord,
         PollPcs, Verdicts
    <2>3. SupTypeOK' /\ HbTypeOK' /\ OpTypeOK'
      BY <1>10, RoundStep DEF ApplyPoll, PollAt, StepTo, Forget, SupTypeOK, HbTypeOK, OpTypeOK
    <2> QED BY <2>1, <2>2, <2>3
  <1>11. CASE SkipRequest
    <2>1. PollTypeOK'
      BY <1>11, RoundStep DEF SkipRequest, PollAt, PollTypeOK, PollRecord, PollPcs, Verdicts
    <2>2. RegistryTypeOK' /\ SupTypeOK' /\ HbTypeOK' /\ OpTypeOK'
      BY <1>11, RoundStep DEF SkipRequest, PollAt, RegistryTypeOK, SupTypeOK, HbTypeOK, OpTypeOK
    <2> QED BY <2>1, <2>2
  <1>12. CASE BeginRequest
    <2>1. PollTypeOK'
      BY <1>12 DEF BeginRequest, PollAt, StartedHeartbeat, NoRequest, StepTo, PollTypeOK,
         PollRecord, PollPcs, Verdicts
    <2>2. SupTypeOK'
      <3>1. NoRequest \in SupRecord
        BY DEF NoRequest, SupRecord, Terminals
      <3> DEFINE av == workRelay \in registered
                 missing == av /\ workRelay \notin creds
                 inf == IF missing THEN "none" ELSE "running"
                 ter == IF missing THEN "missing_control_credential" ELSE "none"
      <3>2. sup' = [NoRequest EXCEPT !.available = av, !.inference = inf, !.terminal = ter]
        BY <1>12 DEF BeginRequest
      <3>3. av \in BOOLEAN /\ inf \in {"none", "running"}
            /\ ter \in {"missing_control_credential", "none"}
        OBVIOUS
      <3> HIDE DEF av, inf, ter
      <3> QED BY <3>1, <3>2, <3>3 DEF SupTypeOK, SupRecord, Terminals
    <2>3. HbTypeOK'
      BY <1>12 DEF BeginRequest, PollAt, StartedHeartbeat, NoRequest, StepTo, HbTypeOK, HbRecord
    <2>4. RegistryTypeOK' /\ OpTypeOK'
      BY <1>12 DEF BeginRequest, PollAt, StartedHeartbeat, NoRequest, StepTo,
         RegistryTypeOK, OpTypeOK
    <2> QED BY <2>1, <2>2, <2>3, <2>4
  <1>13. CASE Supervise
    <2>1. PollTypeOK'
      BY <1>13 DEF Supervise, PollAt, Terminal, StepTo, PollTypeOK, PollRecord, PollPcs,
         Verdicts
    <2>2. SupTypeOK'
      BY <1>13 DEF Supervise, PollAt, Terminal, StepTo, SupTypeOK, SupRecord, Terminals
    <2>3. RegistryTypeOK' /\ HbTypeOK' /\ OpTypeOK'
      BY <1>13 DEF Supervise, PollAt, Terminal, StepTo, RegistryTypeOK, HbTypeOK, OpTypeOK
    <2> QED BY <2>1, <2>2, <2>3
  <1>14. CASE AwaitControl
    <2>1. PollTypeOK'
      BY <1>14 DEF AwaitControl, PollAt, Terminal, StepTo, PollTypeOK, PollRecord, PollPcs,
         Verdicts
    <2>2. SupTypeOK'
      BY <1>14 DEF AwaitControl, PollAt, Terminal, StepTo, SupTypeOK, SupRecord, Terminals
    <2>3. RegistryTypeOK' /\ HbTypeOK' /\ OpTypeOK'
      BY <1>14 DEF AwaitControl, PollAt, Terminal, StepTo, RegistryTypeOK, HbTypeOK, OpTypeOK
    <2> QED BY <2>1, <2>2, <2>3
  <1>15. CASE TerminateWorker
    <2>1. PollTypeOK'
      BY <1>15 DEF TerminateWorker, PollAt, StepTo, PollTypeOK, PollRecord, PollPcs, Verdicts
    <2>2. SupTypeOK'
      BY <1>15 DEF TerminateWorker, PollAt, StepTo, SupTypeOK, SupRecord, Terminals
    <2>3. RegistryTypeOK' /\ HbTypeOK' /\ OpTypeOK'
      BY <1>15 DEF TerminateWorker, PollAt, StepTo, RegistryTypeOK, HbTypeOK, OpTypeOK
    <2> QED BY <2>1, <2>2, <2>3
  <1>16. CASE ReturnFromSupervisor
    <2>1. PollTypeOK'
      BY <1>16 DEF ReturnFromSupervisor, PollAt, StepTo, Quiesced, PollTypeOK, PollRecord,
         PollPcs, Verdicts
    <2>2. RegistryTypeOK' /\ SupTypeOK' /\ HbTypeOK' /\ OpTypeOK'
      BY <1>16 DEF ReturnFromSupervisor, PollAt, StepTo, Quiesced, RegistryTypeOK,
         SupTypeOK, HbTypeOK, OpTypeOK
    <2> QED BY <2>1, <2>2
  <1>17. CASE AbandonFutures
    <2>1. PollTypeOK'
      BY <1>17 DEF AbandonFutures, PollAt, StepTo, Quiesced, PollTypeOK, PollRecord,
         PollPcs, Verdicts
    <2>2. SupTypeOK'
      BY <1>17 DEF AbandonFutures, PollAt, StepTo, Quiesced, SupTypeOK, SupRecord, Terminals
    <2>3. RegistryTypeOK' /\ HbTypeOK' /\ OpTypeOK'
      BY <1>17 DEF AbandonFutures, PollAt, StepTo, Quiesced, RegistryTypeOK, HbTypeOK, OpTypeOK
    <2> QED BY <2>1, <2>2, <2>3
  <1>18. CASE Submit
    <2>1. PollTypeOK'
      BY <1>18 DEF Submit, PollAt, StepTo, BeginMutation, Suppressed, PollTypeOK,
         PollRecord, PollPcs, Verdicts
    <2>2. RegistryTypeOK' /\ SupTypeOK' /\ HbTypeOK' /\ OpTypeOK'
      BY <1>18 DEF Submit, PollAt, StepTo, BeginMutation, Suppressed, RegistryTypeOK,
         SupTypeOK, HbTypeOK, OpTypeOK
    <2> QED BY <2>1, <2>2
  <1>19. CASE PostResponse
    <2>1. PollTypeOK'
      BY <1>19 DEF PostResponse, PollAt, StepTo, EndMutation, Suppressed, PollTypeOK,
         PollRecord, PollPcs, Verdicts
    <2>2. RegistryTypeOK' /\ SupTypeOK' /\ HbTypeOK' /\ OpTypeOK'
      BY <1>19 DEF PostResponse, PollAt, StepTo, EndMutation, Suppressed, RegistryTypeOK,
         SupTypeOK, HbTypeOK, OpTypeOK
    <2> QED BY <2>1, <2>2
  <1>20. CASE PostReplied
    <2>1. PollTypeOK'
      BY <1>20 DEF PostReplied, PollAt, StepTo, EndMutation, PollTypeOK, PollRecord,
         PollPcs, Verdicts
    <2>2. RegistryTypeOK' /\ SupTypeOK' /\ HbTypeOK' /\ OpTypeOK'
      BY <1>20 DEF PostReplied, PollAt, StepTo, EndMutation, RegistryTypeOK, SupTypeOK,
         HbTypeOK, OpTypeOK
    <2> QED BY <2>1, <2>2
  <1>21. CASE FinishRequest
    <2>1. PollTypeOK'
      BY <1>21 DEF FinishRequest, PollAt, StepTo, PollTypeOK, PollRecord, PollPcs, Verdicts
    <2>2. HbTypeOK'
      BY <1>21 DEF FinishRequest, PollAt, StepTo, HbTypeOK, HbRecord
    <2>3. RegistryTypeOK' /\ SupTypeOK' /\ OpTypeOK'
      BY <1>21 DEF FinishRequest, PollAt, StepTo, RegistryTypeOK, SupTypeOK, OpTypeOK
    <2> QED BY <2>1, <2>2, <2>3
  <1>22. CASE JoinHeartbeat
    <2>1. PollTypeOK'
      BY <1>22, RoundStep DEF JoinHeartbeat, PollAt, JoinReturns, NoRequest, PollTypeOK,
         PollRecord, PollPcs, Verdicts
    <2>2. SupTypeOK'
      BY <1>22, RoundStep DEF JoinHeartbeat, PollAt, JoinReturns, NoRequest, SupTypeOK,
         SupRecord, Terminals
    <2>3. HbTypeOK'
      BY <1>22, RoundStep DEF JoinHeartbeat, PollAt, JoinReturns, NoRequest, HbTypeOK, HbRecord
    <2>4. RegistryTypeOK' /\ OpTypeOK'
      BY <1>22, RoundStep DEF JoinHeartbeat, PollAt, JoinReturns, NoRequest, RegistryTypeOK,
         OpTypeOK
    <2> QED BY <2>1, <2>2, <2>3, <2>4
  <1>23. CASE HeartbeatRefresh
    <2>1. HbTypeOK'
      BY <1>23 DEF HeartbeatRefresh, HbAt, BeginMutation, HbTypeOK, HbRecord, RegistryTypeOK
    <2>2. RegistryTypeOK' /\ PollTypeOK' /\ SupTypeOK' /\ OpTypeOK'
      BY <1>23 DEF HeartbeatRefresh, HbAt, BeginMutation, RegistryTypeOK, PollTypeOK,
         SupTypeOK, OpTypeOK
    <2> QED BY <2>1, <2>2
  <1>24. CASE HeartbeatRegistered
    <2>1. RegistryTypeOK'
      BY <1>24 DEF HeartbeatRegistered, HbAt, RecordRegistration, EndMutation,
         RegistryTypeOK, HbTypeOK, HbRecord
    <2>2. HbTypeOK'
      BY <1>24 DEF HeartbeatRegistered, HbAt, RecordRegistration, EndMutation, HbTypeOK,
         HbRecord
    <2>3. PollTypeOK' /\ SupTypeOK' /\ OpTypeOK'
      BY <1>24 DEF HeartbeatRegistered, HbAt, RecordRegistration, EndMutation, PollTypeOK,
         SupTypeOK, OpTypeOK
    <2> QED BY <2>1, <2>2, <2>3
  <1>25. CASE HeartbeatFails
    <2>1. HbTypeOK'
      BY <1>25 DEF HeartbeatFails, HbAt, EndMutation, RelayMayHold, HbTypeOK, HbRecord
    <2>2. RegistryTypeOK' /\ PollTypeOK' /\ SupTypeOK' /\ OpTypeOK'
      BY <1>25 DEF HeartbeatFails, HbAt, EndMutation, RelayMayHold, RegistryTypeOK,
         PollTypeOK, SupTypeOK, OpTypeOK
    <2> QED BY <2>1, <2>2
  <1>26. CASE HeartbeatBook
    <2>1. RegistryTypeOK'
      BY <1>26 DEF HeartbeatBook, HbAt, RegistryTypeOK, HbTypeOK, HbRecord
    <2>2. HbTypeOK'
      BY <1>26 DEF HeartbeatBook, HbAt, HbTypeOK, HbRecord
    <2>3. PollTypeOK' /\ SupTypeOK' /\ OpTypeOK'
      BY <1>26 DEF HeartbeatBook, HbAt, PollTypeOK, SupTypeOK, OpTypeOK
    <2> QED BY <2>1, <2>2, <2>3
  <1>27. CASE HeartbeatExits
    <2>1. HbTypeOK'
      BY <1>27 DEF HeartbeatExits, HbAt, HbTypeOK, HbRecord
    <2>2. RegistryTypeOK' /\ PollTypeOK' /\ SupTypeOK' /\ OpTypeOK'
      BY <1>27 DEF HeartbeatExits, HbAt, RegistryTypeOK, PollTypeOK, SupTypeOK, OpTypeOK
    <2> QED BY <2>1, <2>2
  <1>28. CASE StopFlags
    <2>1. OpTypeOK'
      BY <1>28 DEF StopFlags, OpAt, OpTo, OpTypeOK, OpRecord
    <2>2. RegistryTypeOK' /\ PollTypeOK' /\ SupTypeOK' /\ HbTypeOK'
      BY <1>28 DEF StopFlags, OpAt, OpTo, RegistryTypeOK, PollTypeOK, SupTypeOK, HbTypeOK
    <2> QED BY <2>1, <2>2
  <1>29. CASE StopLatch
    <2>1. HbTypeOK'
      BY <1>29 DEF StopLatch, OpAt, OpTo, HbTypeOK, HbRecord
    <2>2. OpTypeOK'
      BY <1>29 DEF StopLatch, OpAt, OpTo, OpTypeOK, OpRecord
    <2>3. RegistryTypeOK' /\ PollTypeOK' /\ SupTypeOK'
      BY <1>29 DEF StopLatch, OpAt, OpTo, RegistryTypeOK, PollTypeOK, SupTypeOK
    <2> QED BY <2>1, <2>2, <2>3
  <1>30. CASE StopDecides
    <2>1. HbTypeOK'
      BY <1>30 DEF StopDecides, OpAt, OpTo, JoinReturns, HbTypeOK, HbRecord
    <2>2. OpTypeOK'
      BY <1>30 DEF StopDecides, OpAt, OpTo, JoinReturns, OpTypeOK, OpRecord
    <2>3. RegistryTypeOK' /\ PollTypeOK' /\ SupTypeOK'
      BY <1>30 DEF StopDecides, OpAt, OpTo, JoinReturns, RegistryTypeOK, PollTypeOK, SupTypeOK
    <2> QED BY <2>1, <2>2, <2>3
  <1>31. CASE PassBarrier
    <2>1. OpTypeOK'
      BY <1>31, TargetsAreTheRegistered DEF PassBarrier, OpAt, OpTypeOK, OpRecord,
         RegistryTypeOK
    <2>2. RegistryTypeOK' /\ PollTypeOK' /\ SupTypeOK' /\ HbTypeOK'
      BY <1>31 DEF PassBarrier, OpAt, RegistryTypeOK, PollTypeOK, SupTypeOK, HbTypeOK
    <2> QED BY <2>1, <2>2
  <1>32. CASE BarrierTimesOut
    <2>1. OpTypeOK'
      BY <1>32 DEF BarrierTimesOut, OpAt, OpTo, OpTypeOK, OpRecord
    <2>2. RegistryTypeOK' /\ PollTypeOK' /\ SupTypeOK' /\ HbTypeOK'
      BY <1>32 DEF BarrierTimesOut, OpAt, OpTo, RegistryTypeOK, PollTypeOK, SupTypeOK, HbTypeOK
    <2> QED BY <2>1, <2>2
  <1>33. CASE UnregisterSkips
    <2>1. OpTypeOK'
      BY <1>33, HeadAndTail DEF UnregisterSkips, OpAt, OpTypeOK, OpRecord
    <2>2. RegistryTypeOK' /\ PollTypeOK' /\ SupTypeOK' /\ HbTypeOK'
      BY <1>33 DEF UnregisterSkips, OpAt, RegistryTypeOK, PollTypeOK, SupTypeOK, HbTypeOK
    <2> QED BY <2>1, <2>2
  <1>34. CASE UnregisterSends
    <2>1. OpTypeOK'
      BY <1>34 DEF UnregisterSends, OpAt, OpTo, OpTypeOK, OpRecord
    <2>2. RegistryTypeOK' /\ PollTypeOK' /\ SupTypeOK' /\ HbTypeOK'
      BY <1>34 DEF UnregisterSends, OpAt, OpTo, RegistryTypeOK, PollTypeOK, SupTypeOK, HbTypeOK
    <2> QED BY <2>1, <2>2
  <1>35. CASE UnregisterConfirmed
    <2>1. RegistryTypeOK'
      BY <1>35, IndexOfType DEF UnregisterConfirmed, OpAt, RegistryTypeOK, OpTypeOK, OpRecord
    <2>2. OpTypeOK'
      BY <1>35, HeadAndTail DEF UnregisterConfirmed, OpAt, OpTypeOK, OpRecord
    <2>3. PollTypeOK' /\ SupTypeOK' /\ HbTypeOK'
      BY <1>35 DEF UnregisterConfirmed, OpAt, PollTypeOK, SupTypeOK, HbTypeOK
    <2> QED BY <2>1, <2>2, <2>3
  <1>36. CASE UnregisterUnconfirmed
    <2>1. OpTypeOK'
      BY <1>36, HeadAndTail DEF UnregisterUnconfirmed, OpAt, OpTypeOK, OpRecord
    <2>2. RegistryTypeOK' /\ PollTypeOK' /\ SupTypeOK' /\ HbTypeOK'
      BY <1>36 DEF UnregisterUnconfirmed, OpAt, RegistryTypeOK, PollTypeOK, SupTypeOK, HbTypeOK
    <2> QED BY <2>1, <2>2
  <1>37. CASE UnregisterReturns
    <2>1. OpTypeOK'
      BY <1>37 DEF UnregisterReturns, OpAt, OpTo, OpTypeOK, OpRecord
    <2>2. RegistryTypeOK' /\ PollTypeOK' /\ SupTypeOK' /\ HbTypeOK'
      BY <1>37 DEF UnregisterReturns, OpAt, OpTo, RegistryTypeOK, PollTypeOK, SupTypeOK,
         HbTypeOK
    <2> QED BY <2>1, <2>2
  <1>38. CASE NewSession
    <2>1. PollTypeOK'
      BY <1>38 DEF NewSession, OpAt, PollTypeOK, PollRecord, PollPcs, Verdicts
    <2>2. OpTypeOK'
      BY <1>38 DEF NewSession, OpAt, OpTypeOK, OpRecord
    <2>3. RegistryTypeOK' /\ SupTypeOK' /\ HbTypeOK'
      BY <1>38 DEF NewSession, OpAt, RegistryTypeOK, SupTypeOK, HbTypeOK
    <2> QED BY <2>1, <2>2, <2>3
  <1>39. CASE InferenceEnds
    <2>1. SupTypeOK'
      BY <1>39 DEF InferenceEnds, SupTypeOK, SupRecord, Terminals
    <2>2. RegistryTypeOK' /\ PollTypeOK' /\ HbTypeOK' /\ OpTypeOK'
      BY <1>39 DEF InferenceEnds, RegistryTypeOK, PollTypeOK, HbTypeOK, OpTypeOK
    <2> QED BY <2>1, <2>2
  <1>40. CASE ControlReplies
    <2>1. SupTypeOK'
      BY <1>40 DEF ControlReplies, SupTypeOK, SupRecord, Terminals
    <2>2. RegistryTypeOK' /\ PollTypeOK' /\ HbTypeOK' /\ OpTypeOK'
      BY <1>40 DEF ControlReplies, RegistryTypeOK, PollTypeOK, HbTypeOK, OpTypeOK
    <2> QED BY <2>1, <2>2
  <1>41. CASE DeadlinePasses
    <2>1. SupTypeOK'
      BY <1>41 DEF DeadlinePasses, InRequest, SupTypeOK, SupRecord, Terminals
    <2>2. RegistryTypeOK' /\ PollTypeOK' /\ HbTypeOK' /\ OpTypeOK'
      BY <1>41 DEF DeadlinePasses, InRequest, RegistryTypeOK, PollTypeOK, HbTypeOK, OpTypeOK
    <2> QED BY <2>1, <2>2
  <1>42. CASE GenerationCancelled
    <2>1. SupTypeOK'
      BY <1>42 DEF GenerationCancelled, SupTypeOK, SupRecord, Terminals
    <2>2. RegistryTypeOK' /\ PollTypeOK' /\ HbTypeOK' /\ OpTypeOK'
      BY <1>42 DEF GenerationCancelled, RegistryTypeOK, PollTypeOK, HbTypeOK, OpTypeOK
    <2> QED BY <2>1, <2>2
  <1>43. CASE LeaseAges
    BY <1>43 DEF LeaseAges, RegistryTypeOK, PollTypeOK, SupTypeOK, HbTypeOK, OpTypeOK
  <1>44. CASE RelayForgets
    BY <1>44 DEF RelayForgets, RegistryTypeOK, PollTypeOK, SupTypeOK, HbTypeOK, OpTypeOK
  <1>45. CASE Ended
    BY <1>45 DEF Ended, vars, RegistryTypeOK, PollTypeOK, SupTypeOK, HbTypeOK, OpTypeOK
  <1>46. CASE UNCHANGED vars
    BY <1>46 DEF vars, RegistryTypeOK, PollTypeOK, SupTypeOK, HbTypeOK, OpTypeOK
  <1> QED BY <1>1, <1>2, <1>3, <1>4, <1>5, <1>6, <1>7, <1>8, <1>9, <1>10, <1>11, <1>12,
     <1>13, <1>14, <1>15, <1>16, <1>17, <1>18, <1>19, <1>20, <1>21, <1>22, <1>23, <1>24,
     <1>25, <1>26, <1>27, <1>28, <1>29, <1>30, <1>31, <1>32, <1>33, <1>34, <1>35, <1>36,
     <1>37, <1>38, <1>39, <1>40, <1>41, <1>42, <1>43, <1>44, <1>45, <1>46
    DEF Next, PollThread, HeartbeatThread, StopThread, External

\* Every step keeps the count of the barrier, and none begins a mutation behind it.
LEMMA BarrierStep ==
    ASSUME TypeOK, BarrierOK, EvidenceOK, [Next]_vars
    PROVE  BarrierOK'
  <1> USE DEF BarrierOK, clientVars, PollMutates, HeartbeatMutates, One, TypeOK, PollTypeOK,
     HbTypeOK, OpTypeOK, PollRecord, HbRecord, OpRecord, EvidenceOK
  <1>1. CASE Start
    BY <1>1 DEF Start, StepTo, PollAt
  <1>2. CASE PollStart
    BY <1>2, RoundStep DEF PollStart, PollAt, StepTo
  <1>3. CASE PollCandidate
    <2>1. CASE (RoundFailed \/ NextCandidate) /\ UNCHANGED mutations
      <3>1. UNCHANGED <<mutations, latched, complete, hb, op>>
        BY <1>3, <2>1 DEF PollCandidate
      <3>2. poll.pc = "candidate"
        BY <1>3 DEF PollCandidate, PollAt
      <3> QED BY <2>1, <3>1, <3>2, RoundStep
    <2>2. CASE /\ UNCHANGED mutations
               /\ poll' = [poll EXCEPT !.pc = "send", !.relay = Candidate(poll.offset)]
      BY <1>3, <2>2 DEF PollCandidate, PollAt
    <2>3. CASE /\ BeginMutation
               /\ poll' = [poll EXCEPT !.pc = "registering", !.relay = Candidate(poll.offset)]
      BY <1>3, <2>3 DEF PollCandidate, PollAt, BeginMutation
    <2> QED BY <1>3, <2>1, <2>2, <2>3 DEF PollCandidate
  <1>4. CASE RegisterSucceeds
    BY <1>4 DEF RegisterSucceeds, PollAt, RecordRegistration, EndMutation, StepTo
  <1>5. CASE RegisterRefused
    BY <1>5, RoundStep DEF RegisterRefused, PollAt, EndMutation
  <1>6. CASE RegisterRaises
    BY <1>6, RoundStep DEF RegisterRaises, PollAt, EndMutation, RelayMayHold, Forget
  <1>7. CASE BookRegistration
    BY <1>7, RoundStep DEF BookRegistration, PollAt, StepTo
  <1>8. CASE SendPoll
    BY <1>8, RoundStep DEF SendPoll, PollAt, StepTo
  <1>9. CASE PollReply
    BY <1>9, RoundStep DEF PollReply, PollAt
  <1>10. CASE ApplyPoll
    BY <1>10, RoundStep DEF ApplyPoll, PollAt, StepTo, Forget
  <1>11. CASE SkipRequest
    BY <1>11, RoundStep DEF SkipRequest, PollAt
  <1>12. CASE BeginRequest
    BY <1>12 DEF BeginRequest, PollAt, StartedHeartbeat, NoRequest, StepTo
  <1>13. CASE Supervise
    BY <1>13 DEF Supervise, PollAt, Terminal, StepTo
  <1>14. CASE AwaitControl
    BY <1>14 DEF AwaitControl, PollAt, Terminal, StepTo
  <1>15. CASE TerminateWorker
    BY <1>15 DEF TerminateWorker, PollAt, StepTo
  <1>16. CASE ReturnFromSupervisor
    BY <1>16 DEF ReturnFromSupervisor, PollAt, StepTo, Quiesced
  <1>17. CASE AbandonFutures
    BY <1>17 DEF AbandonFutures, PollAt, StepTo, Quiesced
  <1>18. CASE Submit
    BY <1>18 DEF Submit, PollAt, StepTo, BeginMutation, Suppressed
  <1>19. CASE PostResponse
    BY <1>19 DEF PostResponse, PollAt, StepTo, EndMutation, Suppressed
  <1>20. CASE PostReplied
    BY <1>20 DEF PostReplied, PollAt, StepTo, EndMutation
  <1>21. CASE FinishRequest
    BY <1>21 DEF FinishRequest, PollAt, StepTo
  <1>22. CASE JoinHeartbeat
    BY <1>22, RoundStep DEF JoinHeartbeat, PollAt, JoinReturns, NoRequest
  <1>23. CASE HeartbeatRefresh
    BY <1>23 DEF HeartbeatRefresh, HbAt, BeginMutation
  <1>24. CASE HeartbeatRegistered
    BY <1>24 DEF HeartbeatRegistered, HbAt, RecordRegistration, EndMutation
  <1>25. CASE HeartbeatFails
    BY <1>25 DEF HeartbeatFails, HbAt, EndMutation, RelayMayHold
  <1>26. CASE HeartbeatBook
    BY <1>26 DEF HeartbeatBook, HbAt
  <1>27. CASE HeartbeatExits
    BY <1>27 DEF HeartbeatExits, HbAt
  <1>28. CASE StopFlags
    BY <1>28 DEF StopFlags, OpAt, OpTo
  <1>29. CASE StopLatch
    BY <1>29 DEF StopLatch, OpAt, OpTo
  <1>30. CASE StopDecides
    BY <1>30 DEF StopDecides, OpAt, OpTo, JoinReturns
  <1>31. CASE PassBarrier
    BY <1>31 DEF PassBarrier, OpAt
  <1>32. CASE BarrierTimesOut
    BY <1>32 DEF BarrierTimesOut, OpAt, OpTo
  <1>33. CASE UnregisterSkips
    BY <1>33 DEF UnregisterSkips, OpAt
  <1>34. CASE UnregisterSends
    BY <1>34 DEF UnregisterSends, OpAt, OpTo
  <1>35. CASE UnregisterConfirmed
    BY <1>35, HeadAndTail DEF UnregisterConfirmed, OpAt
  <1>36. CASE UnregisterUnconfirmed
    BY <1>36 DEF UnregisterUnconfirmed, OpAt
  <1>37. CASE UnregisterReturns
    BY <1>37 DEF UnregisterReturns, OpAt, OpTo
  <1>38. CASE NewSession
    BY <1>38 DEF NewSession, OpAt
  <1>39. CASE InferenceEnds
    BY <1>39 DEF InferenceEnds
  <1>40. CASE ControlReplies
    BY <1>40 DEF ControlReplies
  <1>41. CASE DeadlinePasses
    BY <1>41 DEF DeadlinePasses, InRequest
  <1>42. CASE GenerationCancelled
    BY <1>42 DEF GenerationCancelled
  <1>43. CASE LeaseAges
    BY <1>43 DEF LeaseAges
  <1>44. CASE RelayForgets
    BY <1>44 DEF RelayForgets
  <1>45. CASE Ended
    BY <1>45 DEF Ended, vars
  <1>46. CASE UNCHANGED vars
    BY <1>46 DEF vars
  <1> QED BY <1>1, <1>2, <1>3, <1>4, <1>5, <1>6, <1>7, <1>8, <1>9, <1>10, <1>11, <1>12,
     <1>13, <1>14, <1>15, <1>16, <1>17, <1>18, <1>19, <1>20, <1>21, <1>22, <1>23, <1>24,
     <1>25, <1>26, <1>27, <1>28, <1>29, <1>30, <1>31, <1>32, <1>33, <1>34, <1>35, <1>36,
     <1>37, <1>38, <1>39, <1>40, <1>41, <1>42, <1>43, <1>44, <1>45, <1>46 DEF Next,
     PollThread, HeartbeatThread, StopThread, External

\* Every step keeps track of the registrations a relay may hold.
LEMMA EvidenceStep ==
    ASSUME TypeOK, BarrierOK, EvidenceOK, [Next]_vars
    PROVE  EvidenceOK'
  <1> USE DEF EvidenceOK, clientVars, BarrierOK, PollMutates, HeartbeatMutates, TypeOK,
     RegistryTypeOK, PollTypeOK, HbTypeOK, OpTypeOK, PollRecord, HbRecord, OpRecord
  <1>1. CASE Start
    BY <1>1 DEF Start, StepTo, PollAt
  <1>2. CASE PollStart
    BY <1>2 DEF PollStart, PollAt, StepTo, RoundFailed, RoundOver
  <1>3. CASE PollCandidate
    BY <1>3 DEF PollCandidate, PollAt, BeginMutation, RoundFailed, RoundOver, NextCandidate
  <1>4. CASE RegisterSucceeds
    BY <1>4 DEF RegisterSucceeds, PollAt, RecordRegistration, EndMutation, StepTo
  <1>5. CASE RegisterRefused
    BY <1>5 DEF RegisterRefused, PollAt, EndMutation, NextCandidate, RoundFailed, RoundOver
  <1>6. CASE RegisterRaises
    BY <1>6 DEF RegisterRaises, PollAt, EndMutation, RelayMayHold, NextCandidate,
       RoundFailed, RoundOver, Forget
  <1>7. CASE BookRegistration
    BY <1>7 DEF BookRegistration, PollAt, StepTo, RoundFailed, RoundOver
  <1>8. CASE SendPoll
    BY <1>8 DEF SendPoll, PollAt, StepTo, RoundFailed, RoundOver
  <1>9. CASE PollReply
    BY <1>9 DEF PollReply, PollAt, RoundFailed, RoundOver
  <1>10. CASE ApplyPoll
    BY <1>10 DEF ApplyPoll, PollAt, StepTo, RoundAnswered, RoundFailed, RoundOver,
       NextCandidate, Forget
  <1>11. CASE SkipRequest
    BY <1>11 DEF SkipRequest, PollAt, RoundAnswered, RoundOver
  <1>12. CASE BeginRequest
    BY <1>12 DEF BeginRequest, PollAt, StartedHeartbeat, NoRequest, StepTo
  <1>13. CASE Supervise
    BY <1>13 DEF Supervise, PollAt, Terminal, StepTo
  <1>14. CASE AwaitControl
    BY <1>14 DEF AwaitControl, PollAt, Terminal, StepTo
  <1>15. CASE TerminateWorker
    BY <1>15 DEF TerminateWorker, PollAt, StepTo
  <1>16. CASE ReturnFromSupervisor
    BY <1>16 DEF ReturnFromSupervisor, PollAt, StepTo, Quiesced
  <1>17. CASE AbandonFutures
    BY <1>17 DEF AbandonFutures, PollAt, StepTo, Quiesced
  <1>18. CASE Submit
    BY <1>18 DEF Submit, PollAt, StepTo, BeginMutation, Suppressed
  <1>19. CASE PostResponse
    BY <1>19 DEF PostResponse, PollAt, StepTo, EndMutation, Suppressed
  <1>20. CASE PostReplied
    BY <1>20 DEF PostReplied, PollAt, StepTo, EndMutation
  <1>21. CASE FinishRequest
    BY <1>21 DEF FinishRequest, PollAt, StepTo
  <1>22. CASE JoinHeartbeat
    BY <1>22 DEF JoinHeartbeat, PollAt, JoinReturns, RoundAnswered, RoundOver, NoRequest
  <1>23. CASE HeartbeatRefresh
    BY <1>23 DEF HeartbeatRefresh, HbAt, BeginMutation
  <1>24. CASE HeartbeatRegistered
    BY <1>24 DEF HeartbeatRegistered, HbAt, RecordRegistration, EndMutation
  <1>25. CASE HeartbeatFails
    BY <1>25 DEF HeartbeatFails, HbAt, EndMutation, RelayMayHold
  <1>26. CASE HeartbeatBook
    BY <1>26 DEF HeartbeatBook, HbAt
  <1>27. CASE HeartbeatExits
    BY <1>27 DEF HeartbeatExits, HbAt
  <1>28. CASE StopFlags
    BY <1>28 DEF StopFlags, OpAt, OpTo
  <1>29. CASE StopLatch
    BY <1>29 DEF StopLatch, OpAt, OpTo
  <1>30. CASE StopDecides
    BY <1>30 DEF StopDecides, OpAt, OpTo, JoinReturns
  <1>31. CASE PassBarrier
    BY <1>31, TargetsAreTheRegistered DEF PassBarrier, OpAt
  <1>32. CASE BarrierTimesOut
    BY <1>32 DEF BarrierTimesOut, OpAt, OpTo
  <1>33. CASE UnregisterSkips
    BY <1>33 DEF UnregisterSkips, OpAt
  <1>34. CASE UnregisterSends
    BY <1>34 DEF UnregisterSends, OpAt, OpTo
  <1>35. CASE UnregisterConfirmed
    BY <1>35, HeadAndTail DEF UnregisterConfirmed, OpAt
  <1>36. CASE UnregisterUnconfirmed
    BY <1>36 DEF UnregisterUnconfirmed, OpAt
  <1>37. CASE UnregisterReturns
    <2>1. /\ op.pc = "unregister" /\ op.todo = <<>> /\ complete' = ~op.failed
          /\ op'.pc = "stopped" /\ UNCHANGED <<atRelay, registered, orphaned>>
      BY <1>37 DEF UnregisterReturns, OpAt, OpTo
    <2>2. Elements(<<>>) = {}
      BY DEF Elements
    <2>3. op.failed \in BOOLEAN
      OBVIOUS
    <2>4. complete' => ~op.failed
      BY <2>1, <2>3
    <2> QED BY <2>1, <2>2, <2>4
  <1>38. CASE NewSession
    BY <1>38 DEF NewSession, OpAt
  <1>39. CASE InferenceEnds
    BY <1>39 DEF InferenceEnds
  <1>40. CASE ControlReplies
    BY <1>40 DEF ControlReplies
  <1>41. CASE DeadlinePasses
    BY <1>41 DEF DeadlinePasses, InRequest
  <1>42. CASE GenerationCancelled
    BY <1>42 DEF GenerationCancelled
  <1>43. CASE LeaseAges
    BY <1>43 DEF LeaseAges
  <1>44. CASE RelayForgets
    BY <1>44 DEF RelayForgets
  <1>45. CASE Ended
    BY <1>45 DEF Ended, vars
  <1>46. CASE UNCHANGED vars
    BY <1>46 DEF vars
  <1> QED BY <1>1, <1>2, <1>3, <1>4, <1>5, <1>6, <1>7, <1>8, <1>9, <1>10, <1>11, <1>12,
     <1>13, <1>14, <1>15, <1>16, <1>17, <1>18, <1>19, <1>20, <1>21, <1>22, <1>23, <1>24,
     <1>25, <1>26, <1>27, <1>28, <1>29, <1>30, <1>31, <1>32, <1>33, <1>34, <1>35, <1>36,
     <1>37, <1>38, <1>39, <1>40, <1>41, <1>42, <1>43, <1>44, <1>45, <1>46 DEF Next,
     PollThread, HeartbeatThread, StopThread, External

--------------------------------------------------------------------------------
(* The theorems                                                            *)

\* The client as __init__ leaves it satisfies the invariant.
LEMMA InitIInv == Init => IInv
  <1> SUFFICES ASSUME Init PROVE IInv
    OBVIOUS
  <1>1. RegistryTypeOK
    BY NType DEF Init, RegistryTypeOK
  <1>2. PollTypeOK
    BY DEF Init, PollTypeOK, PollRecord, PollPcs, Verdicts
  <1>3. SupTypeOK
    BY DEF Init, SupTypeOK, SupRecord, NoRequest, Terminals
  <1>4. HbTypeOK /\ OpTypeOK
    BY DEF Init, HbTypeOK, OpTypeOK, HbRecord, OpRecord
  <1>5. OutcomeOK /\ InferenceOK
    BY DEF Init, OutcomeOK, InferenceOK, NoRequest
  <1>6. BarrierOK /\ EvidenceOK
    BY DEF Init, BarrierOK, EvidenceOK, PollMutates, HeartbeatMutates, One
  <1> QED BY <1>1, <1>2, <1>3, <1>4, <1>5, <1>6 DEF IInv, TypeOK

\* The invariant holds in every state the client's threads can reach.
THEOREM Invariance == Spec => []IInv
  <1>1. IInv /\ [Next]_vars => IInv'
    BY TypeStep, OutcomeStep, InferenceStep, BarrierStep, EvidenceStep DEF IInv
  <1> QED BY InitIInv, <1>1, PTL DEF Spec

\* A stop that reports success leaves no registration behind, except at relays whose
\* evidence the client had lost: unregister_from_relay passes the barrier only when no
\* registration is in flight, none begins behind the latch, and every relay with
\* evidence is among its targets.
THEOREM NoGhostIsLeft == Spec => []NoGhostRegistration
  <1>1. IInv => NoGhostRegistration
    BY DEF IInv, EvidenceOK, NoGhostRegistration
  <1> QED BY Invariance, <1>1, PTL

\* No response is handed to HTTP once its request has been ended by the relay, by Stop
\* or by its deadline.
THEOREM EndedRequestsStayUnanswered == Spec => []TerminalNeverSent
  <1>1. IInv => TerminalNeverSent
    BY DEF IInv, OutcomeOK, TerminalNeverSent
  <1> QED BY Invariance, <1>1, PTL

\* The poll thread never takes other work while an inference it started still runs; a
\* client without teardown callback may leave one behind, and has then stopped polling.
THEOREM InferenceIsSupervised == Spec => []NoAbandonedInference
  <1>1. IInv => NoAbandonedInference
    BY DEF IInv, InferenceOK, NoAbandonedInference, InRequest
  <1> QED BY Invariance, <1>1, PTL
=============================================================================
