----------------------- MODULE ComputeNodeBridge_proofs -----------------------
(***************************************************************************)
(* Proofs about ComputeNodeBridge, for every list of relays, every number  *)
(* of recovery attempts, and with or without warm load.                    *)
(***************************************************************************)
EXTENDS ComputeNodeBridge, TLAPS
--------------------------------------------------------------------------------
(* The inductive invariant                                                 *)

\* Main has left the join loop, or never entered it, and shuts the bridge down.
ShuttingDown == main.pc \in {"latching", "collect", "drain", "stopped"}

\* The fields the argument is about.
TypeOK ==
    /\ DOMAIN pl = R /\ DOMAIN wk = R /\ DOMAIN cu = R
    /\ evidence \subseteq R /\ latchOk \subseteq R
    /\ main \in [pc : {"gate", "warming", "watch", "latching", "collect", "drain",
                       "stopped"},
                 at : Nat \ {0}]

\* No poller runs before the gate is open; with warm load it opens on the model.
GateOK ==
    /\ main.pc \in {"gate", "warming"} => \A r \in R : pl[r] = "off" /\ wk[r] = "idle"
    /\ WarmLoad /\ (main.pc = "gate" \/ future # "ok") =>
          listed = {} /\ \A r \in R : pl[r] = "off" /\ wk[r] = "idle"

\* Nothing starts a poll once the bridge shuts down, and a client that was reported
\* latched stays so unless a recovery restarts it.
LatchOK ==
    /\ ShuttingDown => stop \/ AllExited
    /\ \A r \in R : pl[r] = "cancel" => stop
    /\ latchOk # {} => stop \/ ShuttingDown
    /\ latchOk \subseteq latched \cup excused

\* A relay whose cleanup is over has no evidence, and no poll that could renew it.
CleanedUp(r) == cu[r] \in {"done", "dropped", "skipped"}
CleanupOK ==
    /\ listed \subseteq evidence \cup lost
    /\ \A r \in R : cu[r] \in {"begin", "due"} => r \in latchOk
    /\ \A r \in R : cu[r] # "off" => main.pc \in {"collect", "drain", "stopped"}
    /\ \A r \in R : CleanedUp(r) /\ r \notin excused =>
          /\ r \notin evidence /\ wk[r] \notin {"registering", "beating"}
          /\ wk[r] = "queued" => r \in latched
    /\ main.pc = "drain" => main.at = 2 \/ (main.at = 1 /\ \A r \in R : Finished(r))
    /\ outcome # None => main.pc = "stopped"

IInv == TypeOK /\ GateOK /\ LatchOK /\ CleanupOK /\ HonestOutcome
--------------------------------------------------------------------------------
(* The steps                                                               *)

\* The relay at a valid position is one of the relays.
LEMMA RelayAt ==
    ASSUME NEW i \in Nat \ {0}, i <= Len(Relays)
    PROVE  Relays[i] \in R
  <1>1. Relays \in Seq(R)
    BY RelaysAssumption DEF R
  <1> QED BY <1>1

\* Every step of the running bridge keeps the invariant.
LEMMA StepIInv ==
    ASSUME IInv, Next
    PROVE  IInv'
  <1> USE DEF IInv, bridgeVars, clientVars, cancelVars
  <1>1. CASE Running /\ Cancel
    <2>1. TypeOK'
      BY <1>1 DEF Cancel, TypeOK
    <2>2. GateOK'
      BY <1>1 DEF Cancel, GateOK, TypeOK
    <2>3. LatchOK'
      BY <1>1 DEF Cancel, LatchOK, ShuttingDown, AllExited, TypeOK
    <2>4. CleanupOK'
      BY <1>1 DEF Cancel, CleanupOK, CleanedUp, Finished, TypeOK, LatchOK, ShuttingDown,
         AllExited
    <2>5. HonestOutcome'
      BY <1>1 DEF Cancel, Running, CleanupOK, HonestOutcome
    <2> QED BY <2>1, <2>2, <2>3, <2>4, <2>5
  <1>2. CASE Running /\ Signal
    <2>1. TypeOK'
      BY <1>2 DEF Signal, TypeOK
    <2>2. GateOK'
      BY <1>2 DEF Signal, GateOK, TypeOK
    <2>3. LatchOK'
      BY <1>2 DEF Signal, LatchOK, ShuttingDown, AllExited, TypeOK
    <2>4. CleanupOK'
      BY <1>2 DEF Signal, CleanupOK, CleanedUp, Finished, TypeOK, LatchOK, ShuttingDown,
         AllExited
    <2>5. HonestOutcome'
      BY <1>2 DEF Signal, Running, CleanupOK, HonestOutcome
    <2> QED BY <2>1, <2>2, <2>3, <2>4, <2>5
  <1>3. CASE Running /\ StartWarmLoad
    <2>1. TypeOK'
      BY <1>3 DEF StartWarmLoad, MainTo, TypeOK
    <2>2. GateOK'
      BY <1>3 DEF StartWarmLoad, MainTo, GateOK, TypeOK
    <2>3. LatchOK'
      BY <1>3 DEF StartWarmLoad, MainTo, LatchOK, ShuttingDown, AllExited, TypeOK
    <2>4. CleanupOK'
      BY <1>3 DEF StartWarmLoad, MainTo, CleanupOK, CleanedUp, Finished, TypeOK, LatchOK,
         ShuttingDown, AllExited
    <2>5. HonestOutcome'
      BY <1>3 DEF StartWarmLoad, MainTo, Running, CleanupOK, HonestOutcome
    <2> QED BY <2>1, <2>2, <2>3, <2>4, <2>5
  <1>4. CASE Running /\ GateResult
    <2>1. TypeOK'
      BY <1>4 DEF GateResult, MainTo, TypeOK
    <2>2. GateOK'
      BY <1>4 DEF GateResult, MainTo, GateOK, TypeOK
    <2>3. LatchOK'
      BY <1>4 DEF GateResult, MainTo, GateOK, LatchOK, ShuttingDown, AllExited, TypeOK
    <2>4. CleanupOK'
      BY <1>4 DEF GateResult, MainTo, CleanupOK, CleanedUp, Finished, TypeOK, LatchOK,
         ShuttingDown, AllExited
    <2>5. HonestOutcome'
      BY <1>4 DEF GateResult, MainTo, Running, CleanupOK, HonestOutcome
    <2> QED BY <2>1, <2>2, <2>3, <2>4, <2>5
  <1>5. CASE Running /\ Watch
    <2>1. TypeOK'
      BY <1>5 DEF Watch, MainTo, TypeOK
    <2>2. GateOK'
      BY <1>5 DEF Watch, MainTo, GateOK, TypeOK
    <2>3. LatchOK'
      BY <1>5 DEF Watch, MainTo, LatchOK, ShuttingDown, AllExited, TypeOK
    <2>4. CleanupOK'
      BY <1>5 DEF Watch, MainTo, CleanupOK, CleanedUp, Finished, TypeOK, LatchOK,
         ShuttingDown, AllExited
    <2>5. HonestOutcome'
      BY <1>5 DEF Watch, MainTo, Running, CleanupOK, HonestOutcome
    <2> QED BY <2>1, <2>2, <2>3, <2>4, <2>5
  <1>6. CASE Running /\ CancelPolls
    <2>1. TypeOK'
      BY <1>6, RelayAt DEF CancelPolls, Latch, MainTo, TypeOK
    <2>2. GateOK'
      BY <1>6 DEF CancelPolls, Latch, MainTo, GateOK, TypeOK
    <2>3. LatchOK'
      BY <1>6 DEF CancelPolls, Latch, MainTo, LatchOK, ShuttingDown, AllExited, TypeOK
    <2>4. CleanupOK'
      BY <1>6 DEF CancelPolls, Latch, MainTo, CleanupOK, CleanedUp, Finished, TypeOK, LatchOK,
         ShuttingDown, AllExited
    <2>5. HonestOutcome'
      BY <1>6 DEF CancelPolls, Latch, MainTo, Running, CleanupOK, HonestOutcome
    <2> QED BY <2>1, <2>2, <2>3, <2>4, <2>5
  <1>7. ASSUME NEW r \in R, Running, HeartbeatBegins(r) \/ HeartbeatEnds(r) PROVE IInv'
    <2>1. TypeOK'
      BY <1>7 DEF HeartbeatBegins, HeartbeatEnds, Booked, Raised, WorkerTo, TypeOK
    <2>2. GateOK'
      BY <1>7 DEF HeartbeatBegins, HeartbeatEnds, Booked, Raised, WorkerTo, GateOK, TypeOK
    <2>3. LatchOK'
      BY <1>7 DEF HeartbeatBegins, HeartbeatEnds, Booked, Raised, WorkerTo, LatchOK, ShuttingDown,
         AllExited, TypeOK
    <2>4. CleanupOK'
      BY <1>7 DEF HeartbeatBegins, HeartbeatEnds, Booked, Raised, WorkerTo, CleanupOK, CleanedUp,
         Finished, TypeOK, LatchOK, ShuttingDown, AllExited
    <2>5. HonestOutcome'
      BY <1>7, NoneAssumption DEF HeartbeatBegins, HeartbeatEnds, Running, CleanupOK, HonestOutcome
    <2> QED BY <2>1, <2>2, <2>3, <2>4, <2>5
  <1>8. CASE Running /\ StartCleanup
    <2>1. TypeOK'
      BY <1>8 DEF StartCleanup, MainTo, Required, TypeOK
    <2>2. GateOK'
      BY <1>8 DEF StartCleanup, MainTo, Required, GateOK, TypeOK
    <2>3. LatchOK'
      BY <1>8 DEF StartCleanup, MainTo, Required, LatchOK, ShuttingDown, AllExited, TypeOK
    <2>4. CleanupOK'
      <3>1. /\ main'.pc = "collect" /\ UNCHANGED <<evidence, excused, lost, listed, latchOk, outcome>>
            /\ main.pc = "latching"
        BY <1>8 DEF StartCleanup, MainTo
      <3>2. ASSUME NEW q \in R
            PROVE  /\ cu'[q] \in {"failed", "due", "begin"}
                   /\ cu'[q] # "failed" => q \in latchOk
        BY <1>8 DEF StartCleanup
      <3> QED BY <3>1, <3>2 DEF CleanupOK, CleanedUp
    <2>5. HonestOutcome'
      BY <1>8 DEF StartCleanup, MainTo, Required, Running, CleanupOK, HonestOutcome
    <2> QED BY <2>1, <2>2, <2>3, <2>4, <2>5
  <1>9. CASE Running /\ Collect
    <2>1. TypeOK'
      BY <1>9 DEF Collect, MainTo, Finished, TypeOK
    <2>2. GateOK'
      BY <1>9 DEF Collect, MainTo, Finished, GateOK, TypeOK
    <2>3. LatchOK'
      BY <1>9 DEF Collect, MainTo, Finished, LatchOK, ShuttingDown, AllExited, TypeOK
    <2>4. CleanupOK'
      BY <1>9 DEF Collect, MainTo, Finished, CleanupOK, CleanedUp, Finished, TypeOK,
         LatchOK, ShuttingDown, AllExited
    <2>5. HonestOutcome'
      BY <1>9 DEF Collect, MainTo, Finished, Running, CleanupOK, HonestOutcome
    <2> QED BY <2>1, <2>2, <2>3, <2>4, <2>5
  <1>10. CASE Running /\ Drain
    <2>1. TypeOK'
      BY <1>10 DEF Drain, MainTo, Failures, TypeOK
    <2>2. GateOK'
      BY <1>10 DEF Drain, MainTo, Failures, GateOK, TypeOK
    <2>3. LatchOK'
      BY <1>10 DEF Drain, MainTo, Failures, LatchOK, ShuttingDown, AllExited, TypeOK
    <2>4. CleanupOK'
      BY <1>10 DEF Drain, MainTo, Failures, CleanupOK, CleanedUp, Finished, TypeOK, LatchOK,
         ShuttingDown, AllExited
    <2>5. HonestOutcome'
      <3> SUFFICES ASSUME outcome' \in {"complete", "not_required"}, NEW r \in listed',
                           r \notin excused' \cup lost'
                   PROVE  FALSE
        BY DEF HonestOutcome
      <3>1. /\ main.pc = "drain" /\ UNCHANGED <<listed, excused, lost, cu>>
            /\ outcome' = CASE Failures -> IF late THEN "timed_out" ELSE "partial"
                            [] ~Failures /\ \E q \in R : cu[q] \in {"done", "dropped"} -> "complete"
                            [] OTHER -> "not_required"
        BY <1>10 DEF Drain
      <3>2. ~Failures
        <4>1. CASE Failures
          <5>1. outcome' = IF late THEN "timed_out" ELSE "partial"
            BY <3>1, <4>1
          <5> QED BY <5>1
        <4> QED BY <4>1
      <3>3. r \in evidence /\ r \in R
        BY <3>1 DEF CleanupOK, TypeOK
      <3>4. main.at # 2 /\ cu[r] # "failed"
        BY <3>2, <3>3 DEF Failures
      <3>5. main.at = 1
        BY <3>1, <3>4 DEF CleanupOK
      <3>6. CleanedUp(r)
        BY <3>1, <3>3, <3>4, <3>5 DEF CleanupOK, CleanedUp, Finished
      <3> QED BY <3>1, <3>3, <3>6 DEF CleanupOK
    <2> QED BY <2>1, <2>2, <2>3, <2>4, <2>5
  <1>11. CASE Running /\ WarmLoadEnds
    <2>1. TypeOK'
      BY <1>11 DEF WarmLoadEnds, TypeOK
    <2>2. GateOK'
      BY <1>11 DEF WarmLoadEnds, GateOK, TypeOK
    <2>3. LatchOK'
      BY <1>11 DEF WarmLoadEnds, LatchOK, ShuttingDown, AllExited, TypeOK
    <2>4. CleanupOK'
      BY <1>11 DEF WarmLoadEnds, CleanupOK, CleanedUp, Finished, TypeOK, LatchOK,
         ShuttingDown, AllExited
    <2>5. HonestOutcome'
      BY <1>11 DEF WarmLoadEnds, Running, CleanupOK, HonestOutcome
    <2> QED BY <2>1, <2>2, <2>3, <2>4, <2>5
  <1>12. CASE Running /\ DeadlinePasses
    <2>1. TypeOK'
      BY <1>12 DEF DeadlinePasses, TypeOK
    <2>2. GateOK'
      BY <1>12 DEF DeadlinePasses, GateOK, TypeOK
    <2>3. LatchOK'
      BY <1>12 DEF DeadlinePasses, LatchOK, ShuttingDown, AllExited, TypeOK
    <2>4. CleanupOK'
      BY <1>12 DEF DeadlinePasses, CleanupOK, CleanedUp, Finished, TypeOK, LatchOK,
         ShuttingDown, AllExited
    <2>5. HonestOutcome'
      BY <1>12 DEF DeadlinePasses, Running, CleanupOK, HonestOutcome
    <2> QED BY <2>1, <2>2, <2>3, <2>4, <2>5
  <1>13. ASSUME NEW r \in R, Running, WorkerBegins(r) PROVE IInv'
    <2>1. TypeOK'
      BY <1>13 DEF WorkerBegins, Return, PollerTo, WorkerTo, TypeOK
    <2>2. GateOK'
      BY <1>13 DEF WorkerBegins, Return, PollerTo, WorkerTo, GateOK, TypeOK
    <2>3. LatchOK'
      BY <1>13 DEF WorkerBegins, Return, PollerTo, WorkerTo, LatchOK, ShuttingDown,
         AllExited, TypeOK
    <2>4. CleanupOK'
      BY <1>13 DEF WorkerBegins, Return, PollerTo, WorkerTo, CleanupOK, CleanedUp, Finished,
         TypeOK, LatchOK, ShuttingDown, AllExited
    <2>5. HonestOutcome'
      BY <1>13 DEF WorkerBegins, Return, PollerTo, WorkerTo, Running, CleanupOK, HonestOutcome
    <2> QED BY <2>1, <2>2, <2>3, <2>4, <2>5
  <1>14. ASSUME NEW r \in R, Running, WorkerRegisters(r) PROVE IInv'
    <2>1. TypeOK'
      BY <1>14 DEF WorkerRegisters, Booked, Raised, Return, PollerTo, WorkerTo, TypeOK
    <2>2. GateOK'
      BY <1>14 DEF WorkerRegisters, Booked, Raised, Return, PollerTo, WorkerTo, GateOK, TypeOK
    <2>3. LatchOK'
      BY <1>14 DEF WorkerRegisters, Booked, Raised, Return, PollerTo, WorkerTo, LatchOK, ShuttingDown,
         AllExited, TypeOK
    <2>4. CleanupOK'
      BY <1>14 DEF WorkerRegisters, Booked, Raised, Return, PollerTo, WorkerTo, CleanupOK, CleanedUp,
         Finished, TypeOK, LatchOK, ShuttingDown, AllExited
    <2>5. HonestOutcome'
      BY <1>14, NoneAssumption DEF WorkerRegisters, Running, CleanupOK, HonestOutcome
    <2> QED BY <2>1, <2>2, <2>3, <2>4, <2>5
  <1>15. ASSUME NEW r \in R, Running, WorkerPolls(r) PROVE IInv'
    <2>1. TypeOK'
      BY <1>15 DEF WorkerPolls, Return, PollerTo, WorkerTo, TypeOK
    <2>2. GateOK'
      BY <1>15 DEF WorkerPolls, Return, PollerTo, WorkerTo, GateOK, TypeOK
    <2>3. LatchOK'
      BY <1>15 DEF WorkerPolls, Return, PollerTo, WorkerTo, LatchOK, ShuttingDown,
         AllExited, TypeOK
    <2>4. CleanupOK'
      BY <1>15 DEF WorkerPolls, Return, PollerTo, WorkerTo, CleanupOK, CleanedUp, Finished,
         TypeOK, LatchOK, ShuttingDown, AllExited
    <2>5. HonestOutcome'
      BY <1>15 DEF WorkerPolls, Return, PollerTo, WorkerTo, Running, CleanupOK, HonestOutcome
    <2> QED BY <2>1, <2>2, <2>3, <2>4, <2>5
  <1>16. ASSUME NEW r \in R, Running, LoopTop(r) PROVE IInv'
    <2>1. TypeOK'
      BY <1>16 DEF LoopTop, PollerTo, WorkerTo, TypeOK
    <2>2. GateOK'
      BY <1>16 DEF LoopTop, PollerTo, WorkerTo, GateOK, TypeOK
    <2>3. LatchOK'
      BY <1>16 DEF LoopTop, PollerTo, WorkerTo, LatchOK, ShuttingDown, AllExited, TypeOK
    <2>4. CleanupOK'
      BY <1>16 DEF LoopTop, PollerTo, WorkerTo, CleanupOK, CleanedUp, Finished, TypeOK,
         LatchOK, ShuttingDown, AllExited
    <2>5. HonestOutcome'
      BY <1>16 DEF LoopTop, PollerTo, WorkerTo, Running, CleanupOK, HonestOutcome
    <2> QED BY <2>1, <2>2, <2>3, <2>4, <2>5
  <1>17. ASSUME NEW r \in R, Running, GiveUpPoll(r) PROVE IInv'
    <2>1. TypeOK'
      BY <1>17 DEF GiveUpPoll, PollerTo, WorkerTo, TypeOK
    <2>2. GateOK'
      BY <1>17 DEF GiveUpPoll, PollerTo, WorkerTo, GateOK, TypeOK
    <2>3. LatchOK'
      BY <1>17 DEF GiveUpPoll, PollerTo, WorkerTo, LatchOK, ShuttingDown, AllExited, TypeOK
    <2>4. CleanupOK'
      BY <1>17 DEF GiveUpPoll, PollerTo, WorkerTo, CleanupOK, CleanedUp, Finished, TypeOK,
         LatchOK, ShuttingDown, AllExited
    <2>5. HonestOutcome'
      BY <1>17 DEF GiveUpPoll, PollerTo, WorkerTo, Running, CleanupOK, HonestOutcome
    <2> QED BY <2>1, <2>2, <2>3, <2>4, <2>5
  <1>18. ASSUME NEW r \in R, Running, LatchPoll(r) PROVE IInv'
    <2>1. TypeOK'
      BY <1>18 DEF LatchPoll, Latch, PollerTo, WorkerTo, TypeOK
    <2>2. GateOK'
      BY <1>18 DEF LatchPoll, Latch, PollerTo, WorkerTo, GateOK, TypeOK
    <2>3. LatchOK'
      BY <1>18 DEF LatchPoll, Latch, PollerTo, WorkerTo, LatchOK, ShuttingDown, AllExited, TypeOK
    <2>4. CleanupOK'
      BY <1>18 DEF LatchPoll, Latch, PollerTo, WorkerTo, CleanupOK, CleanedUp, Finished, TypeOK,
         LatchOK, ShuttingDown, AllExited
    <2>5. HonestOutcome'
      BY <1>18 DEF LatchPoll, Latch, PollerTo, WorkerTo, Running, CleanupOK, HonestOutcome
    <2> QED BY <2>1, <2>2, <2>3, <2>4, <2>5
  <1>19. ASSUME NEW r \in R, Running, Process(r) PROVE IInv'
    <2>1. TypeOK'
      BY <1>19 DEF Process, PollerTo, WorkerTo, TypeOK
    <2>2. GateOK'
      BY <1>19 DEF Process, PollerTo, WorkerTo, GateOK, TypeOK
    <2>3. LatchOK'
      BY <1>19 DEF Process, PollerTo, WorkerTo, LatchOK, ShuttingDown, AllExited, TypeOK
    <2>4. CleanupOK'
      BY <1>19 DEF Process, PollerTo, WorkerTo, CleanupOK, CleanedUp, Finished, TypeOK,
         LatchOK, ShuttingDown, AllExited
    <2>5. HonestOutcome'
      BY <1>19 DEF Process, PollerTo, WorkerTo, Running, CleanupOK, HonestOutcome
    <2> QED BY <2>1, <2>2, <2>3, <2>4, <2>5
  <1>20. ASSUME NEW r \in R, Running, ApplyVerdict(r) PROVE IInv'
    <2>1. TypeOK'
      BY <1>20 DEF ApplyVerdict, PollerTo, WorkerTo, TypeOK
    <2>2. GateOK'
      BY <1>20 DEF ApplyVerdict, PollerTo, WorkerTo, GateOK, TypeOK
    <2>3. LatchOK'
      BY <1>20 DEF ApplyVerdict, PollerTo, WorkerTo, LatchOK, ShuttingDown, AllExited, TypeOK
    <2>4. CleanupOK'
      BY <1>20 DEF ApplyVerdict, PollerTo, WorkerTo, CleanupOK, CleanedUp, Finished, TypeOK,
         LatchOK, ShuttingDown, AllExited
    <2>5. HonestOutcome'
      BY <1>20 DEF ApplyVerdict, PollerTo, WorkerTo, Running, CleanupOK, HonestOutcome
    <2> QED BY <2>1, <2>2, <2>3, <2>4, <2>5
  <1>21. ASSUME NEW r \in R, Running, Coordinate(r) PROVE IInv'
    <2>1. TypeOK'
      BY <1>21 DEF Coordinate, PollerTo, WorkerTo, TypeOK
    <2>2. GateOK'
      BY <1>21 DEF Coordinate, PollerTo, WorkerTo, GateOK, TypeOK
    <2>3. LatchOK'
      BY <1>21 DEF Coordinate, PollerTo, WorkerTo, LatchOK, ShuttingDown, AllExited, TypeOK
    <2>4. CleanupOK'
      BY <1>21 DEF Coordinate, PollerTo, WorkerTo, CleanupOK, CleanedUp, Finished, TypeOK,
         LatchOK, ShuttingDown, AllExited
    <2>5. HonestOutcome'
      BY <1>21 DEF Coordinate, PollerTo, WorkerTo, Running, CleanupOK, HonestOutcome
    <2> QED BY <2>1, <2>2, <2>3, <2>4, <2>5
  <1>22. ASSUME NEW r \in R, Running, Join(r) PROVE IInv'
    <2>1. TypeOK'
      BY <1>22 DEF Join, PollerTo, WorkerTo, TypeOK
    <2>2. GateOK'
      BY <1>22 DEF Join, PollerTo, WorkerTo, GateOK, TypeOK
    <2>3. LatchOK'
      BY <1>22 DEF Join, PollerTo, WorkerTo, LatchOK, ShuttingDown, AllExited, TypeOK
    <2>4. CleanupOK'
      BY <1>22 DEF Join, PollerTo, WorkerTo, CleanupOK, CleanedUp, Finished, TypeOK,
         LatchOK, ShuttingDown, AllExited
    <2>5. HonestOutcome'
      BY <1>22 DEF Join, PollerTo, WorkerTo, Running, CleanupOK, HonestOutcome
    <2> QED BY <2>1, <2>2, <2>3, <2>4, <2>5
  <1>23. ASSUME NEW r \in R, Running, UnadvertiseLatch(r) PROVE IInv'
    <2>1. TypeOK'
      BY <1>23 DEF UnadvertiseLatch, PollerTo, WorkerTo, TypeOK
    <2>2. GateOK'
      BY <1>23 DEF UnadvertiseLatch, PollerTo, WorkerTo, GateOK, TypeOK
    <2>3. LatchOK'
      BY <1>23 DEF UnadvertiseLatch, PollerTo, WorkerTo, LatchOK, ShuttingDown, AllExited,
         TypeOK
    <2>4. CleanupOK'
      BY <1>23 DEF UnadvertiseLatch, PollerTo, WorkerTo, CleanupOK, CleanedUp, Finished,
         TypeOK, LatchOK, ShuttingDown, AllExited
    <2>5. HonestOutcome'
      BY <1>23 DEF UnadvertiseLatch, PollerTo, WorkerTo, Running, CleanupOK, HonestOutcome
    <2> QED BY <2>1, <2>2, <2>3, <2>4, <2>5
  <1>24. ASSUME NEW r \in R, Running, Unadvertise(r) PROVE IInv'
    <2>1. TypeOK'
      BY <1>24 DEF Unadvertise, PollerTo, Unregister, mutating, TypeOK
    <2>2. GateOK'
      BY <1>24 DEF Unadvertise, PollerTo, Unregister, mutating, GateOK, TypeOK
    <2>3. LatchOK'
      BY <1>24 DEF Unadvertise, PollerTo, Unregister, mutating, LatchOK, ShuttingDown,
         AllExited, TypeOK
    <2>4. CleanupOK'
      BY <1>24 DEF Unadvertise, PollerTo, Unregister, mutating, CleanupOK, CleanedUp,
         Finished, TypeOK, LatchOK, ShuttingDown, AllExited
    <2>5. HonestOutcome'
      BY <1>24 DEF Unadvertise, PollerTo, Unregister, mutating, Running, CleanupOK,
         HonestOutcome
    <2> QED BY <2>1, <2>2, <2>3, <2>4, <2>5
  <1>25. ASSUME NEW r \in R, Running, Attempt(r) PROVE IInv'
    <2>1. TypeOK'
      BY <1>25 DEF Attempt, PollerTo, Release, TypeOK
    <2>2. GateOK'
      BY <1>25 DEF Attempt, PollerTo, Release, GateOK, TypeOK
    <2>3. LatchOK'
      BY <1>25 DEF Attempt, PollerTo, Release, LatchOK, ShuttingDown, AllExited, TypeOK
    <2>4. CleanupOK'
      BY <1>25 DEF Attempt, PollerTo, Release, CleanupOK, CleanedUp, Finished, TypeOK,
         LatchOK, ShuttingDown, AllExited
    <2>5. HonestOutcome'
      BY <1>25 DEF Attempt, PollerTo, Release, Running, CleanupOK, HonestOutcome
    <2> QED BY <2>1, <2>2, <2>3, <2>4, <2>5
  <1>26. ASSUME NEW r \in R, Running, AttemptEnds(r) PROVE IInv'
    <2>1. TypeOK'
      BY <1>26 DEF AttemptEnds, PollerTo, WorkerTo, TypeOK
    <2>2. GateOK'
      BY <1>26 DEF AttemptEnds, PollerTo, WorkerTo, GateOK, TypeOK
    <2>3. LatchOK'
      BY <1>26 DEF AttemptEnds, PollerTo, WorkerTo, LatchOK, ShuttingDown, AllExited, TypeOK
    <2>4. CleanupOK'
      BY <1>26 DEF AttemptEnds, PollerTo, WorkerTo, CleanupOK, CleanedUp, Finished, TypeOK,
         LatchOK, ShuttingDown, AllExited
    <2>5. HonestOutcome'
      BY <1>26 DEF AttemptEnds, PollerTo, WorkerTo, Running, CleanupOK, HonestOutcome
    <2> QED BY <2>1, <2>2, <2>3, <2>4, <2>5
  <1>27. ASSUME NEW r \in R, Running, Revive(r) PROVE IInv'
    <2>1. TypeOK'
      BY <1>27 DEF Revive, PollerTo, Release, TypeOK
    <2>2. GateOK'
      BY <1>27 DEF Revive, PollerTo, Release, GateOK, TypeOK
    <2>3. LatchOK'
      BY <1>27 DEF Revive, PollerTo, Release, LatchOK, ShuttingDown, AllExited, TypeOK
    <2>4. CleanupOK'
      BY <1>27 DEF Revive, PollerTo, Release, CleanupOK, CleanedUp, Finished, TypeOK,
         LatchOK, ShuttingDown, AllExited
    <2>5. HonestOutcome'
      BY <1>27 DEF Revive, PollerTo, Release, Running, CleanupOK, HonestOutcome
    <2> QED BY <2>1, <2>2, <2>3, <2>4, <2>5
  <1>28. ASSUME NEW r \in R, Running, CleanupRelay(r) PROVE IInv'
    <2>1. TypeOK'
      BY <1>28 DEF CleanupRelay, CleanupTo, Unregister, Required, mutating, TypeOK
    <2>2. GateOK'
      BY <1>28 DEF CleanupRelay, CleanupTo, Unregister, Required, mutating, GateOK, TypeOK
    <2>3. LatchOK'
      BY <1>28 DEF CleanupRelay, CleanupTo, Unregister, Required, mutating, LatchOK,
         ShuttingDown, AllExited, TypeOK
    <2>4. CleanupOK'
      BY <1>28 DEF CleanupRelay, CleanupTo, Unregister, Required, mutating, CleanupOK,
         CleanedUp, Finished, TypeOK, LatchOK, ShuttingDown, AllExited
    <2>5. HonestOutcome'
      BY <1>28 DEF CleanupRelay, CleanupTo, Unregister, Required, mutating, Running,
         CleanupOK, HonestOutcome
    <2> QED BY <2>1, <2>2, <2>3, <2>4, <2>5
  <1>29. CASE Stopped
    BY <1>29 DEF Stopped, vars, TypeOK, GateOK, LatchOK, CleanupOK, ShuttingDown, AllExited,
       CleanedUp, Finished, HonestOutcome
  <1> QED BY <1>1, <1>2, <1>3, <1>4, <1>5, <1>6, <1>7, <1>8, <1>9, <1>10, <1>11, <1>12,
     <1>13, <1>14, <1>15, <1>16, <1>17, <1>18, <1>19, <1>20, <1>21, <1>22, <1>23, <1>24,
     <1>25, <1>26, <1>27, <1>28, <1>29 DEF Next, MainThread, Worker, Poller
--------------------------------------------------------------------------------
(* The theorems                                                            *)

\* The bridge starts with nothing listed and no thread but main.
LEMMA InitIInv == Init => IInv
  <1> SUFFICES ASSUME Init PROVE IInv
    OBVIOUS
  <1>1. TypeOK /\ GateOK
    BY DEF Init, TypeOK, GateOK
  <1>2. LatchOK /\ CleanupOK /\ HonestOutcome
    BY DEF Init, LatchOK, CleanupOK, CleanedUp, Finished, HonestOutcome, ShuttingDown, AllExited
  <1> QED BY <1>1, <1>2 DEF IInv

\* The invariant holds in every state the bridge's threads can reach.
THEOREM Invariance == Spec => []IInv
  <1>1. IInv /\ UNCHANGED vars => IInv'
    BY DEF IInv, vars, bridgeVars, clientVars, cancelVars, TypeOK, GateOK, LatchOK, CleanupOK,
           ShuttingDown, AllExited, CleanedUp, Finished, HonestOutcome
  <1>2. IInv /\ [Next]_vars => IInv'
    BY <1>1, StepIInv
  <1> QED BY InitIInv, <1>2, PTL DEF Spec

\* With warm load no relay lists the node unless the model's warm load succeeded: the
\* pollers start only when the gate accepts its result, however late the load, its
\* deadline and an operator's Stop come.
THEOREM ColdNodesStayUnlisted == Spec => []NeverListedCold
  <1>1. IInv => NeverListedCold
    BY DEF IInv, GateOK, NeverListedCold
  <1> QED BY Invariance, <1>1, PTL

\* A stopped event that reports a clean end tells the truth: a relay whose cleanup is
\* over has no evidence and no poll that could register again, because the polls still
\* queued find their client latched.
THEOREM OutcomeIsHonest == Spec => []HonestOutcome
  <1>1. IInv => HonestOutcome
    BY DEF IInv
  <1> QED BY Invariance, <1>1, PTL
=============================================================================
