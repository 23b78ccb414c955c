-------------------------- MODULE ModelManager_proofs --------------------------
(***************************************************************************)
(* Proofs about ModelManager, for every set of inference, cancelling and   *)
(* readiness threads and every number of workers.                          *)
(***************************************************************************)
EXTENDS ModelManager, FiniteSetTheorems, TLAPS
--------------------------------------------------------------------------------
(* The inductive invariant                                                 *)

Optional(S) == S \cup {None}
ThreadRecord ==
    [pc : Pcs, stage : {"first", "warm", "retry", "eager", "profile"}, got : Optional(Nat),
     gen : Nat, epoch : Nat, victim : Optional(Nat), cleanup : Optional(Nat),
     dead : BOOLEAN, after : {"done", "check", "peek"}]

TypeOK ==
    /\ llm \in Optional(Nat) /\ generation \in Nat /\ epoch \in Nat /\ barrier \in Optional(Nat)
    /\ started \in Nat /\ alive \subseteq Nat
    /\ th \in [Threads -> ThreadRecord]

\* Which positions a thread reaches and what it holds there: the readiness threads only
\* replace a worker, and a worker is called and invalidated only by a thread that has it.
ShapeOf(x, readiness) ==
    /\ readiness =>
          /\ x.pc \in {"idle", "close", "closed", "peek", "locked", "init", "publish",
                     "take", "got", "done"}
          /\ x.pc \notin {"idle", "done"} \/ ~x.dead => x.stage = "profile"
          /\ x.after \in {"done", "peek"} /\ x.cleanup = None
          /\ x.pc \in {"idle", "close"} => x.dead
    /\ ~readiness => x.stage # "profile"
    /\ x.pc \in {"snapshot", "call", "recheck", "call2", "invalidate"} => x.got # None
ShapesOK == \A t \in Threads : ShapeOf(th[t], t \in Readiness)

\* A thread whose teardown is under way, or has failed.
Cleaning(x) == x.pc \in {"close", "closed"} \/ ~x.dead

\* The slot is empty while a worker is built or the barrier is up, and the barrier is down
\* while one is built; the barrier belongs to the only cleanup there is, besides those of
\* a profile change.
SlotOK ==
    /\ lock # None => barrier = None
    /\ \A t \in Threads : lock = t /\ At(t, "init") => llm = None
    /\ barrier # None => llm = None
    /\ \A t \in Threads \ Readiness :
          Cleaning(th[t]) => th[t].cleanup # None /\ barrier = th[t].cleanup
    /\ \A t, u \in Threads \ Readiness : Cleaning(th[t]) /\ Cleaning(th[u]) => t = u

\* The workers a profile change is closing, and a profile change whose worker survived.
ProfileVictims == {th[t].victim : t \in {u \in Readiness : At(u, "close")}}
ProfileSurvivor == \E t \in Readiness : th[t].stage = "profile" /\ ~th[t].dead

\* Every running process, but for the strays, is the one in the slot, or the one being torn down.
ProcessesOK ==
    ProfileSurvivor \/
        /\ barrier = None => Tracked \subseteq {llm} \cup ProfileVictims
        /\ \E w : Tracked \subseteq {w} \cup ProfileVictims
        /\ \A t \in Threads \ Readiness :
             /\ At(t, "close") => Tracked \subseteq {th[t].victim} \cup ProfileVictims
             /\ At(t, "closed") /\ th[t].dead => Tracked \subseteq ProfileVictims

IInv == TypeOK /\ ShapesOK /\ SlotOK /\ ProcessesOK
--------------------------------------------------------------------------------
(* The kinds of steps                                                      *)

\* A step of t leaves the other threads where they are.
Moves(t) ==
    /\ th' \in [Threads -> ThreadRecord]
    /\ \A u \in Threads : u # t => th'[u] = th[u]
    /\ ShapeOf(th'[t], t \in Readiness)

\* The readiness threads are threads, and None is neither a thread nor a number.
LEMMA Names == Readiness \subseteq Threads /\ None \notin Threads /\ None \notin Nat
  BY NoneAssumption DEF Threads

\* What a move keeps of the threads' shapes.
LEMMA MovesShapes ==
    ASSUME NEW t \in Threads, ShapesOK, Moves(t)
    PROVE  ShapesOK'
  BY DEF Moves, ShapesOK

\* A step outside any teardown, in which no worker but a stray starts and the slot and
\* the barrier stay, keeps the invariant.
LEMMA QuietStep ==
    ASSUME NEW t \in Threads, IInv, Moves(t), UNCHANGED <<llm, barrier>>,
           started' \in Nat, alive' \subseteq Nat, Tracked' \subseteq Tracked,
           generation' \in Nat, epoch' \in Nat,
           lock' # None => lock' = lock \/ (llm = None /\ barrier = None),
           th'[t].pc = "init" => llm = None,
           th[t].pc \notin {"close", "closed"}, th'[t].pc \notin {"close", "closed"},
           th'[t].dead = th[t].dead,
           ~th[t].dead => th'[t].cleanup = th[t].cleanup /\ (t \in Readiness => th'[t].stage = th[t].stage)
    PROVE  IInv'
  <1>1. TypeOK'
    BY DEF IInv, TypeOK, Moves
  <1>2. ShapesOK'
    BY MovesShapes DEF IInv
  <1>3. \A u \in Threads : /\ Cleaning(th'[u]) <=> Cleaning(th[u])
                           /\ Cleaning(th[u]) => th'[u].cleanup = th[u].cleanup
    BY DEF Moves, Cleaning
  <1>4. SlotOK'
    <2>1. lock' # None => barrier' = None
      BY DEF IInv, SlotOK
    <2>2. ASSUME NEW u \in Threads, lock' = u, At(u, "init")' PROVE llm' = None
      BY <2>2, Names DEF IInv, SlotOK, Moves, At
    <2> QED BY <1>3, <2>1, <2>2 DEF IInv, SlotOK
  <1>5. /\ \A u \in Threads : u # t => th'[u] = th[u]
        /\ \A u \in Threads : At(u, "close")' <=> At(u, "close")
        /\ \A u \in Threads : At(u, "closed")' <=> At(u, "closed")
        /\ \A u \in Threads : At(u, "close") \/ At(u, "closed") => th'[u] = th[u]
    BY DEF Moves, At
  <1>6. ProfileVictims' = ProfileVictims
    BY <1>5, Names DEF ProfileVictims
  <1>7. ProfileSurvivor => ProfileSurvivor'
    BY <1>5, Names DEF ProfileSurvivor
  <1>8. ProcessesOK'
    BY <1>5, <1>6, <1>7 DEF IInv, ProcessesOK
  <1> QED BY <1>1, <1>2, <1>4, <1>8 DEF IInv

\* Emptying the slot under the barrier: no other such teardown is under way.
LEMMA DetachStep ==
    ASSUME NEW t \in Threads \ Readiness, IInv, Moves(t), UNCHANGED <<workerVars, lock>>, lock = None,
           llm # None, llm' = None, barrier' = generation,
           generation' \in Nat, epoch' \in Nat,
           th'[t].pc = "close", th'[t].victim = llm, th'[t].cleanup = generation
    PROVE  IInv'
  <1> USE DEF workerVars
  <1>1. TypeOK'
    BY DEF IInv, TypeOK, Moves, Optional
  <1>2. ShapesOK'
    BY MovesShapes DEF IInv
  <1>3. barrier = None /\ lock = None /\ generation # None
    BY Names DEF IInv, SlotOK, TypeOK
  <1>4. \A u \in Threads \ Readiness : ~Cleaning(th[u])
    BY <1>3 DEF IInv, SlotOK
  <1>5. \A u \in Threads \ Readiness : Cleaning(th'[u]) => u = t
    BY <1>4 DEF Moves
  <1>6. SlotOK'
    BY <1>3, <1>5 DEF SlotOK
  <1>7. \A u \in Readiness : th'[u] = th[u]
    BY Names DEF Moves
  <1>8. ProfileVictims' = ProfileVictims /\ (ProfileSurvivor => ProfileSurvivor')
    BY <1>7, Names DEF ProfileVictims, ProfileSurvivor, At
  <1>9. \A u \in Threads \ Readiness : (At(u, "close")' \/ At(u, "closed")') => u = t
    BY <1>5 DEF Cleaning, At
  <1>10. ~At(t, "closed")'
    BY DEF At
  <1>11. ProfileSurvivor \/ Tracked \subseteq {llm} \cup ProfileVictims
    BY <1>3 DEF IInv, ProcessesOK
  <1>t. Tracked' = Tracked
    BY DEF Tracked
  <1>12. ProcessesOK'
    BY <1>t, <1>3, <1>8, <1>9, <1>10, <1>11 DEF ProcessesOK
  <1> QED BY <1>1, <1>2, <1>6, <1>12 DEF IInv

\* Emptying the slot for another profile, without the barrier.
LEMMA ProfileStep ==
    ASSUME NEW t \in Readiness, IInv, Moves(t), UNCHANGED <<workerVars, lock, barrier>>, lock = None,
           llm # None, llm' = None, generation' \in Nat, epoch' \in Nat,
           th[t].pc = "idle", th'[t].pc = "close", th'[t].victim = llm, th'[t].dead = th[t].dead,
           th'[t].stage = "profile"
    PROVE  IInv'
  <1> USE DEF workerVars
  <1>1. TypeOK'
    BY DEF IInv, TypeOK, Moves, Optional
  <1>2. ShapesOK'
    BY MovesShapes, Names DEF IInv
  <1>3. barrier = None /\ lock = None
    BY DEF IInv, SlotOK
  <1>4. \A u \in Threads \ Readiness : th'[u] = th[u] /\ ~Cleaning(th[u])
    BY <1>3, Names DEF IInv, SlotOK, Moves
  <1>5. SlotOK'
    BY <1>3, <1>4 DEF SlotOK
  <1>6. ProfileSurvivor => ProfileSurvivor'
    BY Names DEF ProfileSurvivor, Moves
  <1>7. ProfileVictims' = ProfileVictims \cup {llm}
    <2>1. \A u \in Readiness : u # t => th'[u] = th[u]
      BY Names DEF Moves
    <2>2. ~At(t, "close") /\ At(t, "close")' /\ th'[t].victim = llm
      BY DEF At
    <2> QED BY <2>1, <2>2 DEF ProfileVictims, At
  <1>8. ProfileSurvivor \/ Tracked \subseteq {llm} \cup ProfileVictims
    BY <1>3 DEF IInv, ProcessesOK
  <1>9. \A u \in Threads \ Readiness : ~At(u, "close")' /\ ~At(u, "closed")'
    BY <1>4 DEF Cleaning, At
  <1>t. Tracked' = Tracked
    BY DEF Tracked
  <1>10. ProcessesOK'
    BY <1>t, <1>6, <1>7, <1>8, <1>9 DEF ProcessesOK
  <1> QED BY <1>1, <1>2, <1>5, <1>10 DEF IInv

\* A construction that succeeds fills an empty slot; nothing runs but strays and what a
\* profile change is closing.
LEMMA PublishStep ==
    ASSUME NEW t \in Threads, IInv, Moves(t), UNCHANGED <<generation, epoch, barrier, lock, stray>>,
           lock = t, started' = started + 1, llm' = started + 1,
           alive' = alive \cup {started + 1},
           th[t].pc = "init", th'[t].pc = "publish", th'[t].dead = th[t].dead,
           th'[t].cleanup = th[t].cleanup, th'[t].stage = th[t].stage
    PROVE  IInv'
  <1>1. llm = None /\ barrier = None /\ started + 1 \in Nat
    BY Names DEF IInv, SlotOK, TypeOK, At
  <1>2. TypeOK'
    BY <1>1 DEF IInv, TypeOK, Moves, Optional
  <1>3. ShapesOK'
    BY MovesShapes DEF IInv
  <1>4. \A u \in Threads \ Readiness : ~Cleaning(th'[u])
    BY <1>1 DEF IInv, SlotOK, Moves, Cleaning
  <1>5. SlotOK'
    BY <1>1, <1>4 DEF SlotOK, At
  <1>6. ProfileVictims' = ProfileVictims /\ (ProfileSurvivor => ProfileSurvivor')
    <2>1. \A u \in Readiness : u # t => th'[u] = th[u]
      BY Names DEF Moves
    <2>2. ~At(t, "close") /\ ~At(t, "close")'
      BY DEF At
    <2> QED BY <2>1, <2>2 DEF ProfileVictims, ProfileSurvivor, At
  <1>7. ProfileSurvivor \/ Tracked \subseteq ProfileVictims
    BY <1>1, Names DEF IInv, ProcessesOK, TypeOK, Tracked
  <1>8. \A u \in Threads \ Readiness : ~At(u, "close")' /\ ~At(u, "closed")'
    BY <1>4 DEF Cleaning, At
  <1>9. Tracked' \subseteq Tracked \cup {llm'}
    BY DEF Tracked
  <1>10. ProcessesOK'
    BY <1>6, <1>7, <1>8, <1>9 DEF ProcessesOK
  <1> QED BY <1>2, <1>3, <1>5, <1>10 DEF IInv

\* A published worker is dropped: the slot is empty again, its process is a stray.
LEMMA DropStep ==
    ASSUME NEW t \in Threads, IInv, Moves(t),
           UNCHANGED <<generation, epoch, barrier, alive, started>>,
           lock = t, lock' = None, llm' = None, stray' = stray \cup {llm},
           th[t].pc = "publish", th'[t].pc = "got", th'[t].dead = th[t].dead,
           th'[t].cleanup = th[t].cleanup, th'[t].stage = th[t].stage
    PROVE  IInv'
  <1>1. barrier = None
    BY Names DEF IInv, SlotOK
  <1>2. TypeOK'
    BY DEF IInv, TypeOK, Moves, Optional
  <1>3. ShapesOK'
    BY MovesShapes DEF IInv
  <1>4. \A u \in Threads \ Readiness : ~Cleaning(th'[u])
    BY <1>1 DEF IInv, SlotOK, Moves, Cleaning
  <1>5. SlotOK'
    BY <1>1, <1>4 DEF SlotOK
  <1>6. ProfileVictims' = ProfileVictims /\ (ProfileSurvivor => ProfileSurvivor')
    <2>1. \A u \in Readiness : u # t => th'[u] = th[u]
      BY Names DEF Moves
    <2>2. ~At(t, "close") /\ ~At(t, "close")'
      BY DEF At
    <2> QED BY <2>1, <2>2 DEF ProfileVictims, ProfileSurvivor, At
  <1>7. ProfileSurvivor \/ Tracked \subseteq {llm} \cup ProfileVictims
    BY <1>1 DEF IInv, ProcessesOK
  <1>8. \A u \in Threads \ Readiness : ~At(u, "close")' /\ ~At(u, "closed")'
    BY <1>4 DEF Cleaning, At
  <1>9. Tracked' \subseteq Tracked \ {llm}
    BY DEF Tracked
  <1>10. ProcessesOK'
    BY <1>6, <1>7, <1>8, <1>9 DEF ProcessesOK
  <1> QED BY <1>2, <1>3, <1>5, <1>10 DEF IInv

\* The process is killed, or survives the kill.
LEMMA KillStep ==
    ASSUME NEW t \in Threads, IInv, Moves(t), UNCHANGED <<managerVars, lock, started, stray>>,
           th[t].pc = "close", th'[t].pc = "closed", th'[t].cleanup = th[t].cleanup,
           th'[t].stage = th[t].stage,
           alive' = IF th'[t].dead THEN alive \ {th[t].victim} ELSE alive
    PROVE  IInv'
  <1> USE DEF managerVars
  <1>1. TypeOK'
    BY DEF IInv, TypeOK, Moves
  <1>2. ShapesOK'
    BY MovesShapes DEF IInv
  <1>3. \A u \in Threads : /\ Cleaning(th'[u]) => Cleaning(th[u])
                           /\ th'[u].cleanup = th[u].cleanup
    BY DEF Moves, Cleaning
  <1>4. SlotOK'
    <2>1. \A u \in Threads : At(u, "init")' => At(u, "init")
      BY DEF Moves, At
    <2> QED BY <1>3, <2>1 DEF IInv, SlotOK
  <1>5. ~At(t, "close")' /\ At(t, "close") /\ \A u \in Threads : u # t => th'[u] = th[u]
    BY DEF At, Moves
  <1>6. Tracked' \subseteq Tracked /\ (th'[t].dead => Tracked' = Tracked \ {th[t].victim})
    BY DEF Tracked
  <1>7. CASE t \in Readiness
    <2>1. ProfileVictims \subseteq ProfileVictims' \cup {th[t].victim}
      BY <1>5, Names DEF ProfileVictims, At
    <2>2. th'[t].stage = "profile"
      BY <1>7, <1>2, Names DEF ShapesOK, ShapeOf
    <2>3. ~th'[t].dead => ProfileSurvivor'
      BY <1>7, <2>2 DEF ProfileSurvivor
    <2>4. ProfileSurvivor /\ th'[t].dead => ProfileSurvivor'
      <3> SUFFICES ASSUME ProfileSurvivor, th'[t].dead PROVE ProfileSurvivor'
        OBVIOUS
      <3>1. th[t].dead
        BY <1>7 DEF IInv, ShapesOK, ShapeOf
      <3> QED BY <1>5, <3>1, Names DEF ProfileSurvivor
    <2>5. \A u \in Threads \ Readiness : th'[u] = th[u]
      BY <1>5, <1>7
    <2>6. ASSUME th'[t].dead, ~ProfileSurvivor
          PROVE  \A V : Tracked \subseteq V \cup ProfileVictims => Tracked' \subseteq V \cup ProfileVictims'
      BY <1>6, <2>1, <2>6
    <2> QED BY <1>1, <1>2, <1>4, <2>3, <2>4, <2>5, <2>6 DEF IInv, ProcessesOK, At
  <1>8. CASE t \notin Readiness
    <2>1. \A u \in Readiness : th'[u] = th[u]
      BY <1>5, <1>8, Names
    <2>2. ProfileVictims' = ProfileVictims /\ (ProfileSurvivor => ProfileSurvivor')
      BY <2>1, Names DEF ProfileVictims, ProfileSurvivor, At
    <2>3. barrier # None /\ \A u \in Threads \ Readiness : At(u, "close")' \/ At(u, "closed")' => u = t
      BY <1>8, <1>3 DEF IInv, SlotOK, Cleaning, At
    <2>4. ProfileSurvivor \/ Tracked \subseteq {th[t].victim} \cup ProfileVictims
      BY <1>5, <1>8 DEF IInv, ProcessesOK
    <2>5. ProcessesOK'
      BY <1>5, <1>6, <1>8, <2>2, <2>3, <2>4 DEF ProcessesOK
    <2> QED BY <1>1, <1>2, <1>4, <2>5 DEF IInv
  <1> QED BY <1>7, <1>8

\* The teardown is over: the barrier is lifted if the process is dead, and stays
\* otherwise.
LEMMA ReleaseStep ==
    ASSUME NEW t \in Threads, IInv, Moves(t), UNCHANGED <<llm, generation, epoch, lock, workerVars>>,
           lock = None, th[t].pc = "closed", th'[t].pc \notin {"close", "closed"},
           th'[t].dead = th[t].dead,
           ~th[t].dead => th'[t].cleanup = th[t].cleanup /\ (t \in Readiness => th'[t].stage = th[t].stage),
           barrier' = IF th[t].cleanup # None /\ barrier = th[t].cleanup /\ th[t].dead
                      THEN None ELSE barrier
    PROVE  IInv'
  <1> USE DEF workerVars
  <1>1. TypeOK'
    BY DEF IInv, TypeOK, Moves, Optional
  <1>2. ShapesOK'
    BY MovesShapes DEF IInv
  <1>3. \A u \in Threads : /\ Cleaning(th'[u]) => Cleaning(th[u]) /\ th'[u].cleanup = th[u].cleanup
                           /\ u = t /\ th[t].dead => ~Cleaning(th'[u])
                           /\ At(u, "close")' \/ At(u, "closed")' => u # t
    BY DEF Moves, Cleaning, At
  <1>4. SlotOK'
    <2> USE Names
    <2>1. CASE t \in Readiness \/ ~th[t].dead
      <3>1. barrier' = barrier
        BY <2>1 DEF IInv, ShapesOK, ShapeOf
      <3> QED BY <1>3, <3>1 DEF IInv, SlotOK
    <2>2. CASE t \notin Readiness /\ th[t].dead
      <3>1. Cleaning(th[t])
        BY DEF Cleaning
      <3>2. \A u \in Threads \ Readiness : ~Cleaning(th'[u])
        BY <1>3, <2>2, <3>1 DEF IInv, SlotOK
      <3> QED BY <3>2 DEF IInv, SlotOK
    <2> QED BY <2>1, <2>2
  <1>5. \A u \in Threads : u # t => th'[u] = th[u]
    BY DEF Moves
  <1>6. ProfileVictims' = ProfileVictims
    <2>1. ~At(t, "close") /\ ~At(t, "close")'
      BY DEF At
    <2> QED BY <1>5, <2>1, Names DEF ProfileVictims, At
  <1>7. ProfileSurvivor => ProfileSurvivor'
    BY <1>5, Names DEF ProfileSurvivor
  <1>8. CASE ProfileSurvivor
    BY <1>1, <1>2, <1>4, <1>7, <1>8 DEF IInv, ProcessesOK
  <1>9. CASE ~ProfileSurvivor
    <2>1. barrier' = None => Tracked \subseteq {llm} \cup ProfileVictims
      <3>1. CASE barrier = None
        BY <1>9, <3>1 DEF IInv, ProcessesOK
      <3>2. CASE barrier # None
        <4> SUFFICES ASSUME barrier' = None PROVE Tracked \subseteq ProfileVictims
          OBVIOUS
        <4>1. th[t].dead /\ t \notin Readiness
          BY <3>2 DEF IInv, ShapesOK, ShapeOf
        <4> QED BY <4>1, <1>9 DEF IInv, ProcessesOK, At
      <3> QED BY <3>1, <3>2
    <2>2. \E w : Tracked \subseteq {w} \cup ProfileVictims
      BY <1>9 DEF IInv, ProcessesOK
    <2>3. ASSUME NEW u \in Threads \ Readiness
          PROVE  /\ At(u, "close")' => Tracked \subseteq {th'[u].victim} \cup ProfileVictims
                 /\ At(u, "closed")' /\ th'[u].dead => Tracked \subseteq ProfileVictims
      BY <1>3, <1>5, <1>9 DEF IInv, ProcessesOK, At
    <2>4. Tracked' = Tracked /\ llm' = llm
      BY DEF Tracked
    <2>5. ProcessesOK'
      BY <1>6, <2>1, <2>2, <2>3, <2>4 DEF ProcessesOK
    <2> QED BY <1>1, <1>2, <1>4, <2>5 DEF IInv
  <1> QED BY <1>8, <1>9

\* A process that dies by itself, or loses its transport.
LEMMA LossStep ==
    ASSUME IInv, UNCHANGED <<managerVars, lock, started, stray, th>>, alive' \subseteq alive
    PROVE  IInv'
  <1> USE DEF managerVars
  <1>1. TypeOK' /\ ShapesOK' /\ SlotOK'
    BY DEF IInv, TypeOK, ShapesOK, SlotOK, At
  <1>2. ProfileVictims' = ProfileVictims /\ ProfileSurvivor' = ProfileSurvivor
    BY DEF ProfileVictims, ProfileSurvivor, At
  <1>3. \A u : \A pc : At(u, pc)' <=> At(u, pc)
    BY DEF At
  <1>t. Tracked' \subseteq Tracked
    BY DEF Tracked
  <1>4. ProcessesOK'
    BY <1>t, <1>2, <1>3 DEF IInv, ProcessesOK
  <1> QED BY <1>1, <1>4 DEF IInv
--------------------------------------------------------------------------------
(* The actions                                                             *)

\* The update of one thread.
LEMMA Moved ==
    ASSUME IInv, NEW t \in Threads, NEW x \in ThreadRecord, ShapeOf(x, t \in Readiness),
           th' = [th EXCEPT ![t] = x]
    PROVE  Moves(t) /\ th'[t] = x
  BY DEF IInv, TypeOK, Moves

\* The record of a thread, and its shape.
LEMMA ThreadFacts ==
    ASSUME IInv, NEW t \in Threads
    PROVE  th[t] \in ThreadRecord /\ ShapeOf(th[t], t \in Readiness)
  BY DEF IInv, TypeOK, ShapesOK

\* Going on without touching the locals.
LEMMA ToStep ==
    ASSUME IInv, NEW t \in Threads, NEW pc \in Pcs \ {"close", "closed"}, To(t, pc),
           th[t].pc \notin {"close", "closed", "idle", "done"},
           t \in Readiness => pc \in {"peek", "locked", "init", "take", "got", "done"},
           pc = "init" => llm = None,
           pc \in {"snapshot", "call", "recheck", "call2", "invalidate"} => th[t].got # None,
           UNCHANGED <<managerVars, workerVars>>,
           lock' # None => lock' = lock \/ (llm = None /\ barrier = None)
    PROVE  IInv'
  <1> DEFINE x == [th[t] EXCEPT !.pc = pc]
  <1>1. th[t] \in ThreadRecord /\ ShapeOf(th[t], t \in Readiness)
    BY ThreadFacts
  <1>2. x \in ThreadRecord
    BY <1>1 DEF ThreadRecord
  <1>3. /\ x.pc = pc /\ x.dead = th[t].dead /\ x.cleanup = th[t].cleanup
        /\ x.stage = th[t].stage /\ x.got = th[t].got /\ x.after = th[t].after
    BY <1>1 DEF ThreadRecord
  <1>4. th' = [th EXCEPT ![t] = x]
    BY DEF To, IInv, TypeOK
  <1> HIDE DEF x
  <1>5. ShapeOf(x, t \in Readiness)
    BY <1>1, <1>3 DEF ShapeOf
  <1>6. Moves(t) /\ th'[t] = x
    BY <1>2, <1>4, <1>5, Moved
  <1> QED BY <1>3, <1>6, QuietStep DEF managerVars, workerVars, Tracked, IInv, TypeOK

\* Ending: the locals go, but for what a failed teardown left behind.
LEMMA EndsFacts ==
    ASSUME IInv, NEW t \in Threads, Ends(t)
    PROVE  /\ Moves(t) /\ th'[t].pc = "done" /\ th'[t].dead = th[t].dead
           /\ ~th[t].dead => th'[t].cleanup = th[t].cleanup /\ th'[t].stage = th[t].stage
  <1> DEFINE d == th[t].dead
             s == IF th[t].dead THEN "first" ELSE th[t].stage
             c == IF th[t].dead THEN None ELSE th[t].cleanup
             v == IF th[t].dead THEN None ELSE th[t].victim
             x == [NoThread EXCEPT !.pc = "done", !.dead = d, !.victim = v, !.stage = s, !.cleanup = c]
  <1>1. th[t] \in ThreadRecord /\ ShapeOf(th[t], t \in Readiness)
    BY ThreadFacts
  <1>2. th' = [th EXCEPT ![t] = x]
    BY DEF Ends
  <1>3. /\ d \in BOOLEAN /\ s \in {"first", "warm", "retry", "eager", "profile"} /\ c \in Optional(Nat)
        /\ v \in Optional(Nat)
    BY <1>1 DEF ThreadRecord, Optional
  <1>4. /\ d = th[t].dead
        /\ th[t].dead => c = None /\ s = "first"
        /\ ~th[t].dead => c = th[t].cleanup /\ s = th[t].stage
    OBVIOUS
  <1> HIDE DEF d, s, c, v
  <1>5. NoThread \in ThreadRecord /\ NoThread.after = "done"
    BY DEF NoThread, ThreadRecord, Optional, Pcs
  <1>6. x \in ThreadRecord
    BY <1>3, <1>5 DEF ThreadRecord, Pcs
  <1>7. x.pc = "done" /\ x.dead = d /\ x.stage = s /\ x.cleanup = c /\ x.after = "done"
    BY <1>5 DEF ThreadRecord
  <1> HIDE DEF x
  <1>8. ShapeOf(x, t \in Readiness)
    BY <1>1, <1>3, <1>4, <1>7 DEF ShapeOf
  <1>9. Moves(t) /\ th'[t] = x
    BY <1>2, <1>6, <1>8, Moved
  <1> QED BY <1>4, <1>7, <1>9

\* Ending outside a teardown.
LEMMA EndsStep ==
    ASSUME IInv, NEW t \in Threads, Ends(t), th[t].pc \notin {"close", "closed"},
           UNCHANGED <<managerVars, lock, workerVars>>
    PROVE  IInv'
  BY EndsFacts, QuietStep DEF managerVars, workerVars, Tracked, IInv, TypeOK

\* A call of get_llm_instance that returns what is in the slot, or nothing.
LEMMA GotStep ==
    ASSUME IInv, NEW t \in Threads, NEW w \in Optional(Nat),
           th' = [th EXCEPT ![t].pc = "got", ![t].got = w], th[t].pc \in {"locked", "init", "take"},
           UNCHANGED <<managerVars, workerVars>>, lock' = lock \/ lock' = None
    PROVE  IInv'
  <1> DEFINE x == [th[t] EXCEPT !.pc = "got", !.got = w]
  <1>1. th[t] \in ThreadRecord /\ ShapeOf(th[t], t \in Readiness)
    BY ThreadFacts
  <1>2. x \in ThreadRecord
    BY <1>1 DEF ThreadRecord, Pcs, Optional, IInv, TypeOK
  <1>3. /\ x.pc = "got" /\ x.dead = th[t].dead /\ x.stage = th[t].stage
        /\ x.cleanup = th[t].cleanup /\ x.got = w /\ x.after = th[t].after /\ x.victim = th[t].victim
    BY <1>1 DEF ThreadRecord
  <1>4. th' = [th EXCEPT ![t] = x]
    BY DEF IInv, TypeOK
  <1> HIDE DEF x
  <1>5. ShapeOf(x, t \in Readiness)
    BY <1>1, <1>3 DEF ShapeOf
  <1>6. Moves(t) /\ th'[t] = x
    BY <1>2, <1>4, <1>5, Moved
  <1> QED BY <1>3, <1>6, QuietStep DEF managerVars, workerVars, Tracked, IInv, TypeOK

\* The runtime is asked for again, after a failed construction.
LEMMA WarmRetry ==
    ASSUME IInv, NEW t \in Threads, th[t].pc = "got", th[t].stage = "warm",
           th' = [th EXCEPT ![t].pc = "ensure", ![t].gen = generation],
           UNCHANGED <<managerVars, lock, workerVars>>
    PROVE  IInv'
  <1> DEFINE x == [th[t] EXCEPT !.pc = "ensure", !.gen = generation]
  <1>1. th[t] \in ThreadRecord /\ ShapeOf(th[t], t \in Readiness)
    BY ThreadFacts
  <1>2. x \in ThreadRecord
    BY <1>1 DEF ThreadRecord, Pcs, Optional, IInv, TypeOK
  <1>3. /\ x.pc = "ensure" /\ x.dead = th[t].dead /\ x.stage = th[t].stage
        /\ x.cleanup = th[t].cleanup /\ x.got = th[t].got /\ x.after = th[t].after /\ x.victim = th[t].victim
    BY <1>1 DEF ThreadRecord
  <1>4. th' = [th EXCEPT ![t] = x]
    BY DEF IInv, TypeOK
  <1> HIDE DEF x
  <1>5. ShapeOf(x, t \in Readiness)
    BY <1>1, <1>3 DEF ShapeOf
  <1>6. Moves(t) /\ th'[t] = x
    BY <1>2, <1>4, <1>5, Moved
  <1> QED BY <1>3, <1>6, QuietStep DEF managerVars, workerVars, Tracked, IInv, TypeOK

\* A request begins.
LEMMA BeginRequestStep ==
    ASSUME IInv, NEW t \in Threads, BeginRequest(t)
    PROVE  IInv'
  <1> DEFINE x == [th[t] EXCEPT !.pc = "peek", !.stage = (IF t \in Warm THEN "warm" ELSE "first")]
  <1>1. th[t] \in ThreadRecord /\ ShapeOf(th[t], t \in Readiness)
    BY ThreadFacts
  <1>2. x \in ThreadRecord
    BY <1>1 DEF ThreadRecord, Pcs, Optional, IInv, TypeOK
  <1>3. /\ x.pc = "peek" /\ x.dead = th[t].dead /\ x.stage = (IF t \in Warm THEN "warm" ELSE "first")
        /\ x.cleanup = th[t].cleanup /\ x.got = th[t].got /\ x.after = th[t].after /\ x.victim = th[t].victim
    BY <1>1 DEF ThreadRecord
  <1>4. th' = [th EXCEPT ![t] = x]
    BY DEF BeginRequest, IInv, TypeOK
  <1> HIDE DEF x
  <1>5. ShapeOf(x, t \in Readiness)
    BY <1>1, <1>3, ThreadsAssumption DEF ShapeOf, BeginRequest
  <1>6. Moves(t) /\ th'[t] = x
    BY <1>2, <1>4, <1>5, Moved
  <1> QED BY <1>1, <1>3, <1>6, QuietStep, ThreadsAssumption DEF BeginRequest, At, managerVars, workerVars, Tracked, IInv, TypeOK

\* The generation and the epoch are noted.
LEMMA SnapshotStep ==
    ASSUME IInv, NEW t \in Threads, Snapshot(t)
    PROVE  IInv'
  <1> DEFINE x == [th[t] EXCEPT !.pc = "call", !.gen = generation, !.epoch = epoch]
  <1>1. th[t] \in ThreadRecord /\ ShapeOf(th[t], t \in Readiness)
    BY ThreadFacts
  <1>2. x \in ThreadRecord
    BY <1>1 DEF ThreadRecord, Pcs, Optional, IInv, TypeOK
  <1>3. /\ x.pc = "call" /\ x.dead = th[t].dead /\ x.stage = th[t].stage
        /\ x.cleanup = th[t].cleanup /\ x.got = th[t].got /\ x.after = th[t].after /\ x.victim = th[t].victim
    BY <1>1 DEF ThreadRecord
  <1>4. th' = [th EXCEPT ![t] = x]
    BY DEF Snapshot, IInv, TypeOK
  <1> HIDE DEF x
  <1>5. ShapeOf(x, t \in Readiness)
    BY <1>1, <1>3 DEF ShapeOf, Snapshot, At
  <1>6. Moves(t) /\ th'[t] = x
    BY <1>2, <1>4, <1>5, Moved
  <1> QED BY <1>1, <1>3, <1>6, QuietStep, ThreadsAssumption DEF Snapshot, At, managerVars, workerVars, Tracked, IInv, TypeOK

\* A call that found its worker broken, or failed for good.
LEMMA GiveUpStep ==
    ASSUME IInv, NEW t \in Threads, NEW a \in {"done", "check"}, th[t].pc \in {"call", "call2"},
           th' = [th EXCEPT ![t].pc = "invalidate", ![t].after = a],
           UNCHANGED <<managerVars, lock, workerVars>>
    PROVE  IInv'
  <1> DEFINE x == [th[t] EXCEPT !.pc = "invalidate", !.after = a]
  <1>1. th[t] \in ThreadRecord /\ ShapeOf(th[t], t \in Readiness)
    BY ThreadFacts
  <1>2. x \in ThreadRecord
    BY <1>1 DEF ThreadRecord, Pcs, Optional, IInv, TypeOK
  <1>3. /\ x.pc = "invalidate" /\ x.dead = th[t].dead /\ x.stage = th[t].stage
        /\ x.cleanup = th[t].cleanup /\ x.got = th[t].got /\ x.after = a /\ x.victim = th[t].victim
    BY <1>1 DEF ThreadRecord
  <1>4. th' = [th EXCEPT ![t] = x]
    BY DEF IInv, TypeOK
  <1> HIDE DEF x
  <1>5. ShapeOf(x, t \in Readiness)
    BY <1>1, <1>3 DEF ShapeOf
  <1>6. Moves(t) /\ th'[t] = x
    BY <1>2, <1>4, <1>5, Moved
  <1> QED BY <1>3, <1>6, QuietStep DEF managerVars, workerVars, Tracked, IInv, TypeOK

\* A thread outside the readiness checks goes back to the slot, or takes what is in it.
LEMMA AskAgain ==
    ASSUME IInv, NEW t \in Threads, t \notin Readiness, NEW pc \in {"peek", "got", "done"},
           NEW w \in Optional(Nat), NEW stage \in {"retry", "eager"},
           th' = [th EXCEPT ![t].pc = pc, ![t].got = w, ![t].stage = stage],
           th[t].pc \notin {"close", "closed"}, UNCHANGED <<llm, barrier, lock, workerVars>>,
           generation' \in Nat, epoch' \in Nat
    PROVE  IInv'
  <1> DEFINE x == [th[t] EXCEPT !.pc = pc, !.got = w, !.stage = stage]
  <1>1. th[t] \in ThreadRecord /\ ShapeOf(th[t], t \in Readiness)
    BY ThreadFacts, Names
  <1>2. x \in ThreadRecord
    BY <1>1 DEF ThreadRecord, Pcs, Optional, IInv, TypeOK
  <1>3. /\ x.pc = pc /\ x.dead = th[t].dead /\ x.stage = stage
        /\ x.cleanup = th[t].cleanup /\ x.got = w /\ x.after = th[t].after /\ x.victim = th[t].victim
    BY <1>1 DEF ThreadRecord
  <1>4. th' = [th EXCEPT ![t] = x]
    BY DEF IInv, TypeOK
  <1> HIDE DEF x
  <1>5. ShapeOf(x, t \in Readiness)
    BY <1>1, <1>3 DEF ShapeOf
  <1>6. Moves(t) /\ th'[t] = x
    BY <1>2, <1>4, <1>5, Moved, Names
  <1> QED BY <1>1, <1>3, <1>6, QuietStep DEF managerVars, workerVars, Tracked, IInv, TypeOK, ShapeOf

\* A thread outside the readiness checks detaches the worker.
LEMMA TearDown ==
    ASSUME IInv, NEW t \in Threads \ Readiness, NEW stage \in {"first", "warm", "retry", "eager"},
           NEW after \in {"done", "check", "peek"},
           th' = [th EXCEPT ![t].pc = "close", ![t].victim = llm, ![t].cleanup = generation,
                            ![t].after = after, ![t].stage = stage],
           llm # None, llm' = None, barrier' = generation, lock = None, UNCHANGED <<lock, workerVars>>,
           generation' \in Nat, epoch' \in Nat
    PROVE  IInv'
  <1> DEFINE x == [th[t] EXCEPT !.pc = "close", !.victim = llm, !.cleanup = generation, !.after = after, !.stage = stage]
  <1>1. th[t] \in ThreadRecord /\ ShapeOf(th[t], t \in Readiness)
    BY ThreadFacts, Names
  <1>2. x \in ThreadRecord
    BY <1>1 DEF ThreadRecord, Pcs, Optional, IInv, TypeOK
  <1>3. /\ x.pc = "close" /\ x.dead = th[t].dead /\ x.stage = stage
        /\ x.cleanup = generation /\ x.got = th[t].got /\ x.after = after /\ x.victim = llm
    BY <1>1 DEF ThreadRecord
  <1>4. th' = [th EXCEPT ![t] = x]
    BY DEF IInv, TypeOK
  <1> HIDE DEF x
  <1>5. ShapeOf(x, t \in Readiness)
    BY <1>1, <1>3 DEF ShapeOf
  <1>6. Moves(t) /\ th'[t] = x
    BY <1>2, <1>4, <1>5, Moved, Names
  <1> QED BY <1>1, <1>3, <1>6, DetachStep DEF managerVars, workerVars, Tracked, IInv, TypeOK, ShapeOf

\* A readiness thread detaches the worker.
LEMMA TearDownProfile ==
    ASSUME IInv, NEW t \in Readiness, NEW after \in {"done", "peek"}, th[t].pc = "idle",
           th' = [th EXCEPT ![t].pc = "close", ![t].victim = llm, ![t].stage = "profile",
                            ![t].after = after],
           llm # None, llm' = None, lock = None, UNCHANGED <<epoch, barrier, lock, workerVars>>,
           generation' \in Nat
    PROVE  IInv'
  <1> DEFINE x == [th[t] EXCEPT !.pc = "close", !.victim = llm, !.after = after, !.stage = "profile"]
  <1>1. th[t] \in ThreadRecord /\ ShapeOf(th[t], t \in Readiness)
    BY ThreadFacts, Names
  <1>2. x \in ThreadRecord
    BY <1>1 DEF ThreadRecord, Pcs, Optional, IInv, TypeOK
  <1>3. /\ x.pc = "close" /\ x.dead = th[t].dead /\ x.stage = "profile"
        /\ x.cleanup = th[t].cleanup /\ x.got = th[t].got /\ x.after = after /\ x.victim = llm
    BY <1>1 DEF ThreadRecord
  <1>4. th' = [th EXCEPT ![t] = x]
    BY DEF IInv, TypeOK
  <1> HIDE DEF x
  <1>5. ShapeOf(x, t \in Readiness)
    BY <1>1, <1>3 DEF ShapeOf
  <1>6. Moves(t) /\ th'[t] = x
    BY <1>2, <1>4, <1>5, Moved, Names
  <1> QED BY <1>1, <1>3, <1>6, ProfileStep, Names DEF managerVars, workerVars, Tracked, IInv, TypeOK, ShapeOf

\* The teardown of the process.
LEMMA CloseStep ==
    ASSUME IInv, NEW t \in Threads, NEW dead \in BOOLEAN, th[t].pc = "close",
           th' = [th EXCEPT ![t].pc = "closed", ![t].dead = dead],
           alive' = IF dead THEN alive \ {th[t].victim} ELSE alive,
           UNCHANGED <<managerVars, lock, started, stray>>
    PROVE  IInv'
  <1> DEFINE x == [th[t] EXCEPT !.pc = "closed", !.dead = dead]
  <1>1. th[t] \in ThreadRecord /\ ShapeOf(th[t], t \in Readiness)
    BY ThreadFacts, Names
  <1>2. x \in ThreadRecord
    BY <1>1 DEF ThreadRecord, Pcs, Optional, IInv, TypeOK
  <1>3. /\ x.pc = "closed" /\ x.dead = dead /\ x.stage = th[t].stage
        /\ x.cleanup = th[t].cleanup /\ x.got = th[t].got /\ x.after = th[t].after /\ x.victim = th[t].victim
    BY <1>1 DEF ThreadRecord
  <1>4. th' = [th EXCEPT ![t] = x]
    BY DEF IInv, TypeOK
  <1> HIDE DEF x
  <1>5. ShapeOf(x, t \in Readiness)
    BY <1>1, <1>3 DEF ShapeOf
  <1>6. Moves(t) /\ th'[t] = x
    BY <1>2, <1>4, <1>5, Moved, Names
  <1> QED BY <1>1, <1>3, <1>6, KillStep DEF managerVars, workerVars, Tracked, IInv, TypeOK, ShapeOf

\* After the teardown, towards another worker.
LEMMA GoOnStep ==
    ASSUME IInv, NEW t \in Threads, NEW ok \in BOOLEAN, NEW after \in {"check", "peek"}, NEW c \in Optional(Nat),
           NEW v \in Optional(Nat), th[t].pc = "closed", after = th[t].after, ok = th[t].dead, lock = None,
           c = IF ok THEN None ELSE th[t].cleanup,
           th' = [th EXCEPT ![t].pc = after, ![t].got = None, ![t].victim = v, ![t].cleanup = c],
           barrier' = IF th[t].cleanup # None /\ barrier = th[t].cleanup /\ ok THEN None ELSE barrier,
           UNCHANGED <<llm, generation, epoch, lock, workerVars>>
    PROVE  IInv'
  <1> DEFINE x == [th[t] EXCEPT !.pc = after, !.got = None, !.victim = v, !.cleanup = c]
  <1>1. th[t] \in ThreadRecord /\ ShapeOf(th[t], t \in Readiness)
    BY ThreadFacts, Names
  <1>2. x \in ThreadRecord
    BY <1>1 DEF ThreadRecord, Pcs, Optional, IInv, TypeOK
  <1>3. /\ x.pc = after /\ x.dead = th[t].dead /\ x.stage = th[t].stage
        /\ x.cleanup = c /\ x.got = None /\ x.after = th[t].after /\ x.victim = v
    BY <1>1 DEF ThreadRecord
  <1>4. th' = [th EXCEPT ![t] = x]
    BY DEF IInv, TypeOK
  <1> HIDE DEF x
  <1>5. ShapeOf(x, t \in Readiness)
    BY <1>1, <1>3 DEF ShapeOf
  <1>6. Moves(t) /\ th'[t] = x
    BY <1>2, <1>4, <1>5, Moved, Names
  <1> QED BY <1>1, <1>3, <1>6, ReleaseStep DEF managerVars, workerVars, Tracked, IInv, TypeOK, ShapeOf

\* _ensure_replacement_llm: the slot serves, or is emptied, or is filled.
LEMMA EnsureReplacementStep ==
    ASSUME IInv, NEW t \in Threads, EnsureReplacement(t)
    PROVE  IInv'
  <1> DEFINE stage == IF th[t].stage = "warm" THEN "eager" ELSE "retry"
             bumped == IF generation = th[t].gen THEN generation + 1 ELSE generation
  <1>1. /\ th[t] \in ThreadRecord /\ ShapeOf(th[t], t \in Readiness) /\ th[t].pc = "ensure"
        /\ lock = None
    BY ThreadFacts DEF EnsureReplacement, At, LockFree
  <1>2. t \notin Readiness
    BY <1>1 DEF ShapeOf
  <1>3. bumped \in Nat /\ generation \in Nat /\ epoch \in Nat /\ llm \in Optional(Nat)
    BY DEF IInv, TypeOK
  <1>4. stage \in {"retry", "eager"}
    OBVIOUS
  <1>5. CASE /\ llm # None /\ llm \in usable
             /\ th' = [th EXCEPT ![t].pc = "got", ![t].got = llm, ![t].stage = stage]
             /\ UNCHANGED managerVars
    <2>1. UNCHANGED <<llm, barrier, generation, epoch, lock, workerVars>>
      BY <1>5 DEF EnsureReplacement, managerVars
    <2> HIDE DEF stage, bumped
    <2> QED BY <1>1, <1>2, <1>3, <1>4, <1>5, <2>1, AskAgain
  <1>6. CASE /\ llm # None /\ llm \notin usable /\ llm' = None /\ barrier' = generation
             /\ generation' = bumped
             /\ th' = [th EXCEPT ![t].pc = "close", ![t].victim = llm, ![t].cleanup = generation,
                                 ![t].after = "peek", ![t].stage = stage]
             /\ UNCHANGED epoch
    <2>1. UNCHANGED <<lock, workerVars>>
      BY DEF EnsureReplacement
    <2> HIDE DEF stage, bumped
    <2> QED BY <1>1, <1>2, <1>3, <1>4, <1>6, <2>1, TearDown
  <1>7. CASE /\ llm = None /\ generation' = bumped
             /\ th' = [th EXCEPT ![t].pc = "peek", ![t].stage = stage]
             /\ UNCHANGED <<llm, barrier, epoch>>
    <2>1. UNCHANGED <<lock, workerVars>>
      BY DEF EnsureReplacement
    <2> HIDE DEF stage, bumped
    <2>2. th' = [th EXCEPT ![t].pc = "peek", ![t].got = th[t].got, ![t].stage = stage]
      BY <1>1, <1>4, <1>7 DEF IInv, TypeOK, ThreadRecord
    <2>3. th[t].got \in Optional(Nat)
      BY <1>1 DEF ThreadRecord
    <2> QED BY <1>1, <1>2, <1>3, <1>4, <1>7, <2>1, <2>2, <2>3, AskAgain
  <1> QED BY <1>5, <1>6, <1>7 DEF EnsureReplacement

\* _invalidate_llm_if_current: the worker it has is still in the slot, or is not.
LEMMA InvalidateStep ==
    ASSUME IInv, NEW t \in Threads, Invalidate(t)
    PROVE  IInv'
  <1>1. /\ th[t] \in ThreadRecord /\ ShapeOf(th[t], t \in Readiness) /\ th[t].pc = "invalidate"
        /\ lock = None
    BY ThreadFacts DEF Invalidate, At, LockFree
  <1>2. t \notin Readiness /\ th[t].got # None /\ th[t].stage # "profile"
    BY <1>1 DEF ShapeOf
  <1>3. CASE llm = th[t].got
    <2> DEFINE after == th[t].after
               stage == th[t].stage
    <2>1. /\ llm' = None /\ barrier' = generation /\ generation' \in Nat /\ epoch' \in Nat
          /\ UNCHANGED <<lock, workerVars>>
      BY <1>3 DEF Invalidate, Detach, IInv, TypeOK
    <2>2. th' = [th EXCEPT ![t].pc = "close", ![t].victim = llm, ![t].cleanup = generation,
                           ![t].after = after]
      BY <1>3 DEF Invalidate, Detach
    <2>3. after \in {"done", "check", "peek"} /\ stage \in {"first", "warm", "retry", "eager"}
      BY <1>1, <1>2 DEF ThreadRecord
    <2>4. stage = th[t].stage
      OBVIOUS
    <2> HIDE DEF after, stage
    <2>5. th' = [th EXCEPT ![t].pc = "close", ![t].victim = llm, ![t].cleanup = generation,
                           ![t].after = after, ![t].stage = stage]
      BY <1>1, <2>2, <2>4 DEF IInv, TypeOK, ThreadRecord
    <2> QED BY <1>1, <1>2, <1>3, <2>1, <2>3, <2>5, TearDown
  <1>4. CASE llm # th[t].got
    <2>1. UNCHANGED <<managerVars, lock, workerVars>>
      BY <1>4 DEF Invalidate
    <2>2. CASE th[t].after = "done" /\ Ends(t)
      BY <1>1, <2>1, <2>2, EndsStep
    <2>3. CASE th[t].after # "done" /\ To(t, th[t].after)
      <3>1. th[t].after \in Pcs \ {"close", "closed"}
        BY <1>1 DEF ThreadRecord, Pcs
      <3>2. th[t].after \in {"check", "peek"}
        BY <1>1, <2>3 DEF ThreadRecord
      <3> QED BY <1>1, <1>2, <2>1, <2>3, <3>1, <3>2, ToStep DEF workerVars
    <2> QED BY <1>4, <2>2, <2>3 DEF Invalidate
  <1> QED BY <1>3, <1>4

\* terminate_active_worker_for_cancellation: the slot is empty, or is emptied.
LEMMA CancelStep ==
    ASSUME IInv, NEW t \in Threads, Cancel(t)
    PROVE  IInv'
  <1>1. th[t] \in ThreadRecord /\ th[t].pc = "idle" /\ t \notin Readiness /\ lock = None
    BY ThreadFacts, ThreadsAssumption DEF Cancel, At, LockFree
  <1>2. generation' \in Nat /\ epoch' \in Nat /\ UNCHANGED <<lock, workerVars>>
    BY DEF Cancel, IInv, TypeOK
  <1>3. CASE llm = None
    <2>1. PICK pc \in {"peek", "done"} :
              th' = [th EXCEPT ![t].pc = pc, ![t].stage = "eager"]
      BY <1>3 DEF Cancel
    <2>2. UNCHANGED <<llm, barrier>>
      BY <1>3 DEF Cancel
    <2>3. th' = [th EXCEPT ![t].pc = pc, ![t].got = th[t].got, ![t].stage = "eager"]
      BY <1>1, <2>1 DEF IInv, TypeOK, ThreadRecord
    <2>4. th[t].got \in Optional(Nat)
      BY <1>1 DEF ThreadRecord
    <2> QED BY <1>1, <1>2, <2>1, <2>2, <2>3, <2>4, AskAgain
  <1>4. CASE llm # None
    <2>1. PICK after \in {"peek", "done"} :
              th' = [th EXCEPT ![t].pc = "close", ![t].victim = llm, ![t].stage = "eager",
                               ![t].cleanup = generation, ![t].after = after]
      BY <1>4 DEF Cancel
    <2>2. llm' = None /\ barrier' = generation
      BY <1>4 DEF Cancel
    <2>3. th' = [th EXCEPT ![t].pc = "close", ![t].victim = llm, ![t].cleanup = generation,
                           ![t].after = after, ![t].stage = "eager"]
      <3>1. [th[t] EXCEPT !.pc = "close", !.victim = llm, !.stage = "eager",
                          !.cleanup = generation, !.after = after]
            = [th[t] EXCEPT !.pc = "close", !.victim = llm, !.cleanup = generation,
                            !.after = after, !.stage = "eager"]
        BY <1>1 DEF ThreadRecord
      <3> QED BY <2>1, <3>1
    <2> QED BY <1>1, <1>2, <1>4, <2>1, <2>2, <2>3, TearDown
  <1> QED BY <1>3, <1>4

\* The two ways a readiness thread drops the worker.
LEMMA ReadinessStep ==
    ASSUME IInv, NEW t \in Threads, ChangeProfile(t) \/ CancelReadiness(t)
    PROVE  IInv'
  <1>1. t \in Readiness /\ th[t].pc = "idle" /\ llm # None /\ llm' = None /\ lock = None
    BY DEF ChangeProfile, CancelReadiness, At, LockFree
  <1>2. UNCHANGED <<epoch, barrier, lock, workerVars>> /\ generation' \in Nat
    BY DEF ChangeProfile, CancelReadiness, IInv, TypeOK
  <1>3. PICK after \in {"done", "peek"} :
            th' = [th EXCEPT ![t].pc = "close", ![t].victim = llm, ![t].stage = "profile",
                             ![t].after = after]
    BY DEF ChangeProfile, CancelReadiness
  <1> QED BY <1>1, <1>2, <1>3, TearDownProfile

\* The process is told to go, and its end is looked at.
LEMMA CloseProxyStep ==
    ASSUME IInv, NEW t \in Threads, CloseProxy(t)
    PROVE  IInv'
  <1>1. PICK dead \in {TRUE, th[t].victim \notin alive} :
            /\ alive' = IF dead THEN alive \ {th[t].victim} ELSE alive
            /\ th' = [th EXCEPT ![t].pc = "closed", ![t].dead = dead]
    BY DEF CloseProxy
  <1>2. dead \in BOOLEAN
    OBVIOUS
  <1>3. th[t].pc = "close" /\ UNCHANGED <<managerVars, lock, started, stray>>
    BY DEF CloseProxy, At
  <1> QED BY <1>1, <1>2, <1>3, CloseStep

\* The barrier is lifted, or stays.
LEMMA CloseDoneStep ==
    ASSUME IInv, NEW t \in Threads, CloseDone(t)
    PROVE  IInv'
  <1> DEFINE ok == th[t].dead
             c == IF ok THEN None ELSE th[t].cleanup
             v == IF ok THEN None ELSE th[t].victim
             after == th[t].after
  <1>1. th[t] \in ThreadRecord /\ th[t].pc = "closed" /\ lock = None
    BY ThreadFacts DEF CloseDone, At, LockFree
  <1>2. /\ UNCHANGED <<llm, generation, epoch, lock, workerVars>>
        /\ barrier' = IF th[t].cleanup # None /\ barrier = th[t].cleanup /\ th[t].dead
                      THEN None ELSE barrier
    BY DEF CloseDone
  <1>3. CASE Ends(t)
    BY <1>1, <1>2, <1>3, EndsFacts, ReleaseStep
  <1>4. CASE /\ after \in {"check", "peek"}
             /\ th' = [th EXCEPT ![t].pc = after, ![t].got = None, ![t].victim = v,
                                 ![t].cleanup = c]
    <2>1. ok \in BOOLEAN /\ c \in Optional(Nat) /\ v \in Optional(Nat)
      BY <1>1 DEF ThreadRecord, Optional
    <2>2. c = (IF ok THEN None ELSE th[t].cleanup) /\ ok = th[t].dead /\ after = th[t].after
      OBVIOUS
    <2> HIDE DEF ok, c, v, after
    <2> QED BY <1>1, <1>2, <1>4, <2>1, <2>2, GoOnStep
  <1>5. Ends(t) \/ /\ after \in {"check", "peek"}
                   /\ th' = [th EXCEPT ![t].pc = after, ![t].got = None,
                                       ![t].victim = IF ok THEN None ELSE @,
                                       ![t].cleanup = IF ok THEN None ELSE @]
    BY DEF CloseDone
  <1>6. [th EXCEPT ![t].pc = after, ![t].got = None, ![t].victim = v, ![t].cleanup = c]
          = [th EXCEPT ![t].pc = after, ![t].got = None, ![t].victim = IF ok THEN None ELSE @,
                       ![t].cleanup = IF ok THEN None ELSE @]
    BY <1>1 DEF IInv, TypeOK, ThreadRecord
  <1> QED BY <1>3, <1>4, <1>5, <1>6

\* A construction publishes its worker.
LEMMA InitPublishesStep ==
    ASSUME IInv, NEW t \in Threads, InitPublishes(t)
    PROVE  IInv'
  <1> DEFINE x == [th[t] EXCEPT !.pc = "publish"]
  <1>1. th[t] \in ThreadRecord /\ ShapeOf(th[t], t \in Readiness) /\ th[t].pc = "init"
    BY ThreadFacts DEF InitPublishes, At
  <1>2. x \in ThreadRecord
    BY <1>1 DEF ThreadRecord, Pcs, Optional
  <1>3. /\ x.pc = "publish" /\ x.dead = th[t].dead /\ x.cleanup = th[t].cleanup
        /\ x.stage = th[t].stage /\ x.got = th[t].got /\ x.after = th[t].after
    BY <1>1 DEF ThreadRecord
  <1>4. th' = [th EXCEPT ![t] = x]
    BY DEF InitPublishes, To, IInv, TypeOK
  <1> HIDE DEF x
  <1>5. ShapeOf(x, t \in Readiness)
    BY <1>1, <1>3 DEF ShapeOf
  <1>6. Moves(t) /\ th'[t] = x
    BY <1>2, <1>4, <1>5, Moved
  <1> QED BY <1>1, <1>3, <1>6, PublishStep DEF InitPublishes

\* A published worker is dropped.
LEMMA InitDropsStep ==
    ASSUME IInv, NEW t \in Threads, InitDrops(t)
    PROVE  IInv'
  <1> DEFINE x == [th[t] EXCEPT !.pc = "got", !.got = None]
  <1>1. th[t] \in ThreadRecord /\ ShapeOf(th[t], t \in Readiness) /\ th[t].pc = "publish"
    BY ThreadFacts DEF InitDrops, At
  <1>2. x \in ThreadRecord
    BY <1>1 DEF ThreadRecord, Pcs, Optional
  <1>3. /\ x.pc = "got" /\ x.dead = th[t].dead /\ x.cleanup = th[t].cleanup
        /\ x.stage = th[t].stage /\ x.got = None /\ x.after = th[t].after
    BY <1>1 DEF ThreadRecord
  <1>4. th' = [th EXCEPT ![t] = x]
    BY DEF InitDrops, To, IInv, TypeOK
  <1> HIDE DEF x
  <1>5. ShapeOf(x, t \in Readiness)
    BY <1>1, <1>3 DEF ShapeOf
  <1>6. Moves(t) /\ th'[t] = x
    BY <1>2, <1>4, <1>5, Moved
  <1> QED BY <1>1, <1>3, <1>6, DropStep DEF InitDrops

\* A construction fails: the ladder goes on, or the call returns nothing; a process it
\* leaves is a stray.
LEMMA InitFailsStep ==
    ASSUME IInv, NEW t \in Threads, InitFails(t)
    PROVE  IInv'
  <1>1. th[t] \in ThreadRecord /\ ShapeOf(th[t], t \in Readiness) /\ th[t].pc = "init" /\ lock = t
    BY ThreadFacts DEF InitFails, At
  <1>2. PICK pc \in {"init", "got"} : th' = [th EXCEPT ![t].pc = pc, ![t].got = None]
    BY DEF InitFails
  <1> DEFINE x == [th[t] EXCEPT !.pc = pc, !.got = None]
  <1>3. x \in ThreadRecord
    BY <1>1 DEF ThreadRecord, Pcs, Optional
  <1>4. /\ x.pc = pc /\ x.dead = th[t].dead /\ x.cleanup = th[t].cleanup
        /\ x.stage = th[t].stage /\ x.got = None /\ x.after = th[t].after
    BY <1>1 DEF ThreadRecord
  <1>5. th' = [th EXCEPT ![t] = x]
    BY <1>2 DEF IInv, TypeOK
  <1> HIDE DEF x
  <1>6. ShapeOf(x, t \in Readiness)
    BY <1>1, <1>4 DEF ShapeOf
  <1>7. Moves(t) /\ th'[t] = x
    BY <1>3, <1>5, <1>6, Moved
  <1>8. UNCHANGED managerVars /\ lock' \in {t, None}
    BY DEF InitFails
  <1>9. started' \in Nat /\ alive' \subseteq Nat /\ Tracked' \subseteq Tracked
    BY DEF InitFails, IInv, TypeOK, Tracked, workerVars
  <1>10. llm = None
    BY <1>1 DEF IInv, SlotOK, At
  <1>11. generation' \in Nat /\ epoch' \in Nat /\ UNCHANGED <<llm, barrier>>
    BY <1>8 DEF managerVars, IInv, TypeOK
  <1> QED BY <1>1, <1>4, <1>7, <1>8, <1>9, <1>10, <1>11, QuietStep

\* The calls of get_llm_instance up to their return.
LEMMA SlotSteps ==
    ASSUME IInv, NEW t \in Threads,
           Peek(t) \/ EnterInit(t) \/ InitSucceeds(t) \/ Take(t)
    PROVE  IInv'
  <1>1. llm \in Optional(Nat) /\ None \in Optional(Nat)
    BY DEF IInv, TypeOK, Optional
  <1>2. "take" \in Pcs /\ "locked" \in Pcs /\ "init" \in Pcs
    BY DEF Pcs
  <1>3. CASE Peek(t)
    <2>1. th[t].pc = "peek" /\ UNCHANGED <<managerVars, lock, workerVars>>
      BY <1>3 DEF Peek, At
    <2>2. To(t, "locked") \/ To(t, "take")
      BY <1>3 DEF Peek
    <2> QED BY <1>2, <2>1, <2>2, ToStep DEF workerVars
  <1>4. CASE EnterInit(t)
    <2>1. th[t].pc = "locked" /\ lock = None /\ UNCHANGED <<managerVars, workerVars>>
      BY <1>4 DEF EnterInit, At, LockFree
    <2>2. CASE To(t, "take") /\ UNCHANGED lock
      BY <1>2, <2>1, <2>2, ToStep DEF workerVars
    <2>3. CASE th' = [th EXCEPT ![t].pc = "got", ![t].got = None] /\ UNCHANGED lock
      BY <1>1, <2>1, <2>3, GotStep DEF workerVars
    <2>4. CASE llm = None /\ barrier = None /\ lock' = t /\ To(t, "init")
      BY <1>2, <2>1, <2>4, ToStep DEF workerVars
    <2> QED BY <1>4, <2>2, <2>3, <2>4 DEF EnterInit
  <1>5. CASE InitSucceeds(t)
    BY <1>2, <1>5, ToStep DEF InitSucceeds, At
  <1>6. CASE Take(t)
    BY <1>1, <1>6, GotStep DEF Take, At, managerVars, workerVars
  <1> QED BY <1>3, <1>4, <1>5, <1>6

\* What the callers do with the answer, and the calls of the model.
LEMMA CallerSteps ==
    ASSUME IInv, NEW t \in Threads,
           \/ Got(t) \/ CallReturns(t) \/ CallBreaks(t) \/ CheckCancelled(t)
           \/ Recheck(t) \/ RetryReturns(t) \/ RetryBreaks(t)
    PROVE  IInv'
  <1>1. th[t] \in ThreadRecord /\ ShapeOf(th[t], t \in Readiness)
    BY ThreadFacts
  <1>2. /\ UNCHANGED <<managerVars, lock, workerVars>>
        /\ th[t].pc \in {"got", "call", "check", "recheck", "call2"}
    BY DEF Got, CallReturns, CallBreaks, CheckCancelled, Recheck, RetryReturns, RetryBreaks, At
  <1>3. {"snapshot", "recheck", "ensure", "call2"} \subseteq Pcs
    BY DEF Pcs
  <1>4. CASE Ends(t)
    BY <1>2, <1>4, EndsStep
  <1>5. CASE To(t, "snapshot") /\ th[t].got # None /\ t \notin Readiness
    BY <1>2, <1>3, <1>5, ToStep DEF workerVars
  <1>6. CASE To(t, "recheck") /\ th[t].got # None /\ t \notin Readiness
    BY <1>2, <1>3, <1>6, ToStep DEF workerVars
  <1>7. CASE To(t, "ensure") /\ t \notin Readiness
    BY <1>2, <1>3, <1>7, ToStep DEF workerVars
  <1>8. CASE To(t, "call2") /\ th[t].got # None /\ t \notin Readiness
    BY <1>2, <1>3, <1>8, ToStep DEF workerVars
  <1>9. CASE /\ th[t].pc = "got" /\ th[t].stage = "warm"
             /\ th' = [th EXCEPT ![t].pc = "ensure", ![t].gen = generation]
    BY <1>2, <1>9, WarmRetry
  <1>10. CASE /\ th[t].pc \in {"call", "call2"}
              /\ \E a \in {"done", "check"} :
                    th' = [th EXCEPT ![t].pc = "invalidate", ![t].after = a]
    BY <1>2, <1>10, GiveUpStep
  <1>11. CASE Got(t)
    BY <1>1, <1>4, <1>5, <1>6, <1>9, <1>11 DEF Got, At, ShapeOf
  <1>12. CASE CallReturns(t) \/ CallBreaks(t) \/ RetryReturns(t) \/ RetryBreaks(t)
    BY <1>4, <1>10, <1>12 DEF CallReturns, CallBreaks, RetryReturns, RetryBreaks, At
  <1>13. CASE CheckCancelled(t) \/ Recheck(t)
    BY <1>1, <1>4, <1>7, <1>8, <1>13 DEF CheckCancelled, Recheck, At, ShapeOf
  <1> QED BY <1>11, <1>12, <1>13
--------------------------------------------------------------------------------
(* The theorems                                                            *)

\* No worker runs and no thread has begun.
LEMMA InitIInv == Init => IInv
  <1> SUFFICES ASSUME Init PROVE IInv
    OBVIOUS
  <1>1. NoThread \in ThreadRecord /\ NoThread.pc = "idle" /\ NoThread.dead = TRUE
    BY DEF NoThread, ThreadRecord, Pcs, Optional
  <1>2. \A t \in Threads : ShapeOf(NoThread, t \in Readiness)
    BY DEF NoThread, ShapeOf
  <1>3. \A t \in Threads : th[t] = NoThread
    BY DEF Init
  <1>4. TypeOK
    BY <1>1 DEF Init, TypeOK, Optional
  <1>5. ShapesOK
    BY <1>2, <1>3 DEF ShapesOK
  <1>6. \A t \in Threads : ~Cleaning(th[t]) /\ ~At(t, "close") /\ ~At(t, "closed")
    BY <1>1, <1>3 DEF Cleaning, At
  <1>7. SlotOK
    BY <1>6 DEF Init, SlotOK
  <1>8. ProcessesOK
    BY <1>6 DEF Init, ProcessesOK, Tracked
  <1> QED BY <1>4, <1>5, <1>7, <1>8 DEF IInv

\* Every step keeps the invariant.
LEMMA NextIInv == IInv /\ [Next]_vars => IInv'
  <1> SUFFICES ASSUME IInv, [Next]_vars PROVE IInv'
    OBVIOUS
  <1>1. ASSUME NEW t \in Threads, ThreadStep(t) PROVE IInv'
    <2>1. CASE Snapshot(t)
      BY <2>1, SnapshotStep
    <2>2. CASE InitPublishes(t) \/ InitDrops(t) \/ InitFails(t)
      BY <2>2, InitPublishesStep, InitDropsStep, InitFailsStep
    <2>3. CASE Invalidate(t)
      BY <2>3, InvalidateStep
    <2>4. CASE CloseProxy(t)
      BY <2>4, CloseProxyStep
    <2>5. CASE CloseDone(t)
      BY <2>5, CloseDoneStep
    <2>6. CASE EnsureReplacement(t)
      BY <2>6, EnsureReplacementStep
    <2>7. CASE Peek(t) \/ EnterInit(t) \/ InitSucceeds(t) \/ Take(t)
      BY <2>7, SlotSteps
    <2>8. CASE Got(t) \/ CallBreaks(t) \/ CheckCancelled(t) \/ Recheck(t) \/ RetryBreaks(t)
      BY <2>8, CallerSteps
    <2> QED BY <1>1, <2>1, <2>2, <2>3, <2>4, <2>5, <2>6, <2>7, <2>8 DEF ThreadStep
  <1>2. ASSUME NEW t \in Threads, BeginRequest(t) PROVE IInv'
    BY <1>2, BeginRequestStep
  <1>3. ASSUME NEW t \in Threads, CallReturns(t) \/ RetryReturns(t) PROVE IInv'
    BY <1>3, CallerSteps
  <1>4. ASSUME NEW t \in Threads, Cancel(t) PROVE IInv'
    BY <1>4, CancelStep
  <1>5. ASSUME NEW t \in Threads, ChangeProfile(t) \/ CancelReadiness(t) PROVE IInv'
    BY <1>5, ReadinessStep
  <1>6. CASE WorkerDies \/ TransportBreaks
    BY <1>6, LossStep DEF WorkerDies, TransportBreaks, workerVars
  <1>7. CASE AllDone \/ UNCHANGED vars
    BY <1>7, LossStep DEF AllDone, vars, workerVars
  <1> QED BY <1>1, <1>2, <1>3, <1>4, <1>5, <1>6, <1>7 DEF Next

\* When no profile change is under way or has failed, every process is one and the same.
LEMMA ProcessesAreOne == IInv => SingleWorker
  <1> SUFFICES ASSUME IInv, ~(\E t \in Readiness : At(t, "close") \/ (th[t].stage = "profile" /\ ~th[t].dead))
               PROVE  ~(Cardinality(Tracked) > 1)
    BY DEF SingleWorker
  <1>1. ProfileVictims = {} /\ ~ProfileSurvivor
    BY DEF ProfileVictims, ProfileSurvivor
  <1>2. PICK w : Tracked \subseteq {w}
    BY <1>1 DEF IInv, ProcessesOK
  <1>3. Tracked = {} \/ Tracked = {w}
    BY <1>2
  <1>4. Cardinality(Tracked) \in {0, 1}
    BY <1>3, FS_EmptySet, FS_Singleton
  <1> QED BY <1>4

\* The invariant holds in every state of every run of the manager: who holds the slot,
\* whose the barrier is, and which processes can still run.
THEOREM Invariance == Spec => []IInv
  BY InitIInv, NextIInv, PTL DEF Spec

\* Two workers of the slot never run at once, whatever the inference threads, the
\* cancelling supervisors and the processes do: the barrier is raised before a worker is
\* closed and lifted only by the thread that saw it dead.  The exceptions are a change of
\* Qwen profile, which raises no barrier, and the strays of failed constructions.
THEOREM OneWorkerAtATime == Spec => []SingleWorker
  BY Invariance, ProcessesAreOne, PTL
=============================================================================
