--------------------------- MODULE RelayApiV1_proofs ---------------------------
(***************************************************************************)
(* Proofs about RelayApiV1, for every set of nodes, requests and threads   *)
(* and every setting of the periods.                                       *)
(***************************************************************************)
EXTENDS RelayApiV1, ListFilter_proofs, FiniteSetTheorems, TLAPS
--------------------------------------------------------------------------------
(* The inductive invariant                                                 *)

\* A poll handed the request to a node.
HandedOut(r) == \E k \in work : k[2] = r

\* Where a request's lifecycle is, besides pending and responses.
Home(r) == Queued(queue, r) \/ InHand(r) \/ Flying(in_flight, r)

\* What the tables, the threads' locals and the requester say of one request.
RequestOK(r) ==
    /\ Queued(queue, r) => ~InHand(r)
    /\ Queued(queue, r) \/ InHand(r) => ~Flying(in_flight, r)
    /\ Home(r) => r \notin responses
    /\ r \in pending => Home(r)
    /\ HandedOut(r) => ~Queued(queue, r) /\ ~InHand(r)
    /\ Home(r) \/ r \in responses \/ HandedOut(r) => deadline[r] > 0
    /\ client[r] = "new" => deadline[r] = 0
    /\ client[r] = "delivered" => ~Home(r)
    /\ client[r] \in {"waiting", "gone", "unknown"} => deadline[r] > 0
    /\ r \in DOMAIN outcomes => deadline[r] > 0 /\ r \notin pending

\* The locals a handler has at each of its steps.
ShapeOf(x) ==
    /\ x.pc = "evict" => x.op \in {"submit", "poll", "control"}
    /\ x.pc \in {"admit", "enqueue"} => x.op = "submit"
    /\ x.pc \in {"heartbeat", "pop", "drop", "claim", "insert"} => x.op = "poll"
    /\ x.pc = "control" => x.op = "control"
    /\ x.op \in {"submit", "poll", "control"} => x.node \in Node
    /\ x.op \in {"submit", "control"} => x.req \in Request
    /\ x.pc \in {"drop", "insert", "cancel", "settle"} => x.req \in Request
    /\ x.op = "poll" => x.req = None \/ x.pc \in {"drop", "claim", "insert"}
ShapesOK == \A t \in Thread : ShapeOf(thread[t])

\* A submit keeps its node registered from its check to the queue, and its
\* requester hears nothing before that.
EnqueueRegistered ==
    \A t \in Thread : At(t, "enqueue") =>
        Registered(thread[t].node) /\ client[thread[t].req] = "sent"

\* A submit that has not marked its request yet is the only one for it.
Submitting(t) == thread[t].op = "submit" /\ thread[t].pc \in {"evict", "admit"}
SubmitsOnce ==
    /\ \A t \in Thread : Submitting(t) =>
         client[thread[t].req] = "sent" /\ deadline[thread[t].req] = 0
    /\ \A t, u \in Thread : Submitting(t) /\ Submitting(u)
         /\ thread[t].req = thread[u].req => t = u

Consistent ==
    /\ OneSlot /\ OneHand /\ OneOwner
    /\ \A r \in Request : RequestOK(r)
    /\ ShapesOK /\ EnqueueRegistered /\ SubmitsOnce
    /\ WorkAtRegisteredNodes /\ CompletedNotTerminal
IInv == TypeOK /\ Consistent
--------------------------------------------------------------------------------
(* What the helpers do                                                     *)

\* The periods are natural numbers, and the ones that matter are positive.
LEMMA Periods ==
    /\ DeadlineSeconds \in Nat \ {0} /\ TerminalSeconds \in Nat \ {0}
    /\ TombstoneSeconds \in Nat \ {0} /\ InFlightSeconds \in Nat
    /\ PollWaitSeconds \in Nat /\ MaxTime \in Nat
  BY PeriodAssumption DEF PeriodsValid

\* A well-typed entry keeps a dict well-typed.
LEMMA PutType ==
    ASSUME NEW f, NEW k, NEW v, NEW D, NEW R,
           IsMap(f, D), Values(f, R), k \in D, v \in R
    PROVE  IsMap(Put(f, k, v), D) /\ Values(Put(f, k, v), R)
  BY DEF IsMap, Values, Put

\* So does deleting entries.
LEMMA DropType ==
    ASSUME NEW f, NEW K, NEW D, NEW R, IsMap(f, D), Values(f, R)
    PROVE  IsMap(Drop(f, K), D) /\ Values(Drop(f, K), R)
  BY DEF IsMap, Values, Drop

\* A queue with no element is empty.
LEMMA NoElements ==
    ASSUME NEW S, NEW s \in Seq(S)
    PROVE  /\ Elements(s) \subseteq S
           /\ Elements(s) = {} <=> s = <<>>
  <1>1. Elements(s) \subseteq S
    BY DEF Elements
  <1>2. s = <<>> => Elements(s) = {}
    BY DEF Elements
  <1>3. s # <<>> => s[1] \in Elements(s)
    BY DEF Elements
  <1> QED BY <1>1, <1>2, <1>3

\* A step took the requests R out of the queues, out of flight and from pending,
\* and nothing else.
Ended(R) ==
    /\ LifecycleTypeOK'
    /\ \A n \in Node : Elements(queue'[n]) = Elements(queue[n]) \ R
    /\ \A n \in Node : DOMAIN in_flight'[n] = DOMAIN in_flight[n] \ R
    /\ pending' = pending \ R
    /\ OneSlot'

\* Filtering the queues and the in-flight tables ends R, also when the caller
\* emptied some of them of R's requests before.
LEMMA FilterEnds ==
    ASSUME LifecycleTypeOK, OneSlot, NEW R \in SUBSET Request, NEW q, NEW f,
           q = [n \in Node |-> q[n]], f = [n \in Node |-> f[n]],
           \A n \in Node : \/ q[n] = queue[n] /\ f[n] = in_flight[n]
                           \/ /\ q[n] = <<>> /\ f[n] = Empty
                              /\ Elements(queue[n]) \cup DOMAIN in_flight[n] \subseteq R,
           queue' = [n \in Node |-> Without(q[n], R)],
           in_flight' = [n \in Node |-> Drop(f[n], R)],
           pending' = pending \ R, progress' \subseteq progress
    PROVE  Ended(R)
  <1> USE DEF LifecycleTypeOK
  <1>1. \A n \in Node : q[n] \in Seq(Request) /\ (q[n] = queue[n] \/ q[n] = <<>>)
    <2>1. <<>> \in Seq(Request)
      OBVIOUS
    <2> QED BY <2>1
  <1>2. queue' = [n \in Node |-> Without(q[n], R)]
    OBVIOUS
  <1>3. ASSUME NEW n \in Node
        PROVE  /\ queue'[n] \in Seq(Request)
               /\ Elements(queue'[n]) = Elements(queue[n]) \ R
               /\ \A i, j \in DOMAIN queue'[n] : queue'[n][i] = queue'[n][j] => i = j
    <2>1. \A i, j \in DOMAIN q[n] : q[n][i] = q[n][j] => i = j
      BY <1>1 DEF OneSlot
    <2>2. Elements(q[n]) \ R = Elements(queue[n]) \ R
      BY DEF Elements
    <2>3. queue'[n] = Without(q[n], R)
      BY <1>2
    <2>4. /\ Without(q[n], R) \in Seq(Request)
          /\ Elements(Without(q[n], R)) = Elements(q[n]) \ R
          /\ \A i, j \in DOMAIN Without(q[n], R) :
                Without(q[n], R)[i] = Without(q[n], R)[j] => i = j
      BY <1>1, <2>1, WithoutFacts
    <2> QED BY <2>2, <2>3, <2>4
  <1>4. OneSlot'
    <2> SUFFICES ASSUME NEW n \in Node, NEW m \in Node,
                        NEW i \in DOMAIN queue'[n], NEW j \in DOMAIN queue'[m],
                        queue'[n][i] = queue'[m][j]
                 PROVE  n = m /\ i = j
      BY DEF OneSlot
    <2>1. queue'[n][i] \in Elements(queue'[n]) /\ queue'[m][j] \in Elements(queue'[m])
      BY DEF Elements
    <2>2. queue'[n][i] \in Elements(queue[n]) /\ queue'[n][i] \in Elements(queue[m])
      BY <1>3, <2>1
    <2>3. n = m
      BY <2>2 DEF OneSlot, Elements
    <2> QED BY <1>3, <2>3
  <1>5. in_flight' = [n \in Node |-> Drop(f[n], R)]
    OBVIOUS
  <1>6. ASSUME NEW n \in Node
        PROVE  /\ IsMap(in_flight'[n], Request) /\ Values(in_flight'[n], Time)
               /\ DOMAIN in_flight'[n] = DOMAIN in_flight[n] \ R
    <2>1. CASE f[n] = in_flight[n]
      <3>1. in_flight'[n] = Drop(in_flight[n], R) /\ IsMap(in_flight[n], Request)
            /\ Values(in_flight[n], Time)
        BY <1>5, <2>1
      <3>2. DOMAIN Drop(in_flight[n], R) = DOMAIN in_flight[n] \ R
        BY DEF Drop
      <3>3. IsMap(Drop(in_flight[n], R), Request) /\ Values(Drop(in_flight[n], R), Time)
        BY <3>1, DropType
      <3> QED BY <3>1, <3>2, <3>3
    <2>2. CASE f[n] = Empty /\ DOMAIN in_flight[n] \subseteq R
      <3>1. in_flight'[n] = Drop(Empty, R)
        BY <1>5, <2>2
      <3> QED BY <2>2, <3>1 DEF Drop, Empty, IsMap, Values
    <2> QED BY <2>1, <2>2
  <1>7. in_flight' = [n \in Node |-> in_flight'[n]] /\ queue' \in [Node -> Seq(Request)]
    BY <1>2, <1>3, <1>5
  <1>8. pending' = pending \ R /\ progress' \subseteq Request /\ pending' \subseteq Request
    OBVIOUS
  <1>9. LifecycleTypeOK'
    BY <1>6, <1>7, <1>8
  <1> QED BY <1>3, <1>4, <1>6, <1>8, <1>9 DEF Ended

\* So does Withdraw.
LEMMA WithdrawEnds ==
    ASSUME LifecycleTypeOK, OneSlot, NEW R \in SUBSET Request, NEW q, NEW f,
           q = [n \in Node |-> q[n]], f = [n \in Node |-> f[n]],
           \A n \in Node : \/ q[n] = queue[n] /\ f[n] = in_flight[n]
                           \/ /\ q[n] = <<>> /\ f[n] = Empty
                              /\ Elements(queue[n]) \cup DOMAIN in_flight[n] \subseteq R,
           Withdraw(R, q, f)
    PROVE  Ended(R)
  <1>1. /\ queue' = [n \in Node |-> Without(q[n], R)]
        /\ in_flight' = [n \in Node |-> Drop(f[n], R)]
        /\ pending' = pending \ R /\ progress' \subseteq progress
    BY DEF Withdraw
  <1> QED BY <1>1, FilterEnds

\* A step that leaves the lifecycle tables alone ends nothing.
LEMMA NothingEnds ==
    ASSUME LifecycleTypeOK, OneSlot, UNCHANGED <<queue, pending>>,
           in_flight' = in_flight, progress' \subseteq Request
    PROVE  Ended({})
  BY DEF Ended, LifecycleTypeOK, OneSlot

\* _mark_request_terminal makes R terminal and no other request.
LEMMA MarkTerminalStep ==
    ASSUME RegistryTypeOK, LedgerTypeOK, NEW R \in SUBSET Request, NEW status \in Status,
           MarkTerminal(R, status), now' = now
    PROVE  /\ IsMap(terminal_ids', Request)
           /\ Values(terminal_ids', [status : Status, expires : Time])
           /\ IsMap(outcomes', Request) /\ Values(outcomes', Time)
           /\ \A r \in Request : Terminal(r)' => Terminal(r) \/ r \in R
           /\ \A r \in R : Terminal(r)'
           /\ DOMAIN outcomes' \subseteq DOMAIN outcomes \cup R
  <1>1. now + TerminalSeconds \in Time
    BY Periods DEF RegistryTypeOK, Time
  <1>2. [status |-> status, expires |-> now + TerminalSeconds] \in [status : Status, expires : Time]
    BY <1>1
  <1>3. KeptTerminals \subseteq DOMAIN terminal_ids /\ KeptOutcomes \subseteq DOMAIN outcomes
    BY DEF KeptTerminals, KeptOutcomes
  <1>4. IsMap(terminal_ids', Request) /\ Values(terminal_ids', [status : Status, expires : Time])
    BY <1>2, <1>3 DEF MarkTerminal, LedgerTypeOK, IsMap, Values
  <1>5. IsMap(outcomes', Request) /\ Values(outcomes', Time)
    BY <1>1, <1>3 DEF MarkTerminal, LedgerTypeOK, IsMap, Values
  <1>6. \A r \in Request : Terminal(r)' => Terminal(r) \/ r \in R
    BY DEF MarkTerminal, Terminal, KeptTerminals
  <1>7. DOMAIN outcomes' \subseteq DOMAIN outcomes \cup R
    BY <1>3 DEF MarkTerminal
  <1>8. ASSUME NEW r \in R PROVE Terminal(r)'
    <2>1. /\ r \in DOMAIN terminal_ids'
          /\ terminal_ids'[r] = IF r \in KeptTerminals THEN terminal_ids[r]
                               ELSE [status |-> status, expires |-> now + TerminalSeconds]
      BY DEF MarkTerminal
    <2>2. now + TerminalSeconds > now
      BY Periods DEF RegistryTypeOK, Time
    <2>3. CASE r \in KeptTerminals
      BY <2>1, <2>3 DEF KeptTerminals, Terminal
    <2>4. CASE r \notin KeptTerminals
      BY <2>1, <2>2, <2>4 DEF Terminal
    <2> QED BY <2>3, <2>4
  <1> QED BY <1>4, <1>5, <1>6, <1>7, <1>8

\* A stop instruction for live owners is a well-typed tombstone.
LEMMA TombstonesStep ==
    ASSUME RegistryTypeOK, LedgerTypeOK, NEW S \in SUBSET (Node \X Request),
           \A k \in S : Registered(k[1]), NEW status \in Status, AddTombstones(S, status)
    PROVE  /\ IsMap(tombstones', Node \X Request)
           /\ Values(tombstones', [cred : Nat, status : Status, expires : Time])
           /\ \A k \in S : /\ k \in DOMAIN tombstones'
                           /\ tombstones'[k].cred = known_servers[k[1]].cred
                           /\ tombstones'[k].expires > now
  <1> DEFINE stop == [k \in S |-> [cred |-> known_servers[k[1]].cred, status |-> status,
                                   expires |-> now + TombstoneSeconds]]
  <1>1. now + TombstoneSeconds \in Time /\ now + TombstoneSeconds > now
    BY Periods DEF RegistryTypeOK, Time
  <1>2. \A k \in S : known_servers[k[1]].cred \in Nat
    BY DEF Registered, RegistryTypeOK, Values, ServerRecord
  <1>3. \A k \in S : stop[k] \in [cred : Nat, status : Status, expires : Time]
    BY <1>1, <1>2
  <1>4. KeptTombstones \subseteq DOMAIN tombstones
    BY DEF KeptTombstones
  <1>5. S # {} => tombstones' = [k \in KeptTombstones \cup S |-> IF k \in S THEN stop[k] ELSE tombstones[k]]
    BY DEF AddTombstones
  <1>6. S = {} => tombstones' = tombstones
    BY DEF AddTombstones
  <1>7. \A k \in S : stop[k].cred = known_servers[k[1]].cred /\ stop[k].expires > now
    BY <1>1
  <1> HIDE DEF stop
  <1>8. CASE S = {}
    BY <1>6, <1>8 DEF LedgerTypeOK
  <1>9. CASE S # {}
    BY <1>3, <1>4, <1>5, <1>7, <1>9 DEF LedgerTypeOK, IsMap, Values
  <1> QED BY <1>8, <1>9
--------------------------------------------------------------------------------
(* Steps that only end requests                                            *)

\* OwnerIsTold, of one step.
OwnersTold ==
    \A n \in Node : \A r \in DOMAIN in_flight[n] :
        r \in DOMAIN in_flight'[n] \/ Response(r)
        \/ /\ <<n, r>> \in DOMAIN tombstones'
           /\ tombstones'[<<n, r>>].cred = known_servers[n].cred
           /\ tombstones'[<<n, r>>].expires > now

\* A move of RequestLifecycle, in terms of Stage, Told and Terminal.
Hears(r, answers) == Told(r)' = Told(r) \/ (Told(r) = "nothing" /\ Told(r)' \in answers)
Truth(r) == IF Terminal(r) THEN {"gone"}
            ELSE IF Stage(r) \in {"withdrawn", "answered", "over"} THEN {"unknown"} ELSE {}
NoRecord(r) == Terminal(r)' => Terminal(r)
MoveTo(r, from, to) == Stage(r) \in from /\ Stage(r)' \in to
StageMove(r) ==
    \/ MoveTo(r, {"absent"}, {"pending"}) /\ Hears(r, {}) /\ NoRecord(r)
    \/ /\ MoveTo(r, {"pending", "withdrawn"}, {"answered"}) /\ ~Terminal(r)
       /\ Hears(r, {}) /\ NoRecord(r)
    \/ MoveTo(r, {"answered"}, {"over"}) /\ Hears(r, {"delivered"}) /\ NoRecord(r)
    \/ /\ MoveTo(r, {"pending"}, {"withdrawn", "over"}) /\ Terminal(r)'
       /\ Hears(r, {"gone"})
    \/ MoveTo(r, {"withdrawn"}, {"over"}) /\ Hears(r, Truth(r))
    \/ /\ Stage(r)' = Stage(r)
       /\ Stage(r) = "withdrawn" \/ NoRecord(r)
       /\ Hears(r, Truth(r))
StageStep == \A r \in Request : StageMove(r)

\* What every action is shown to do.
StepOK == IInv' /\ OwnersTold /\ StageStep

\* The requester's side changes only as a reply, or the submit itself, changes it.
ClientMoves ==
    \A r \in Request :
        \/ client'[r] = client[r]
        \/ client[r] = "waiting" /\ client'[r] = "gone"
           /\ (Terminal(r) \/ (r \in pending /\ r \notin pending'))
        \/ client[r] = "waiting" /\ client'[r] = "unknown" /\ ~Terminal(r) /\ r \notin pending
        \/ client[r] = "new" /\ client'[r] = "sent"
        \/ client[r] = "sent" /\ client'[r] = "refused"

\* Ending R records every pending request of R, and records nothing but what was
\* still in some stage of its lifecycle.
Settles(R) ==
    /\ \A r \in Request : Terminal(r)' => Terminal(r) \/ r \in Cancelled(R, queue, in_flight)
    /\ \A r \in (R \cap pending) \ responses : Terminal(r)'
    /\ DOMAIN outcomes' \subseteq DOMAIN outcomes \cup Cancelled(R, queue, in_flight)

\* A step that records nothing.
LEMMA NothingSettled ==
    ASSUME \A r \in Request : Terminal(r)' => Terminal(r), DOMAIN outcomes' \subseteq DOMAIN outcomes
    PROVE  Settles({})
  BY DEF Settles

\* A step that ends the requests R, drops no hold on any other and moves no
\* request keeps every request in one place.
LEMMA EndingRequests ==
    ASSUME IInv, NEW R \in SUBSET Request, Ended(R),
           UNCHANGED <<deadline, responses, work>>,
           Settles(R),
           ClientMoves,
           \A t \in Thread, r \in Request : Held(t, r)' => Held(t, r),
           \A t \in Thread, r \in Request \ R : Held(t, r) => Held(t, r)'
    PROVE  /\ OneSlot' /\ OneHand' /\ OneOwner' /\ CompletedNotTerminal'
           /\ \A r \in Request : RequestOK(r)'
           /\ StageStep
  <1> USE DEF IInv, Consistent
  <1>1. OneSlot' /\ OneHand' /\ OneOwner'
    <2>1. OneSlot' /\ OneHand'
      BY DEF Ended, OneHand
    <2>2. \A n \in Node : DOMAIN in_flight'[n] \subseteq DOMAIN in_flight[n]
      BY DEF Ended
    <2>3. OneOwner'
      BY <2>2 DEF OneOwner
    <2> QED BY <2>1, <2>3
  <1>2. \A r \in Request :
          /\ Queued(queue, r)' <=> Queued(queue, r) /\ r \notin R
          /\ Flying(in_flight, r)' <=> Flying(in_flight, r) /\ r \notin R
          /\ r \in pending' <=> r \in pending /\ r \notin R
    BY DEF Ended, Queued, Flying
  <1>3. \A r \in Request : /\ InHand(r)' => InHand(r)
                           /\ InHand(r) /\ r \notin R => InHand(r)'
    BY DEF InHand
  <1>4. \A r \in Request : HandedOut(r)' <=> HandedOut(r)
    BY DEF HandedOut
  <1>5. ASSUME NEW r \in Request
        PROVE  RequestOK(r)'
    <2>1. \/ client'[r] = client[r]
          \/ client[r] = "waiting" /\ client'[r] \in {"gone", "unknown"}
          \/ client[r] = "new" /\ client'[r] = "sent"
          \/ client[r] = "sent" /\ client'[r] = "refused"
      BY DEF ClientMoves
    <2>2. client'[r] = "delivered" => client[r] = "delivered"
      BY <2>1
    <2>3. client'[r] = "new" => client[r] = "new"
      BY <2>1
    <2>4. RequestOK(r)
      OBVIOUS
    <2>5. client'[r] \in {"waiting", "gone", "unknown"} => client[r] \in {"waiting", "gone", "unknown"}
      BY <2>1
    <2>6. r \in DOMAIN outcomes' => r \in DOMAIN outcomes \/ r \in R
      BY DEF Settles, Cancelled
    <2>7. r \in DOMAIN outcomes' => r \in DOMAIN outcomes \/ r \in pending \/ Home(r)
      BY DEF Settles, Cancelled, Home
    <2> QED BY <1>2, <1>3, <1>4, <2>2, <2>3, <2>4, <2>5, <2>6, <2>7 DEF RequestOK, Home
  <1>6. CompletedNotTerminal'
    <2> SUFFICES ASSUME NEW r \in Request, r \in responses \/ client'[r] = "delivered",
                        Terminal(r)'
                 PROVE  FALSE
      BY DEF CompletedNotTerminal
    <2>1. r \in responses \/ client[r] = "delivered"
      BY DEF ClientMoves
    <2>2. r \in Cancelled(R, queue, in_flight)
      BY <2>1 DEF CompletedNotTerminal, Settles
    <2>3. r \notin responses /\ (r \in pending \/ Queued(queue, r) \/ Flying(in_flight, r))
      BY <2>2 DEF Cancelled
    <2> QED BY <2>1, <2>3 DEF RequestOK, Home
  <1>7. ASSUME NEW r \in Request PROVE StageMove(r)
    <2>1. RequestOK(r) /\ (r \in pending => r \notin responses)
      BY DEF RequestOK
    <2>2. r \in responses' <=> r \in responses
      OBVIOUS
    <2>3. Stage(r)' = Stage(r) \/ (Stage(r) = "pending" /\ Stage(r)' \in {"withdrawn", "over"})
          \/ (Stage(r) = "withdrawn" /\ Stage(r)' = "over")
      BY <1>2, <1>3, <2>2 DEF Stage, Owned
    <2>4. Stage(r)' # Stage(r) \/ Stage(r) = "withdrawn" \/ NoRecord(r)
      <3>1. CASE r \in Cancelled(R, queue, in_flight)
        <4>1. /\ r \in R /\ r \notin responses /\ deadline[r] # 0
              /\ (r \in pending \/ Queued(queue, r) \/ Flying(in_flight, r))
          BY <2>1, <3>1 DEF Cancelled, RequestOK, Home
        <4>2. r \notin pending'
          BY <1>2, <4>1
        <4> QED BY <2>2, <4>1, <4>2 DEF Stage, Owned
      <3>2. CASE r \notin Cancelled(R, queue, in_flight)
        BY <3>2 DEF Settles, NoRecord
      <3> QED BY <3>1, <3>2
    <2>5. Stage(r) = "pending" <=> r \in pending
      BY <2>1 DEF Stage, RequestOK, Home
    <2>6. r \in pending /\ r \notin pending' => Terminal(r)'
      BY <1>2, <2>1 DEF Settles
    <2>7. \/ Told(r)' = Told(r)
          \/ /\ Told(r) = "nothing" /\ Told(r)' = "gone"
             /\ Terminal(r) \/ (r \in pending /\ r \notin pending')
          \/ /\ Told(r) = "nothing" /\ Told(r)' = "unknown"
             /\ ~Terminal(r) /\ r \notin pending /\ deadline[r] > 0
      <3>1. client[r] = "waiting" => deadline[r] > 0
        BY <2>1 DEF RequestOK
      <3> QED BY <3>1 DEF ClientMoves, Told
    <2>8. deadline[r] > 0 /\ r \notin pending => Stage(r) \in {"withdrawn", "answered", "over"}
      <3>1. deadline[r] > 0 => deadline[r] # 0
        BY DEF TypeOK, RequestTypeOK, Time
      <3> QED BY <3>1 DEF Stage
    <2>9. CASE Stage(r) = "pending" /\ Stage(r)' \in {"withdrawn", "over"}
      <3>1. r \in pending /\ r \notin pending'
        <4>1. Stage(r)' # "pending"
          BY <2>9
        <4>2. deadline'[r] # 0 /\ r \notin responses'
          BY <2>1, <2>5, <2>9 DEF RequestOK, TypeOK, RequestTypeOK, Time
        <4> QED BY <2>5, <2>9, <4>1, <4>2 DEF Stage
      <3> QED BY <2>6, <2>7, <2>9, <3>1 DEF StageMove, MoveTo, Hears
    <2>10. CASE Stage(r)' = Stage(r)
      <3>1. r \in pending => r \in pending'
        BY <2>1, <2>2, <2>5, <2>10 DEF Stage
      <3> QED BY <2>4, <2>7, <2>8, <2>10, <3>1 DEF StageMove, Hears, Truth
    <2>11. CASE Stage(r) = "withdrawn" /\ Stage(r)' = "over"
      <3>1. r \notin pending
        BY <2>5, <2>11
      <3> QED BY <2>7, <2>8, <2>11, <3>1 DEF StageMove, MoveTo, Hears, Truth
    <2> QED BY <2>3, <2>9, <2>10, <2>11
  <1> QED BY <1>1, <1>5, <1>6, <1>7 DEF StageStep

\* If further no submit starts or reaches the queue and a registration that ends
\* takes its requests with it, the invariant is kept.
LEMMA EndingStep ==
    ASSUME IInv, NEW R \in SUBSET Request, Ended(R),
           UNCHANGED <<deadline, responses, work>>,
           Settles(R),
           ClientMoves,
           \A t \in Thread, r \in Request : Held(t, r)' => Held(t, r),
           \A t \in Thread, r \in Request \ R : Held(t, r) => Held(t, r)',
           \A t \in Thread : At(t, "enqueue")' => 
              /\ At(t, "enqueue") /\ thread'[t].node = thread[t].node
              /\ thread'[t].req = thread[t].req /\ client'[thread[t].req] # "refused",
           \A n \in DOMAIN known_servers :
              \/ n \in DOMAIN known_servers'
              \/ ServerLockFree /\ Elements(queue[n]) \cup DOMAIN in_flight[n] \subseteq R,
           TypeOK', ShapesOK', SubmitsOnce'
    PROVE  IInv' /\ StageStep
  <1> USE DEF IInv, Consistent
  <1>1. /\ OneSlot' /\ OneHand' /\ OneOwner' /\ CompletedNotTerminal'
        /\ \A r \in Request : RequestOK(r)'
        /\ StageStep
    BY EndingRequests
  <1>2. EnqueueRegistered'
    <2>1. \A t \in Thread : At(t, "enqueue") => thread[t].req \in Request
      BY DEF ShapesOK, ShapeOf, At
    <2>2. \A t \in Thread : At(t, "enqueue")' => client'[thread[t].req] = "sent"
      BY <2>1 DEF EnqueueRegistered, ClientMoves
    <2> QED BY <2>2 DEF EnqueueRegistered, Registered, ServerLockFree
  <1>3. WorkAtRegisteredNodes'
    <2> SUFFICES ASSUME NEW n \in Node, n \notin DOMAIN known_servers'
                 PROVE  queue'[n] = <<>> /\ DOMAIN in_flight'[n] = {}
      BY DEF WorkAtRegisteredNodes, Registered
    <2>1. queue[n] \in Seq(Request) /\ queue'[n] \in Seq(Request)
      BY DEF TypeOK, LifecycleTypeOK
    <2>2. \/ queue[n] = <<>> /\ DOMAIN in_flight[n] = {}
          \/ Elements(queue[n]) \cup DOMAIN in_flight[n] \subseteq R
      BY DEF WorkAtRegisteredNodes, Registered
    <2>3. Elements(queue'[n]) = {} /\ DOMAIN in_flight'[n] = {}
      BY <2>1, <2>2, NoElements DEF Ended
    <2> QED BY <2>1, <2>3, NoElements
  <1> QED BY <1>1, <1>2, <1>3

\* The request a submit is about to queue was sent, and nothing else is known.
LEMMA EnteringSent ==
    ASSUME IInv
    PROVE  \A t \in Thread : At(t, "enqueue") =>
              thread[t].req \in Request /\ client[thread[t].req] = "sent"
  BY DEF IInv, Consistent, ShapesOK, ShapeOf, At, EnqueueRegistered

\* No submit starts: those on their way stay the only ones for their requests.
LEMMA SubmitsKept ==
    ASSUME SubmitsOnce, ClientMoves, deadline' = deadline, RequestTypeOK,
           \A t \in Thread : Submitting(t)' =>
              /\ Submitting(t) /\ thread'[t].req = thread[t].req
              /\ thread[t].req \in Request /\ client'[thread[t].req] # "refused"
    PROVE  SubmitsOnce'
  <1>1. \A t \in Thread : Submitting(t)' => client'[thread[t].req] = "sent"
    BY DEF SubmitsOnce, ClientMoves
  <1> QED BY <1>1 DEF SubmitsOnce

\* A handler's thread goes to x; the others stay where they are.
LEMMA ThreadMoves ==
    ASSUME ThreadTypeOK, ShapesOK, NEW t \in Thread, NEW x \in ThreadRecord, ShapeOf(x),
           thread' = [thread EXCEPT ![t] = x]
    PROVE  /\ ThreadTypeOK' /\ ShapesOK'
           /\ thread'[t] = x
           /\ \A u \in Thread : u # t => thread'[u] = thread[u]
  BY DEF ThreadTypeOK, ShapesOK

\* A thread at rest is well-formed.
LEMMA IdleOK ==
    Idle \in ThreadRecord /\ ShapeOf(Idle) /\ Idle.pc = "idle" /\ Idle.op = "none"
  BY DEF Idle, ThreadRecord, Pc, Operation, Time, ShapeOf

\* Cancelling R ends R, decides only what was still recorded, and tells owners.
LEMMA CancelStep ==
    ASSUME IInv, NEW R \in SUBSET Request, NEW status \in Status, Cancel(R, status),
           now' = now
    PROVE  /\ Ended(R) /\ LedgerTypeOK' /\ OwnersTold
           /\ Settles(R)
  <1> USE DEF IInv, Consistent
  <1>1. Ended(R)
    <2>1. queue = [n \in Node |-> queue[n]] /\ in_flight = [n \in Node |-> in_flight[n]]
      BY DEF TypeOK, LifecycleTypeOK
    <2> QED BY <2>1, WithdrawEnds DEF Cancel, TypeOK
  <1>2. Stopped(R, in_flight) \in SUBSET (Node \X Request) /\ \A k \in Stopped(R, in_flight) : Registered(k[1])
    BY DEF Stopped, WorkAtRegisteredNodes
  <1>3. /\ IsMap(tombstones', Node \X Request)
        /\ Values(tombstones', [cred : Nat, status : Status, expires : Time])
        /\ \A k \in Stopped(R, in_flight) :
              /\ k \in DOMAIN tombstones'
              /\ tombstones'[k].cred = known_servers[k[1]].cred
              /\ tombstones'[k].expires > now
    BY <1>2, TombstonesStep DEF Cancel, TypeOK
  <1>4. Cancelled(R, queue, in_flight) \in SUBSET Request
    BY DEF Cancelled
  <1>5. /\ IsMap(terminal_ids', Request)
        /\ Values(terminal_ids', [status : Status, expires : Time])
        /\ IsMap(outcomes', Request) /\ Values(outcomes', Time)
        /\ Settles(R)
    <2>0. (R \cap pending) \ responses \subseteq Cancelled(R, queue, in_flight)
      BY DEF Cancelled
    <2>1. CASE Cancelled(R, queue, in_flight) = {}
      BY <2>0, <2>1 DEF Cancel, ledger, TypeOK, LedgerTypeOK, Terminal, Settles
    <2>2. CASE Cancelled(R, queue, in_flight) # {}
      <3>1. /\ IsMap(terminal_ids', Request)
            /\ Values(terminal_ids', [status : Status, expires : Time])
            /\ IsMap(outcomes', Request) /\ Values(outcomes', Time)
            /\ \A r \in Request : Terminal(r)' => Terminal(r) \/ r \in Cancelled(R, queue, in_flight)
            /\ \A r \in Cancelled(R, queue, in_flight) : Terminal(r)'
            /\ DOMAIN outcomes' \subseteq DOMAIN outcomes \cup Cancelled(R, queue, in_flight)
        BY <2>2, <1>4, MarkTerminalStep DEF Cancel, TypeOK
      <3> QED BY <2>0, <3>1 DEF Settles
    <2> QED BY <2>1, <2>2
  <1>6. OwnersTold
    <2> SUFFICES ASSUME NEW n \in Node, NEW r \in DOMAIN in_flight[n], r \in R
                 PROVE  <<n, r>> \in Stopped(R, in_flight)
      BY <1>1, <1>3 DEF OwnersTold, Ended
    <2>1. r \notin responses
      BY DEF RequestOK, Home, Flying
    <2> QED BY <2>1 DEF Stopped
  <1> QED BY <1>1, <1>3, <1>5, <1>6 DEF LedgerTypeOK
--------------------------------------------------------------------------------
(* One lemma per action                                                    *)

Holding == {"enqueue", "drop", "claim", "insert"}

\* One handler's step that ends the requests R: its thread goes to x, which holds
\* nothing new and lets go of nothing but R.
LEMMA HandlerStep ==
    ASSUME IInv, NEW R \in SUBSET Request, Ended(R),
           UNCHANGED <<deadline, responses, work>>,
           Settles(R),
           NEW t \in Thread, NEW x \in ThreadRecord, ShapeOf(x),
           thread' = [thread EXCEPT ![t] = x],
           x.pc \in Holding => x.pc # "enqueue" /\ (x.req = None \/ Held(t, x.req)),
           thread[t].pc \in Holding /\ thread[t].req \in Request \ R => x.pc \in Holding /\ x.req = thread[t].req,
           x.op = "submit" /\ x.pc \in {"evict", "admit"} =>
              x.op = thread[t].op /\ x.req = thread[t].req /\ At(t, "evict"),
           \A n \in DOMAIN known_servers :
              \/ n \in DOMAIN known_servers'
              \/ ServerLockFree /\ Elements(queue[n]) \cup DOMAIN in_flight[n] \subseteq R,
           ClientMoves, \A r \in Request : client[r] = "sent" => client'[r] = "sent",
           RegistryTypeOK', LedgerTypeOK', client' \in [Request ->
              {"new", "sent", "refused", "waiting", "delivered", "gone", "unknown"}]
    PROVE  IInv' /\ StageStep
  <1> USE DEF IInv, Consistent
  <1>1. /\ ThreadTypeOK' /\ ShapesOK'
        /\ thread'[t] = x
        /\ \A u \in Thread : u # t => thread'[u] = thread[u]
    BY ThreadMoves DEF TypeOK
  <1>2. TypeOK'
    BY <1>1 DEF TypeOK, RequestTypeOK, Ended
  <1>3. \A u \in Thread, r \in Request : Held(u, r)' => Held(u, r)
    BY <1>1, NoneAssumption DEF Held, Holding
  <1>4. \A u \in Thread, r \in Request \ R : Held(u, r) => Held(u, r)'
    BY <1>1 DEF Held, Holding
  <1>5. \A u \in Thread : At(u, "enqueue")' =>
           /\ At(u, "enqueue") /\ thread'[u].node = thread[u].node
           /\ thread'[u].req = thread[u].req /\ client'[thread[u].req] # "refused"
    BY <1>1, EnteringSent DEF At, Holding
  <1>6. \A u \in Thread : Submitting(u)' => Submitting(u) /\ thread'[u].req = thread[u].req
    BY <1>1 DEF Submitting, At
  <1>7. \A u \in Thread : Submitting(u) => thread[u].req \in Request
    BY DEF Submitting, ShapesOK, ShapeOf
  <1>8. \A u \in Thread : Submitting(u) => client'[thread[u].req] # "refused"
    BY <1>7 DEF SubmitsOnce
  <1>9. SubmitsOnce'
    BY <1>6, <1>7, <1>8, SubmitsKept DEF TypeOK
  <1> QED BY <1>2, <1>1, <1>3, <1>4, <1>5, <1>9, EndingStep

\* Nothing leaves flight, so every owner keeps its entry.
LEMMA StillInFlight ==
    ASSUME \A n \in Node : DOMAIN in_flight[n] \subseteq DOMAIN in_flight'[n]
    PROVE  OwnersTold
  BY DEF OwnersTold

\* Nobody's reply: the requesters know what they knew.
LEMMA ClientsKept ==
    ASSUME TypeOK, client' = client
    PROVE  /\ ClientMoves /\ \A r \in Request : client[r] = "sent" => client'[r] = "sent"
           /\ client' \in [Request ->
              {"new", "sent", "refused", "waiting", "delivered", "gone", "unknown"}]
  BY DEF ClientMoves, TypeOK, RequestTypeOK

\* A handler's locals are well-typed.
LEMMA ThreadType ==
    ASSUME TypeOK, NEW t \in Thread
    PROVE  /\ thread[t] \in ThreadRecord
           /\ thread[t].node \in Node \cup {None} /\ thread[t].req \in Request \cup {None}
  BY DEF TypeOK, ThreadTypeOK, ThreadRecord

\* Tick: only the clock moves, and what was terminal may stop being so.
LEMMA TickStep ==
    ASSUME IInv, Tick
    PROVE  StepOK
  <1> USE DEF IInv, Consistent
  <1>1. UNCHANGED <<registry, lifecycle, deadline, responses, thread, work, client>>
    BY DEF Tick
  <1>2. now' \in Time /\ now \in Time /\ now' = now + 1
    BY DEF Tick, TypeOK, RegistryTypeOK, Time
  <1>3. TypeOK'
    BY <1>1, <1>2 DEF TypeOK, RegistryTypeOK, LifecycleTypeOK, LedgerTypeOK,
       RequestTypeOK, ThreadTypeOK, registry, lifecycle, ledger
  <1>4. Ended({})
    BY <1>1, NothingEnds DEF lifecycle, TypeOK, LifecycleTypeOK
  <1>5. Settles({})
    <2>1. \A r \in Request : Terminal(r)' => Terminal(r)
      BY <1>1, <1>2 DEF Terminal, lifecycle, ledger, TypeOK, LedgerTypeOK, Values, Time
    <2> QED BY <1>1, <2>1, NothingSettled DEF lifecycle, ledger
  <1>6. SubmitsOnce' /\ ShapesOK' /\ ClientMoves
    BY <1>1 DEF SubmitsOnce, Submitting, ShapesOK, ClientMoves
  <1>7. IInv' /\ StageStep
    BY <1>1, <1>3, <1>4, <1>5, <1>6, EnteringSent, EndingStep DEF registry, Held, At
  <1>8. OwnersTold
    BY <1>1, StillInFlight DEF lifecycle
  <1> QED BY <1>7, <1>8 DEF StepOK

\* CancelLookup: the thread takes the request to cancel, and nothing else changes.
LEMMA CancelLookupStep ==
    ASSUME IInv, NEW t \in Thread, NEW r \in Request, CancelLookup(t, r)
    PROVE  StepOK
  <1> USE DEF IInv, Consistent
  <1> DEFINE x == [Idle EXCEPT !.pc = "cancel", !.req = r]
  <1>1. /\ UNCHANGED <<now, registry, lifecycle, deadline, responses, work, client>>
        /\ At(t, "idle") /\ thread' = [thread EXCEPT ![t] = x]
    BY DEF CancelLookup
  <1>2. x \in ThreadRecord /\ ShapeOf(x) /\ x.pc = "cancel"
    BY DEF Idle, ThreadRecord, Pc, Operation, Time, ShapeOf
  <1> HIDE DEF x
  <1>3. Ended({})
    BY <1>1, NothingEnds DEF lifecycle, TypeOK, LifecycleTypeOK
  <1>4. RegistryTypeOK' /\ LedgerTypeOK'
    BY <1>1 DEF TypeOK, RegistryTypeOK, LedgerTypeOK, registry, lifecycle, ledger
  <1>5. Settles({})
    BY <1>1, NothingSettled DEF Terminal, lifecycle, ledger
  <1>6. IInv' /\ StageStep
    BY <1>1, <1>2, <1>3, <1>4, <1>5, ClientsKept, HandlerStep DEF registry, At, Holding
  <1>7. OwnersTold
    BY <1>1, StillInFlight DEF lifecycle
  <1> QED BY <1>6, <1>7 DEF StepOK

\* CancelRequest: the request ends, whatever became of it since the lookup.
LEMMA CancelRequestStep ==
    ASSUME IInv, NEW t \in Thread, NEW status, CancelRequest(t, status)
    PROVE  StepOK
  <1> USE DEF IInv, Consistent
  <1> DEFINE R == {thread[t].req}
  <1>1. /\ UNCHANGED <<now, registry, deadline, responses, work, client>>
        /\ At(t, "cancel") /\ thread' = [thread EXCEPT ![t] = Idle]
        /\ Cancel(R, Sanitized(status))
    BY DEF CancelRequest, Return
  <1>2. R \in SUBSET Request /\ Sanitized(status) \in Status
    BY <1>1 DEF At, ShapesOK, ShapeOf, Sanitized, Status
  <1> HIDE DEF R
  <1>3. /\ Ended(R) /\ LedgerTypeOK' /\ OwnersTold
        /\ Settles(R)
    BY <1>1, <1>2, CancelStep
  <1>4. RegistryTypeOK'
    BY <1>1 DEF TypeOK, RegistryTypeOK, registry
  <1>5. IInv' /\ StageStep
    BY <1>1, <1>2, <1>3, <1>4, ClientsKept, IdleOK, HandlerStep DEF registry, At, Holding
  <1> QED BY <1>3, <1>5 DEF StepOK
\* DropOverdue: the overdue request popped from the queue ends with the drop.
LEMMA DropOverdueStep ==
    ASSUME IInv, NEW t \in Thread, DropOverdue(t)
    PROVE  StepOK
  <1> USE DEF IInv, Consistent
  <1> DEFINE R == {thread[t].req}
             x == [thread[t] EXCEPT !.pc = "pop", !.req = None]
  <1>1. /\ UNCHANGED <<now, registry, deadline, responses, work, client>>
        /\ At(t, "drop") /\ thread' = [thread EXCEPT ![t] = x]
        /\ Cancel(R, "expired")
    BY DEF DropOverdue
  <1>2. R \in SUBSET Request /\ "expired" \in Status
    BY <1>1 DEF At, ShapesOK, ShapeOf, Status
  <1>3. x \in ThreadRecord /\ ShapeOf(x) /\ x.pc = "pop" /\ thread[t].req \in R
    <2>1. /\ x \in ThreadRecord /\ x.pc = "pop" /\ x.req = None
          /\ x.op = thread[t].op /\ x.node = thread[t].node
      BY ThreadType DEF Pc, ThreadRecord
    <2> HIDE DEF x
    <2>2. ShapeOf(x)
      BY <1>1, <2>1 DEF At, ShapesOK, ShapeOf
    <2> QED BY <2>1, <2>2
  <1> HIDE DEF R, x
  <1>4. /\ Ended(R) /\ LedgerTypeOK' /\ OwnersTold
        /\ Settles(R)
    BY <1>1, <1>2, CancelStep
  <1>5. RegistryTypeOK'
    BY <1>1 DEF TypeOK, RegistryTypeOK, registry
  <1>6. IInv' /\ StageStep
    BY <1>1, <1>2, <1>3, <1>4, <1>5, ClientsKept, HandlerStep DEF registry, At, Holding
  <1> QED BY <1>4, <1>6 DEF StepOK

\* GiveUp: the claimed request ends with the poll that claimed it.
LEMMA GiveUpStep ==
    ASSUME IInv, NEW t \in Thread, thread[t].req \in Request, GiveUp(t), ServerLockFree,
           UNCHANGED <<now, credentials, responses, work, client>>
    PROVE  StepOK
  <1> USE DEF IInv, Consistent
  <1> DEFINE R == {thread[t].req}
             status == IF thread[t].node \in RecentlyUnregistered THEN "cancelled" ELSE "expired"
  <1>1. /\ thread' = [thread EXCEPT ![t] = Idle]
        /\ Cancel(R, status)
        /\ UNCHANGED <<known_servers, deadline>>
        /\ unregistered' = Drop(unregistered, DOMAIN unregistered \ RecentlyUnregistered)
    BY DEF GiveUp, Return
  <1>2. R \in SUBSET Request /\ status \in Status /\ thread[t].req \in R
    BY DEF Status
  <1> HIDE DEF R, status
  <1>3. /\ Ended(R) /\ LedgerTypeOK' /\ OwnersTold
        /\ Settles(R)
    BY <1>1, <1>2, CancelStep
  <1>4. RegistryTypeOK'
    BY <1>1, DropType DEF TypeOK, RegistryTypeOK
  <1>5. IInv' /\ StageStep
    BY <1>1, <1>2, <1>3, <1>4, ClientsKept, IdleOK, HandlerStep DEF Holding
  <1> QED BY <1>3, <1>5 DEF StepOK

\* A step that leaves the lifecycle tables, the requesters and what was handed
\* out alone, with its thread going to x and the registry to another.
LEMMA QuietStep ==
    ASSUME IInv, NEW t \in Thread, NEW x \in ThreadRecord, ShapeOf(x),
           UNCHANGED <<now, lifecycle, deadline, responses, work, client>>,
           thread' = [thread EXCEPT ![t] = x],
           x.pc \in Holding => x.pc # "enqueue" /\ (x.req = None \/ Held(t, x.req)),
           thread[t].pc \in Holding /\ thread[t].req \in Request => x.pc \in Holding /\ x.req = thread[t].req,
           x.op = "submit" /\ x.pc \in {"evict", "admit"} =>
              x.op = thread[t].op /\ x.req = thread[t].req /\ At(t, "evict"),
           RegistryTypeOK', DOMAIN known_servers \subseteq DOMAIN known_servers'
    PROVE  StepOK
  <1> USE DEF IInv, Consistent
  <1>1. Ended({})
    BY NothingEnds DEF lifecycle, TypeOK, LifecycleTypeOK
  <1>2. LedgerTypeOK' /\ Settles({})
    BY NothingSettled DEF Terminal, TypeOK, LedgerTypeOK, lifecycle, ledger
  <1>3. IInv' /\ StageStep
    BY <1>1, <1>2, ClientsKept, HandlerStep
  <1>4. OwnersTold
    BY StillInFlight DEF lifecycle
  <1> QED BY <1>3, <1>4 DEF StepOK

\* A field of one registration changes.
LEMMA ServerUpdate ==
    ASSUME TypeOK, NEW n \in DOMAIN known_servers, NEW v,
           v \in ServerRecord,
           known_servers' = [known_servers EXCEPT ![n] = v],
           UNCHANGED <<now, credentials, unregistered>>
    PROVE  RegistryTypeOK' /\ DOMAIN known_servers' = DOMAIN known_servers
  BY DEF TypeOK, RegistryTypeOK, IsMap, Values

\* Claim: the node stops waiting, and a request it cannot get is given up.
LEMMA ClaimStep ==
    ASSUME IInv, NEW t \in Thread, Claim(t)
    PROVE  StepOK
  <1> USE DEF IInv, Consistent
  <1> DEFINE n == thread[t].node
             r == thread[t].req
             s == known_servers[n]
  <1>1. /\ At(t, "claim") /\ ServerLockFree
        /\ UNCHANGED <<now, credentials, responses, work, client>>
    BY DEF Claim
  <1>2. r \in Request \cup {None} /\ n \in Node
    BY <1>1, ThreadType DEF ShapesOK, ShapeOf, At, Pc
  <1>3. Registered(n) => s \in ServerRecord
    BY DEF Registered, TypeOK, RegistryTypeOK, Values
  <1>4. now \in Time
    BY DEF TypeOK, RegistryTypeOK
  <1>5. CASE ~Registered(n) /\ r = None
    <2>1. /\ thread' = [thread EXCEPT ![t] = Idle]
          /\ UNCHANGED <<known_servers, unregistered, lifecycle, deadline>>
      BY <1>5 DEF Claim, Return
    <2>2. RegistryTypeOK'
      BY <1>1, <2>1 DEF TypeOK, RegistryTypeOK
    <2> QED BY <1>1, <1>5, <2>1, <2>2, IdleOK, NoneAssumption, QuietStep DEF Holding
  <1>6. CASE ~Registered(n) /\ r # None
    BY <1>1, <1>2, <1>6, GiveUpStep DEF Claim
  <1>7. CASE Registered(n) /\ r = None
    <2> DEFINE v == [s EXCEPT !.polling_until = 0, !.last_ping = now]
    <2>1. /\ thread' = [thread EXCEPT ![t] = Idle]
          /\ known_servers' = [known_servers EXCEPT ![n] = v]
          /\ UNCHANGED <<unregistered, lifecycle, deadline>>
      BY <1>7 DEF Claim, Return
    <2>2. v \in ServerRecord
      BY <1>3, <1>4, <1>7 DEF Time, ServerRecord
    <2>3. RegistryTypeOK' /\ DOMAIN known_servers' = DOMAIN known_servers
      BY <1>1, <1>7, <2>1, <2>2, ServerUpdate DEF Registered
    <2> QED BY <1>1, <1>7, <2>1, <2>3, IdleOK, NoneAssumption, QuietStep DEF Holding
  <1>8. CASE Registered(n) /\ r # None
    <2> DEFINE v == [s EXCEPT !.polling_until = 0]
    <2>1. /\ known_servers' = [known_servers EXCEPT ![n] = v]
          /\ UNCHANGED <<unregistered, deadline>>
      BY <1>8 DEF Claim
    <2>2. v \in ServerRecord
      BY <1>3, <1>8 DEF Time, ServerRecord
    <2>3. RegistryTypeOK' /\ DOMAIN known_servers' = DOMAIN known_servers
      BY <1>1, <1>8, <2>1, <2>2, ServerUpdate DEF Registered
    <2>4. CASE Overdue(r)
      <3> DEFINE R == {r}
      <3>1. Cancel(R, "expired") /\ thread' = [thread EXCEPT ![t] = Idle]
        BY <1>8, <2>4 DEF Claim, Return
      <3>2. R \in SUBSET Request /\ "expired" \in Status /\ r \in R
        BY <1>2, <1>8 DEF Status
      <3> HIDE DEF R
      <3>3. /\ Ended(R) /\ LedgerTypeOK' /\ OwnersTold
            /\ Settles(R)
        BY <1>1, <3>1, <3>2, CancelStep
      <3>4. IInv' /\ StageStep
        BY <1>1, <2>1, <2>3, <3>1, <3>2, <3>3, ClientsKept, IdleOK, HandlerStep
           DEF Holding
      <3> QED BY <3>3, <3>4 DEF StepOK
    <2>5. CASE ~Overdue(r)
      <3> DEFINE x == [thread[t] EXCEPT !.pc = "insert"]
      <3>1. thread' = [thread EXCEPT ![t] = x] /\ UNCHANGED lifecycle
        BY <1>8, <2>5 DEF Claim, Goto
      <3>2. /\ x \in ThreadRecord /\ ShapeOf(x) /\ x.pc = "insert"
            /\ x.req = r /\ Held(t, r)
        <4>1. /\ x \in ThreadRecord /\ x.pc = "insert" /\ x.req = r
              /\ x.op = thread[t].op /\ x.node = thread[t].node
          BY ThreadType DEF Pc, ThreadRecord
        <4> HIDE DEF x
        <4>2. ShapeOf(x)
          BY <1>1, <1>2, <1>8, <4>1 DEF At, ShapesOK, ShapeOf
        <4> QED BY <1>1, <4>1, <4>2 DEF Held, At
      <3> HIDE DEF x
      <3> QED BY <1>1, <2>1, <2>3, <3>1, <3>2, QuietStep DEF Holding
    <2> QED BY <2>4, <2>5
  <1> QED BY <1>5, <1>6, <1>7, <1>8

\* Heartbeat: the poll starts to wait, or there is no such server.
LEMMA HeartbeatStep ==
    ASSUME IInv, NEW t \in Thread, Heartbeat(t)
    PROVE  StepOK
  <1> USE DEF IInv, Consistent
  <1> DEFINE n == thread[t].node
             s == known_servers[n]
  <1>1. /\ At(t, "heartbeat")
        /\ UNCHANGED <<now, credentials, unregistered, lifecycle, deadline, responses, work, client>>
    BY DEF Heartbeat
  <1>2. now \in Time
    BY DEF TypeOK, RegistryTypeOK
  <1>3. CASE ~Registered(n)
    <2>1. thread' = [thread EXCEPT ![t] = Idle] /\ UNCHANGED known_servers
      BY <1>3 DEF Heartbeat, Return
    <2>2. RegistryTypeOK'
      BY <1>1, <2>1 DEF TypeOK, RegistryTypeOK
    <2> QED BY <1>1, <2>1, <2>2, IdleOK, QuietStep DEF Holding, At
  <1>4. CASE Registered(n)
    <2> DEFINE v == [s EXCEPT !.last_ping = now, !.polling_until = now + PollWaitSeconds]
               x == [thread[t] EXCEPT !.pc = "pop", !.until = Min2(now + PollWaitSeconds, MaxTime)]
    <2>1. /\ known_servers' = [known_servers EXCEPT ![n] = v]
          /\ thread' = [thread EXCEPT ![t] = x]
      BY <1>4 DEF Heartbeat
    <2>2. v \in ServerRecord
      <3>1. s \in ServerRecord
        BY <1>4 DEF Registered, TypeOK, RegistryTypeOK, Values
      <3>2. now + PollWaitSeconds \in Time
        BY <1>2, Periods DEF Time
      <3> QED BY <1>2, <3>1, <3>2 DEF ServerRecord
    <2>3. RegistryTypeOK' /\ DOMAIN known_servers' = DOMAIN known_servers
      BY <1>1, <1>4, <2>1, <2>2, ServerUpdate DEF Registered
    <2>4. Min2(now + PollWaitSeconds, MaxTime) \in Time
      BY <1>2, Periods DEF Min2, Time
    <2>5. x \in ThreadRecord /\ ShapeOf(x) /\ x.pc = "pop"
      <3>1. /\ x \in ThreadRecord /\ x.pc = "pop" /\ x.req = thread[t].req
            /\ x.op = thread[t].op /\ x.node = thread[t].node
        BY <2>4, ThreadType DEF Pc, ThreadRecord
      <3> HIDE DEF x
      <3> QED BY <1>1, <3>1 DEF At, ShapesOK, ShapeOf
    <2> HIDE DEF x, v
    <2> QED BY <1>1, <2>1, <2>3, <2>5, QuietStep DEF Holding, At
  <1> QED BY <1>3, <1>4
\* The requests that end with the registration of n.
AtNode(n) == Elements(queue[n]) \cup (DOMAIN in_flight[n] \ responses)

\* _unregister_server ends what waits or runs at the node, and tells the owners.
LEMMA UnregisteredStep ==
    ASSUME IInv, NEW n \in DOMAIN known_servers, Unregistered(n)
    PROVE  /\ AtNode(n) \in SUBSET Request /\ Ended(AtNode(n))
           /\ RegistryTypeOK' /\ LedgerTypeOK' /\ OwnersTold
           /\ UNCHANGED <<deadline, responses, work, client>>
           /\ Settles(AtNode(n))
           /\ \A m \in DOMAIN known_servers : \/ m \in DOMAIN known_servers'
                                              \/ Elements(queue[m]) \cup DOMAIN in_flight[m] \subseteq AtNode(n)
  <1> USE DEF IInv, Consistent
  <1> DEFINE R == AtNode(n)
             q == [queue EXCEPT ![n] = <<>>]
             f == [in_flight EXCEPT ![n] = Empty]
             S == Stopped(R, f) \cup StopsAt(n)
             C == Cancelled(R, q, f)
  <1>1. /\ known_servers' = Drop(known_servers, {n})
        /\ unregistered' = Put(unregistered, n, now)
        /\ Withdraw(R, q, f)
        /\ AddTombstones(S, "cancelled")
        /\ IF C = {} THEN UNCHANGED ledger ELSE MarkTerminal(C, "cancelled")
        /\ UNCHANGED <<now, credentials, deadline, responses, work, client>>
    BY DEF Unregistered, AtNode
  <1>2. n \in Node /\ now \in Time
    BY DEF TypeOK, RegistryTypeOK, IsMap
  <1>3. queue[n] \in Seq(Request) /\ DOMAIN in_flight[n] \subseteq Request
    BY <1>2 DEF TypeOK, LifecycleTypeOK, IsMap
  <1>4. R \in SUBSET Request /\ Elements(queue[n]) \cup DOMAIN in_flight[n] \subseteq R
    <2>1. \A r \in DOMAIN in_flight[n] : r \notin responses
      BY <1>2, <1>3 DEF RequestOK, Home, Flying
    <2> QED BY <1>3, <2>1, NoElements DEF AtNode
  <1>5. Ended(R)
    <2>1. /\ q = [m \in Node |-> q[m]] /\ f = [m \in Node |-> f[m]]
          /\ q[n] = <<>> /\ f[n] = Empty
          /\ \A m \in Node \ {n} : q[m] = queue[m] /\ f[m] = in_flight[m]
      BY <1>2 DEF TypeOK, LifecycleTypeOK
    <2> HIDE DEF q, f, R
    <2> QED BY <1>1, <1>4, <2>1, WithdrawEnds DEF TypeOK
  <1>6. RegistryTypeOK'
    BY <1>1, <1>2, DropType, PutType DEF TypeOK, RegistryTypeOK
  <1>7. \A m \in Node : DOMAIN f[m] \subseteq DOMAIN in_flight[m]
    BY <1>2 DEF Empty, TypeOK, LifecycleTypeOK
  <1>8. S \in SUBSET (Node \X Request) /\ \A k \in S : Registered(k[1])
    <2>1. Stopped(R, f) \in SUBSET (Node \X Request)
      BY <1>4 DEF Stopped
    <2>2. \A k \in Stopped(R, f) : DOMAIN in_flight[k[1]] # {} /\ k[1] \in Node
      BY <1>7, <2>1 DEF Stopped
    <2>3. StopsAt(n) \in SUBSET (Node \X Request) /\ \A k \in StopsAt(n) : k[1] = n
      BY <1>2, <1>3 DEF StopsAt
    <2> QED BY <2>1, <2>2, <2>3 DEF WorkAtRegisteredNodes, Registered
  <1>9. /\ C \subseteq Cancelled(R, queue, in_flight) /\ C \in SUBSET Request
        /\ (R \cap pending) \ responses \subseteq C
    <2>1. \A m \in Node : Elements(q[m]) \subseteq Elements(queue[m])
      BY <1>2 DEF Elements, TypeOK, LifecycleTypeOK
    <2> HIDE DEF q, f, R
    <2> QED BY <1>4, <1>7, <2>1 DEF Cancelled, Queued, Flying
  <1> HIDE DEF C
  <1>10. "cancelled" \in Status
    BY DEF Status
  <1>11. /\ IsMap(terminal_ids', Request)
         /\ Values(terminal_ids', [status : Status, expires : Time])
         /\ IsMap(outcomes', Request) /\ Values(outcomes', Time)
         /\ \A r \in Request : Terminal(r)' => Terminal(r) \/ r \in C
         /\ \A r \in C : Terminal(r)'
         /\ DOMAIN outcomes' \subseteq DOMAIN outcomes \cup C
    <2>1. CASE C = {}
      BY <1>1, <2>1 DEF ledger, TypeOK, LedgerTypeOK, Terminal
    <2>2. CASE C # {}
      BY <1>1, <1>9, <1>10, <2>2, MarkTerminalStep DEF TypeOK
    <2> QED BY <2>1, <2>2
  <1>12. OwnersTold /\ LedgerTypeOK'
    <2>1. \A m \in Node : \A r \in DOMAIN in_flight[m] : r \in R => <<m, r>> \in S
      <3> TAKE m \in Node
      <3> TAKE r \in DOMAIN in_flight[m]
      <3> HAVE r \in R
      <3>1. r \in Request /\ r \notin responses
        BY <1>4 DEF RequestOK, Home, Flying
      <3>2. CASE m = n
        BY <3>1, <3>2 DEF StopsAt
      <3>3. CASE m # n
        <4>1. f[m] = in_flight[m]
          BY <3>3 DEF TypeOK, LifecycleTypeOK
        <4> HIDE DEF f, R
        <4> QED BY <3>1, <4>1 DEF Stopped
      <3> QED BY <3>2, <3>3
    <2> HIDE DEF S, R
    <2>2. /\ IsMap(tombstones', Node \X Request)
          /\ Values(tombstones', [cred : Nat, status : Status, expires : Time])
          /\ \A k \in S : /\ k \in DOMAIN tombstones'
                          /\ tombstones'[k].cred = known_servers[k[1]].cred
                          /\ tombstones'[k].expires > now
      BY <1>1, <1>8, <1>10, TombstonesStep DEF TypeOK
    <2>3. OwnersTold
      BY <1>5, <2>1, <2>2 DEF OwnersTold, Ended
    <2> QED BY <1>11, <2>2, <2>3 DEF LedgerTypeOK
  <1>13. \A m \in DOMAIN known_servers : \/ m \in DOMAIN known_servers'
                                         \/ Elements(queue[m]) \cup DOMAIN in_flight[m] \subseteq R
    BY <1>1, <1>4 DEF Drop
  <1>14. Settles(R)
    <2> HIDE DEF R
    <2> QED BY <1>9, <1>11 DEF Settles
  <1> QED BY <1>1, <1>4, <1>5, <1>6, <1>12, <1>13, <1>14

\* Unregister: the node's own request takes its work with it.
LEMMA UnregisterStep ==
    ASSUME IInv, NEW n \in Node, Unregister(n)
    PROVE  StepOK
  <1> USE DEF IInv, Consistent
  <1>1. n \in DOMAIN known_servers /\ ServerLockFree /\ Unregistered(n) /\ UNCHANGED thread
    BY DEF Unregister, Registered
  <1>2. /\ AtNode(n) \in SUBSET Request /\ Ended(AtNode(n))
        /\ RegistryTypeOK' /\ LedgerTypeOK' /\ OwnersTold
        /\ UNCHANGED <<deadline, responses, work, client>>
        /\ Settles(AtNode(n))
        /\ \A m \in DOMAIN known_servers : \/ m \in DOMAIN known_servers'
                                           \/ Elements(queue[m]) \cup DOMAIN in_flight[m] \subseteq AtNode(n)
    BY <1>1, UnregisteredStep
  <1>3. TypeOK'
    BY <1>1, <1>2 DEF TypeOK, RequestTypeOK, ThreadTypeOK, Ended
  <1>4. SubmitsOnce' /\ ShapesOK' /\ ClientMoves
    BY <1>1, <1>2 DEF SubmitsOnce, Submitting, ShapesOK, ClientMoves
  <1>5. IInv' /\ StageStep
    BY <1>1, <1>2, <1>3, <1>4, EnteringSent, EndingStep DEF Held, At
  <1> QED BY <1>2, <1>5 DEF StepOK

\* Register: a registration is renewed or made; no table of requests changes.
LEMMA RegisterStep ==
    ASSUME IInv, NEW n \in Node, Register(n)
    PROVE  StepOK
  <1> USE DEF IInv, Consistent
  <1>1. UNCHANGED <<now, unregistered, lifecycle, deadline, responses, thread, work, client>>
    BY DEF Register
  <1>2. now \in Time /\ credentials \in Nat
    BY DEF TypeOK, RegistryTypeOK
  <1>3. RegistryTypeOK' /\ DOMAIN known_servers \subseteq DOMAIN known_servers'
    <2>1. CASE Registered(n)
      <3> DEFINE v == [known_servers[n] EXCEPT !.last_ping = now]
      <3>1. known_servers' = [known_servers EXCEPT ![n] = v] /\ credentials' = credentials
        BY <2>1 DEF Register
      <3>2. known_servers[n] \in ServerRecord
        BY <2>1 DEF Registered, TypeOK, RegistryTypeOK, Values
      <3>3. v \in ServerRecord
        BY <1>2, <3>2 DEF ServerRecord
      <3> QED BY <1>1, <2>1, <3>1, <3>3, ServerUpdate DEF Registered
    <2>2. CASE ~Registered(n)
      <3> DEFINE v == [cred |-> credentials + 1, last_ping |-> now, polling_until |-> 0]
      <3>1. known_servers' = Put(known_servers, n, v) /\ credentials' = credentials + 1
        BY <2>2 DEF Register
      <3>2. v \in ServerRecord
        BY <1>2 DEF Time, ServerRecord
      <3> HIDE DEF v
      <3>3. /\ IsMap(known_servers', Node)
            /\ Values(known_servers', ServerRecord)
        BY <3>1, <3>2, PutType DEF TypeOK, RegistryTypeOK
      <3>4. DOMAIN known_servers \subseteq DOMAIN known_servers'
        BY <3>1 DEF Put
      <3> QED BY <1>1, <1>2, <3>1, <3>3, <3>4 DEF TypeOK, RegistryTypeOK
    <2> QED BY <2>1, <2>2
  <1>4. TypeOK'
    BY <1>1, <1>3 DEF TypeOK, LifecycleTypeOK, LedgerTypeOK, RequestTypeOK,
                      ThreadTypeOK, lifecycle, ledger
  <1>5. Ended({})
    BY <1>1, NothingEnds DEF lifecycle, TypeOK, LifecycleTypeOK
  <1>6. Settles({})
    BY <1>1, NothingSettled DEF Terminal, lifecycle, ledger
  <1>7. SubmitsOnce' /\ ShapesOK' /\ ClientMoves
    BY <1>1 DEF SubmitsOnce, Submitting, ShapesOK, ClientMoves
  <1>8. IInv' /\ StageStep
    BY <1>1, <1>3, <1>4, <1>5, <1>6, <1>7, EnteringSent, EndingStep DEF Held, At
  <1>9. OwnersTold
    BY <1>1, StillInFlight DEF lifecycle
  <1> QED BY <1>8, <1>9 DEF StepOK

\* Evict: a stale server goes with its work, or it is no longer stale.
LEMMA EvictStep ==
    ASSUME IInv, NEW t \in Thread, Evict(t)
    PROVE  StepOK
  <1> USE DEF IInv, Consistent
  <1>1. PICK k \in thread[t].stale :
          LET rest == thread[t].stale \ {k} IN
          /\ thread' = [thread EXCEPT
               ![t].stale = rest,
               ![t].pc = IF rest = {} THEN Body(thread[t].op) ELSE "evict",
               ![t].cutoff = IF rest = {} THEN 0 ELSE thread[t].cutoff]
          /\ IF StillStale(k, thread[t].cutoff) THEN Unregistered(k[1])
             ELSE UNCHANGED <<now, registry, lifecycle, deadline, responses, work, client>>
    BY DEF Evict
  <1> DEFINE rest == thread[t].stale \ {k}
             x == [thread[t] EXCEPT !.stale = rest,
                     !.pc = IF rest = {} THEN Body(thread[t].op) ELSE "evict",
                     !.cutoff = IF rest = {} THEN 0 ELSE thread[t].cutoff]
  <1>2. At(t, "evict") /\ ServerLockFree
    BY DEF Evict
  <1>3. thread' = [thread EXCEPT ![t] = x]
    BY <1>1
  <1>4. thread[t].op \in {"submit", "poll", "control"}
    BY <1>2 DEF At, ShapesOK, ShapeOf
  <1>5. Body(thread[t].op) \in {"admit", "heartbeat", "control"}
    BY <1>4 DEF Body
  <1>6. /\ x \in ThreadRecord
        /\ x.pc = (IF rest = {} THEN Body(thread[t].op) ELSE "evict")
        /\ x.op = thread[t].op /\ x.node = thread[t].node /\ x.req = thread[t].req
    <2>1. rest \in SUBSET (Node \X Nat) /\ 0 \in Time
      BY ThreadType DEF ThreadRecord, Time
    <2> HIDE DEF rest
    <2> QED BY <1>5, <2>1, ThreadType DEF ThreadRecord, Pc
  <1> HIDE DEF x
  <1>7. ShapeOf(x)
    BY <1>2, <1>4, <1>6 DEF Body, At, ShapesOK, ShapeOf
  <1>8. x.pc \notin Holding /\ thread[t].pc \notin Holding
    BY <1>2, <1>5, <1>6 DEF Holding, At
  <1>9. CASE StillStale(k, thread[t].cutoff)
    <2>1. k[1] \in DOMAIN known_servers /\ Unregistered(k[1])
      BY <1>1, <1>9 DEF StillStale, Registered
    <2> DEFINE n == k[1]
    <2>2. /\ AtNode(n) \in SUBSET Request /\ Ended(AtNode(n))
          /\ RegistryTypeOK' /\ LedgerTypeOK' /\ OwnersTold
          /\ UNCHANGED <<deadline, responses, work, client>>
          /\ Settles(AtNode(n))
          /\ \A m \in DOMAIN known_servers : \/ m \in DOMAIN known_servers'
                                             \/ Elements(queue[m]) \cup DOMAIN in_flight[m] \subseteq AtNode(n)
      BY <2>1, UnregisteredStep
    <2>3. IInv' /\ StageStep
      BY <1>2, <1>3, <1>6, <1>7, <1>8, <2>2, ClientsKept, HandlerStep
    <2> QED BY <2>2, <2>3 DEF StepOK
  <1>10. CASE ~StillStale(k, thread[t].cutoff)
    <2>1. UNCHANGED <<now, registry, lifecycle, deadline, responses, work, client>>
      BY <1>1, <1>10
    <2>2. RegistryTypeOK'
      BY <2>1 DEF TypeOK, RegistryTypeOK, registry
    <2> QED BY <1>2, <1>3, <1>6, <1>7, <1>8, <2>1, <2>2, QuietStep DEF registry
  <1> QED BY <1>9, <1>10
\* A call starts by expiring what is overdue, and its thread goes to its body or
\* to the eviction of stale servers.
LEMMA CallFacts ==
    ASSUME IInv, NEW t \in Thread, NEW op \in {"submit", "poll", "control"}, NEW n \in Node,
           NEW r \in Request \cup {None}, NEW cred \in Nat,
           IF op = "poll" THEN r = None ELSE r \in Request,
           Call(t, op, n, r, cred)
    PROVE  /\ At(t, "idle") /\ UNCHANGED <<now, registry, deadline, responses, work>>
           /\ LedgerTypeOK' /\ OwnersTold
           /\ \E R \in SUBSET Request :
                /\ Ended(R)
                /\ Settles(R)
           /\ \E x \in ThreadRecord :
                /\ thread' = [thread EXCEPT ![t] = x]
                /\ x.op = op /\ x.node = n /\ x.req = r /\ x.pc \in {Body(op), "evict"}
                /\ ShapeOf(x) /\ x.pc \notin Holding
  <1> USE DEF IInv, Consistent
  <1> DEFINE R == OverduePending \cup OverdueInFlight
             S == Stopped(R, in_flight)
             C == Cancelled(R, queue, in_flight)
             stale == {<<m, known_servers[m].cred>> : m \in {s \in DOMAIN known_servers : Quiet(s, now)}}
             x == [Idle EXCEPT !.pc = IF stale = {} THEN Body(op) ELSE "evict",
                     !.op = op, !.node = n, !.req = r, !.cred = cred, !.stale = stale,
                     !.cutoff = IF stale = {} THEN 0 ELSE now]
  <1>1. /\ At(t, "idle") /\ UNCHANGED <<now, registry, deadline, responses, work>>
        /\ Withdraw(R, queue, in_flight) /\ MarkTerminal(C, "expired")
        /\ IF S = {} THEN tombstones' = Drop(tombstones, DOMAIN tombstones \ KeptTombstones)
           ELSE AddTombstones(S, "expired")
        /\ thread' = [thread EXCEPT ![t] = x]
    BY DEF Call
  <1>2. Body(op) \in {"admit", "heartbeat", "control"}
    BY DEF Body
  <1>3. stale \in SUBSET (Node \X Nat) /\ now \in Time
    BY DEF TypeOK, RegistryTypeOK, IsMap, Values, ServerRecord
  <1> HIDE DEF stale
  <1>4. /\ x \in ThreadRecord /\ x.op = op /\ x.node = n /\ x.req = r
        /\ x.pc = (IF stale = {} THEN Body(op) ELSE "evict")
    BY <1>2, <1>3 DEF Idle, ThreadRecord, Pc, Operation, Time
  <1> HIDE DEF x
  <1>5. ShapeOf(x) /\ x.pc \notin Holding /\ x.pc \in {Body(op), "evict"}
    BY <1>4 DEF ShapeOf, Body, Holding
  <1>6. R \in SUBSET Request
    BY DEF OverduePending, OverdueInFlight, TypeOK, LifecycleTypeOK
  <1> HIDE DEF R
  <1>7. Ended(R)
    <2>1. queue = [m \in Node |-> queue[m]] /\ in_flight = [m \in Node |-> in_flight[m]]
      BY DEF TypeOK, LifecycleTypeOK
    <2> QED BY <1>1, <1>6, <2>1, WithdrawEnds DEF TypeOK
  <1>8. "expired" \in Status
    BY DEF Status
  <1>9. C \in SUBSET Request /\ (R \cap pending) \ responses \subseteq C
    BY <1>6 DEF Cancelled
  <1> HIDE DEF C
  <1>10. /\ IsMap(terminal_ids', Request)
         /\ Values(terminal_ids', [status : Status, expires : Time])
         /\ IsMap(outcomes', Request) /\ Values(outcomes', Time)
         /\ \A q \in Request : Terminal(q)' => Terminal(q) \/ q \in C
         /\ \A q \in C : Terminal(q)'
         /\ DOMAIN outcomes' \subseteq DOMAIN outcomes \cup C
    BY <1>1, <1>8, <1>9, MarkTerminalStep DEF TypeOK
  <1>11. S \in SUBSET (Node \X Request) /\ \A k \in S : Registered(k[1])
    BY <1>6 DEF Stopped, WorkAtRegisteredNodes
  <1>12. \A m \in Node : \A q \in DOMAIN in_flight[m] : q \in R => <<m, q>> \in S
    <2> TAKE m \in Node
    <2> TAKE q \in DOMAIN in_flight[m]
    <2> HAVE q \in R
    <2>1. q \notin responses
      BY <1>6 DEF RequestOK, Home, Flying
    <2> QED BY <2>1 DEF Stopped
  <1> HIDE DEF S
  <1>13. /\ IsMap(tombstones', Node \X Request)
         /\ Values(tombstones', [cred : Nat, status : Status, expires : Time])
         /\ OwnersTold
    <2>1. CASE S = {}
      <3>1. OwnersTold
        BY <1>7, <1>12, <2>1 DEF OwnersTold, Ended
      <3> QED BY <1>1, <2>1, <3>1, DropType DEF TypeOK, LedgerTypeOK
    <2>2. CASE S # {}
      <3>1. /\ IsMap(tombstones', Node \X Request)
            /\ Values(tombstones', [cred : Nat, status : Status, expires : Time])
            /\ \A k \in S : /\ k \in DOMAIN tombstones'
                            /\ tombstones'[k].cred = known_servers[k[1]].cred
                            /\ tombstones'[k].expires > now
        BY <1>1, <1>8, <1>11, <2>2, TombstonesStep DEF TypeOK
      <3> QED BY <1>7, <1>12, <3>1 DEF OwnersTold, Ended
    <2> QED BY <2>1, <2>2
  <1>14. LedgerTypeOK'
    BY <1>10, <1>13 DEF LedgerTypeOK
  <1>15. Settles(R)
    BY <1>9, <1>10 DEF Settles, C
  <1> QED BY <1>1, <1>4, <1>5, <1>6, <1>7, <1>13, <1>14, <1>15

\* A poll or control call arrives.
LEMMA CallStep ==
    ASSUME IInv, NEW t \in Thread, NEW op \in {"poll", "control"}, NEW n \in Node,
           NEW r \in Request \cup {None}, NEW cred \in Nat,
           IF op = "poll" THEN r = None ELSE r \in Request,
           Call(t, op, n, r, cred), UNCHANGED client
    PROVE  StepOK
  <1> USE DEF IInv, Consistent
  <1>1. /\ At(t, "idle") /\ UNCHANGED <<now, registry, deadline, responses, work>>
        /\ LedgerTypeOK' /\ OwnersTold
        /\ \E R \in SUBSET Request :
             /\ Ended(R)
             /\ Settles(R)
        /\ \E x \in ThreadRecord :
             /\ thread' = [thread EXCEPT ![t] = x]
             /\ x.op = op /\ x.node = n /\ x.req = r /\ x.pc \in {Body(op), "evict"}
             /\ ShapeOf(x) /\ x.pc \notin Holding
    BY CallFacts
  <1>2. PICK R \in SUBSET Request :
          /\ Ended(R)
          /\ Settles(R)
    BY <1>1
  <1>3. PICK x \in ThreadRecord :
          /\ thread' = [thread EXCEPT ![t] = x] /\ x.op = op /\ ShapeOf(x) /\ x.pc \notin Holding
    BY <1>1
  <1>4. RegistryTypeOK'
    BY <1>1 DEF TypeOK, RegistryTypeOK, registry
  <1>5. IInv' /\ StageStep
    BY <1>1, <1>2, <1>3, <1>4, ClientsKept, HandlerStep DEF registry, At, Holding
  <1> QED BY <1>1, <1>5 DEF StepOK

\* SubmitCall: a submit of a new request is on its way.
LEMMA SubmitCallStep ==
    ASSUME IInv, NEW t \in Thread, NEW n \in Node, NEW r \in Request, SubmitCall(t, n, r)
    PROVE  StepOK
  <1> USE DEF IInv, Consistent
  <1>1. /\ client[r] = "new" /\ Call(t, "submit", n, r, 0)
        /\ client' = [client EXCEPT ![r] = "sent"]
    BY DEF SubmitCall
  <1>2. /\ At(t, "idle") /\ UNCHANGED <<now, registry, deadline, responses, work>>
        /\ LedgerTypeOK' /\ OwnersTold
        /\ \E R \in SUBSET Request :
             /\ Ended(R)
             /\ Settles(R)
        /\ \E x \in ThreadRecord :
             /\ thread' = [thread EXCEPT ![t] = x]
             /\ x.op = "submit" /\ x.node = n /\ x.req = r /\ x.pc \in {Body("submit"), "evict"}
             /\ ShapeOf(x) /\ x.pc \notin Holding
    BY <1>1, CallFacts
  <1>3. PICK R \in SUBSET Request :
          /\ Ended(R)
          /\ Settles(R)
    BY <1>2
  <1>4. PICK x \in ThreadRecord :
          /\ thread' = [thread EXCEPT ![t] = x]
          /\ x.op = "submit" /\ x.req = r /\ ShapeOf(x) /\ x.pc \notin Holding
    BY <1>2
  <1>5. /\ ThreadTypeOK' /\ ShapesOK' /\ thread'[t] = x
        /\ \A u \in Thread : u # t => thread'[u] = thread[u]
    BY <1>4, ThreadMoves DEF TypeOK
  <1>6. client \in [Request -> {"new", "sent", "refused", "waiting", "delivered", "gone", "unknown"}]
    BY DEF TypeOK, RequestTypeOK
  <1>7. ClientMoves /\ client'[r] = "sent" /\ \A q \in Request : q # r => client'[q] = client[q]
    BY <1>1, <1>6 DEF ClientMoves
  <1>8. RegistryTypeOK' /\ RequestTypeOK'
    BY <1>1, <1>2, <1>6 DEF TypeOK, RegistryTypeOK, RequestTypeOK, registry
  <1>9. TypeOK'
    BY <1>2, <1>3, <1>5, <1>8 DEF TypeOK, Ended
  <1>10. \A u \in Thread : Submitting(u) => thread[u].req \in Request /\ thread[u].req # r
    BY <1>1 DEF Submitting, ShapesOK, ShapeOf, SubmitsOnce
  <1>11. deadline[r] = 0
    BY <1>1 DEF RequestOK
  <1>12. SubmitsOnce'
    BY <1>2, <1>4, <1>5, <1>7, <1>10, <1>11 DEF SubmitsOnce, Submitting
  <1>13. \A u \in Thread, q \in Request : Held(u, q)' <=> Held(u, q)
    BY <1>2, <1>4, <1>5 DEF Held, Holding, At
  <1>14. \A u \in Thread : At(u, "enqueue")' =>
            /\ At(u, "enqueue") /\ thread'[u].node = thread[u].node
            /\ thread'[u].req = thread[u].req /\ client'[thread[u].req] # "refused"
    BY <1>4, <1>5, <1>7, EnteringSent DEF At, Holding
  <1>15. IInv' /\ StageStep
    BY <1>2, <1>3, <1>5, <1>7, <1>9, <1>12, <1>13, <1>14, EndingStep DEF registry
  <1> QED BY <1>2, <1>15 DEF StepOK

\* Progress: only the latest progress of a live owner changes.
LEMMA ProgressStep ==
    ASSUME IInv, NEW n, NEW r, NEW cred, Progress(n, r, cred)
    PROVE  StepOK
  <1> USE DEF IInv, Consistent
  <1>1. /\ r \in Request /\ progress' = progress \cup {r}
        /\ UNCHANGED <<now, registry, queue, in_flight, pending, ledger, tombstones,
                       deadline, responses, thread, work, client>>
    BY DEF Progress, TypeOK, RequestTypeOK
  <1>2. Ended({})
    BY <1>1, NothingEnds DEF TypeOK, LifecycleTypeOK
  <1>3. TypeOK'
    BY <1>1, <1>2 DEF TypeOK, RegistryTypeOK, LedgerTypeOK, RequestTypeOK, ThreadTypeOK,
                      Ended, registry, ledger
  <1>4. Settles({})
    BY <1>1, NothingSettled DEF Terminal, ledger
  <1>5. SubmitsOnce' /\ ShapesOK' /\ ClientMoves
    BY <1>1 DEF SubmitsOnce, Submitting, ShapesOK, ClientMoves
  <1>6. IInv' /\ StageStep
    BY <1>1, <1>2, <1>3, <1>4, <1>5, EnteringSent, EndingStep DEF registry, Held, At
  <1>7. OwnersTold
    BY <1>1, StillInFlight
  <1> QED BY <1>6, <1>7 DEF StepOK
\* A step outside the handlers' threads that ends the requests R.
LEMMA TableStep ==
    ASSUME IInv, NEW R \in SUBSET Request, Ended(R),
           UNCHANGED <<deadline, responses, work, thread, known_servers>>,
           Settles(R),
           ClientMoves, \A r \in Request : client[r] = "sent" => client'[r] = "sent",
           RegistryTypeOK', LedgerTypeOK', client' \in [Request ->
              {"new", "sent", "refused", "waiting", "delivered", "gone", "unknown"}]
    PROVE  IInv' /\ StageStep
  <1> USE DEF IInv, Consistent
  <1>1. TypeOK'
    BY DEF TypeOK, RequestTypeOK, ThreadTypeOK, Ended
  <1>2. ShapesOK' /\ \A u \in Thread : Submitting(u) => thread[u].req \in Request
    BY DEF Submitting, ShapesOK, ShapeOf
  <1>3. SubmitsOnce'
    BY <1>2 DEF SubmitsOnce, Submitting
  <1> QED BY <1>1, <1>2, <1>3, EnteringSent, EndingStep DEF Held, At

\* _get_terminal_request makes nothing terminal.
LEMMA TerminalReadStep ==
    ASSUME LedgerTypeOK, NEW r, TerminalRead(r), now' = now
    PROVE  /\ IsMap(terminal_ids', Request)
           /\ Values(terminal_ids', [status : Status, expires : Time])
           /\ \A q \in Request : Terminal(q)' => Terminal(q)
  <1>1. /\ IsMap(terminal_ids', Request)
        /\ Values(terminal_ids', [status : Status, expires : Time])
    BY DropType DEF TerminalRead, LedgerTypeOK
  <1>2. \A q \in Request : Terminal(q)' => Terminal(q)
    BY DEF TerminalRead, Terminal, Drop
  <1> QED BY <1>1, <1>2

\* A reply to a waiting requester.
LEMMA AnswerStep ==
    ASSUME TypeOK, NEW r \in Request, NEW a \in {"gone", "unknown"},
           client' = [client EXCEPT ![r] = a] \/ client' = client,
           client[r] = "waiting" \/ client' = client,
           \/ a = "gone" /\ (Terminal(r) \/ (r \in pending /\ r \notin pending'))
           \/ a = "unknown" /\ ~Terminal(r) /\ r \notin pending
    PROVE  /\ ClientMoves /\ \A q \in Request : client[q] = "sent" => client'[q] = "sent"
           /\ client' \in [Request ->
              {"new", "sent", "refused", "waiting", "delivered", "gone", "unknown"}]
  BY DEF ClientMoves, TypeOK, RequestTypeOK

\* Control: a lease is renewed, an overdue request ended, or an answer given.
LEMMA ControlStep ==
    ASSUME IInv, NEW t \in Thread, NEW acknowledge, Control(t, acknowledge)
    PROVE  StepOK
  <1> USE DEF IInv, Consistent
  <1> DEFINE n == thread[t].node
             r == thread[t].req
             answer == ControlAnswer(n, r, thread[t].cred)
  <1>1. /\ At(t, "control") /\ thread' = [thread EXCEPT ![t] = Idle]
        /\ UNCHANGED <<now, registry, deadline, responses, work, client>>
    BY DEF Control, Return
  <1>2. n \in Node /\ r \in Request
    BY <1>1 DEF At, ShapesOK, ShapeOf
  <1>3. RegistryTypeOK'
    BY <1>1 DEF TypeOK, RegistryTypeOK, registry
  <1>4. CASE answer = "active" /\
             /\ in_flight' = [in_flight EXCEPT ![n][r] = Min2(now + InFlightSeconds, deadline[r])]
             /\ UNCHANGED <<queue, pending, progress, ledger, tombstones>>
    <2>1. r \in DOMAIN in_flight[n]
      <3>1. <<n, r>> \in KeptTombstones => tombstones[<<n, r>>].status \in Status
        BY DEF KeptTombstones, TypeOK, LedgerTypeOK, Values
      <3>2. <<n, r>> \in KeptTombstones => tombstones[<<n, r>>].status # "active"
        BY <3>1 DEF Status
      <3> QED BY <1>4, <3>2 DEF ControlAnswer
    <2>2. Min2(now + InFlightSeconds, deadline[r]) \in Time
      BY <1>2, Periods DEF Min2, TypeOK, RegistryTypeOK, RequestTypeOK, Time
    <2>3. /\ in_flight' = [m \in Node |-> in_flight'[m]]
          /\ \A m \in Node : /\ IsMap(in_flight'[m], Request) /\ Values(in_flight'[m], Time)
                             /\ DOMAIN in_flight'[m] = DOMAIN in_flight[m]
      BY <1>2, <1>4, <2>1, <2>2 DEF TypeOK, LifecycleTypeOK, IsMap, Values
    <2>4. LifecycleTypeOK' /\ OneSlot'
      <3>1. UNCHANGED <<queue, pending, progress>>
        BY <1>4
      <3> QED BY <2>3, <3>1 DEF TypeOK, LifecycleTypeOK, OneSlot
    <2>5. Ended({})
      BY <1>4, <2>3, <2>4 DEF Ended
    <2>6. LedgerTypeOK' /\ Settles({})
      BY <1>1, <1>4, NothingSettled DEF TypeOK, LedgerTypeOK, Terminal, ledger
    <2>7. IInv' /\ StageStep
      BY <1>1, <1>3, <2>5, <2>6, ClientsKept, IdleOK, HandlerStep DEF registry, At, Holding
    <2> QED BY <2>3, <2>7, StillInFlight DEF StepOK
  <1>5. CASE answer = "overdue" /\ Cancel({r}, "expired")
    <2> DEFINE R == {r}
    <2>1. R \in SUBSET Request /\ "expired" \in Status /\ Cancel(R, "expired")
      BY <1>2, <1>5 DEF Status
    <2> HIDE DEF R
    <2>2. /\ Ended(R) /\ LedgerTypeOK' /\ OwnersTold
          /\ Settles(R)
      BY <1>1, <2>1, CancelStep
    <2>3. IInv' /\ StageStep
      BY <1>1, <1>3, <2>1, <2>2, ClientsKept, IdleOK, HandlerStep DEF registry, At, Holding
    <2> QED BY <2>2, <2>3 DEF StepOK
  <1>6. CASE /\ tombstones' = IF acknowledge THEN Drop(tombstones, {<<n, r>>}) ELSE tombstones
             /\ UNCHANGED <<queue, in_flight, pending, progress, ledger>>
    <2>1. Ended({})
      BY <1>6, NothingEnds DEF TypeOK, LifecycleTypeOK
    <2>2. LedgerTypeOK' /\ Settles({})
      BY <1>1, <1>6, DropType, NothingSettled DEF TypeOK, LedgerTypeOK, Terminal, ledger
    <2>3. IInv' /\ StageStep
      BY <1>1, <1>3, <2>1, <2>2, ClientsKept, IdleOK, HandlerStep DEF registry, At, Holding
    <2> QED BY <1>6, <2>3, StillInFlight DEF StepOK
  <1>7. CASE UNCHANGED lifecycle
    BY <1>1, <1>3, <1>7, IdleOK, QuietStep DEF registry, At, Holding
  <1> QED BY <1>4, <1>5, <1>6, <1>7 DEF Control

\* Settle: the requester hears that its request is over, pending or unknown.
LEMMA SettleStep ==
    ASSUME IInv, NEW t \in Thread, Settle(t)
    PROVE  StepOK
  <1> USE DEF IInv, Consistent
  <1> DEFINE r == thread[t].req
  <1>1. /\ At(t, "settle") /\ thread' = [thread EXCEPT ![t] = Idle]
        /\ UNCHANGED <<now, registry, deadline, responses, work>>
    BY DEF Settle, Return
  <1>2. r \in Request
    BY <1>1 DEF At, ShapesOK, ShapeOf
  <1>3. RegistryTypeOK'
    BY <1>1 DEF TypeOK, RegistryTypeOK, registry
  <1>4. \/ /\ Lapsed(r) /\ Cancel({r}, "expired") /\ Answer(r, "gone")
        \/ /\ TerminalRead(r)
           /\ \/ Answer(r, "gone") /\ Terminal(r)
              \/ Answer(r, "unknown") /\ ~Terminal(r) /\ r \notin pending
              \/ client' = client
           /\ progress' \subseteq progress
           /\ UNCHANGED <<queue, in_flight, pending, outcomes, tombstones>>
    BY DEF Settle
  <1>5. /\ ClientMoves /\ \A q \in Request : client[q] = "sent" => client'[q] = "sent"
        /\ client' \in [Request ->
              {"new", "sent", "refused", "waiting", "delivered", "gone", "unknown"}]
    <2>1. CASE Answer(r, "gone") /\ (Terminal(r) \/ (r \in pending /\ r \notin pending'))
      BY <1>2, <2>1, AnswerStep DEF Answer
    <2>2. CASE Answer(r, "unknown") /\ ~Terminal(r) /\ r \notin pending
      BY <1>2, <2>2, AnswerStep DEF Answer
    <2>3. CASE client' = client
      BY <2>3, ClientsKept
    <2>4. Lapsed(r) /\ Cancel({r}, "expired") => r \in pending /\ r \notin pending'
      BY DEF Lapsed, Cancel, Withdraw
    <2> QED BY <1>4, <2>1, <2>2, <2>3, <2>4
  <1>6. CASE Lapsed(r) /\ Cancel({r}, "expired")
    <2> DEFINE R == {r}
    <2>1. R \in SUBSET Request /\ "expired" \in Status /\ Cancel(R, "expired")
      BY <1>2, <1>6 DEF Status
    <2> HIDE DEF R
    <2>2. /\ Ended(R) /\ LedgerTypeOK' /\ OwnersTold
          /\ Settles(R)
      BY <1>1, <2>1, CancelStep
    <2>3. IInv' /\ StageStep
      BY <1>1, <1>3, <1>5, <2>1, <2>2, IdleOK, HandlerStep DEF registry, At, Holding
    <2> QED BY <2>2, <2>3 DEF StepOK
  <1>7. CASE /\ TerminalRead(r) /\ progress' \subseteq progress
             /\ UNCHANGED <<queue, in_flight, pending, outcomes, tombstones>>
    <2>1. Ended({})
      BY <1>7, NothingEnds DEF TypeOK, LifecycleTypeOK
    <2>2. LedgerTypeOK' /\ Settles({})
      BY <1>1, <1>7, TerminalReadStep, NothingSettled DEF TypeOK, LedgerTypeOK
    <2>3. IInv' /\ StageStep
      BY <1>1, <1>3, <1>5, <2>1, <2>2, IdleOK, HandlerStep DEF registry, At, Holding
    <2> QED BY <1>7, <2>3, StillInFlight DEF StepOK
  <1> QED BY <1>4, <1>6, <1>7
\* What the tables say of request x does not change.
Untouched(x) ==
    /\ Queued(queue, x)' <=> Queued(queue, x)
    /\ InHand(x)' <=> InHand(x)
    /\ Flying(in_flight, x)' <=> Flying(in_flight, x)
    /\ x \in responses' <=> x \in responses
    /\ x \in pending' <=> x \in pending
    /\ HandedOut(x)' <=> HandedOut(x)
    /\ deadline'[x] = deadline[x] /\ client'[x] = client[x]
    /\ Terminal(x)' => Terminal(x)
    /\ x \in DOMAIN outcomes' => x \in DOMAIN outcomes

\* One request goes from one place to the next.
LEMMA MoveStep ==
    ASSUME IInv, NEW r \in Request, \A x \in Request \ {r} : Untouched(x),
           TypeOK', OneSlot', OneHand', OneOwner', ShapesOK', EnqueueRegistered',
           SubmitsOnce', WorkAtRegisteredNodes', RequestOK(r)',
           r \in responses' \/ client'[r] = "delivered" => ~Terminal(r)'
    PROVE  IInv' /\ \A x \in Request \ {r} : StageMove(x)
  <1> USE DEF IInv, Consistent
  <1>1. \A x \in Request : RequestOK(x)'
    BY DEF Untouched, RequestOK, Home
  <1>2. CompletedNotTerminal'
    BY DEF Untouched, CompletedNotTerminal
  <1>3. \A x \in Request \ {r} : Stage(x)' = Stage(x) /\ Told(x)' = Told(x) /\ NoRecord(x)
    BY DEF Untouched, Stage, Owned, Told, NoRecord
  <1> QED BY <1>1, <1>2, <1>3 DEF StageMove, Hears

\* The stages r is moved through by a step that leaves the others alone.
LEMMA OneStage ==
    ASSUME NEW r \in Request, \A x \in Request \ {r} : StageMove(x), NoRecord(r),
           \/ Stage(r)' = Stage(r) /\ Told(r)' = Told(r)
           \/ Stage(r) = "absent" /\ Stage(r)' = "pending" /\ Told(r)' = Told(r)
           \/ /\ Stage(r) \in {"pending", "withdrawn"} /\ Stage(r)' = "answered"
              /\ ~Terminal(r) /\ Told(r)' = Told(r)
           \/ Stage(r) = "withdrawn" /\ Stage(r)' = "over" /\ Told(r)' = Told(r)
           \/ Stage(r) = "answered" /\ Stage(r)' = "over" /\ Hears(r, {"delivered"})
    PROVE  StageStep
  BY DEF StageStep, StageMove, MoveTo, Hears

\* Retrieve: a decided request answers, and a response is handed over once.
LEMMA RetrieveStep ==
    ASSUME IInv, NEW t \in Thread, NEW r \in Request, NEW lost, Retrieve(t, r, lost)
    PROVE  StepOK
  <1> USE DEF IInv, Consistent
  <1>1. /\ client[r] = "waiting" /\ At(t, "idle") /\ TerminalRead(r)
        /\ UNCHANGED <<now, registry, queue, in_flight, progress, outcomes, tombstones,
                       deadline, work>>
    BY DEF Retrieve
  <1>2. RegistryTypeOK'
    BY <1>1 DEF TypeOK, RegistryTypeOK, registry
  <1>3. LedgerTypeOK' /\ Settles({}) /\ \A q \in Request : Terminal(q)' => Terminal(q)
    BY <1>1, TerminalReadStep, NothingSettled DEF TypeOK, LedgerTypeOK
  <1>4. OwnersTold
    BY <1>1, StillInFlight
  <1>5. CASE /\ Terminal(r) /\ responses' = responses \ {r}
             /\ client' = [client EXCEPT ![r] = "gone"]
             /\ UNCHANGED <<pending, thread>>
    <2>1. responses' = responses
      BY <1>5 DEF CompletedNotTerminal
    <2>2. Ended({})
      BY <1>1, <1>5, NothingEnds DEF TypeOK, LifecycleTypeOK
    <2>3. /\ ClientMoves /\ \A q \in Request : client[q] = "sent" => client'[q] = "sent"
          /\ client' \in [Request ->
                {"new", "sent", "refused", "waiting", "delivered", "gone", "unknown"}]
      BY <1>1, <1>5, AnswerStep
    <2>4. IInv' /\ StageStep
      BY <1>1, <1>2, <1>3, <1>5, <2>1, <2>2, <2>3, TableStep DEF registry
    <2> QED BY <1>4, <2>4 DEF StepOK
  <1>6. CASE /\ ~Terminal(r) /\ r \notin responses
             /\ thread' = [thread EXCEPT ![t] = [Idle EXCEPT !.pc = "settle", !.req = r]]
             /\ UNCHANGED <<pending, responses, client>>
    <2> DEFINE x == [Idle EXCEPT !.pc = "settle", !.req = r]
    <2>1. x \in ThreadRecord /\ ShapeOf(x) /\ x.pc = "settle"
      BY DEF Idle, ThreadRecord, Pc, Operation, Time, ShapeOf
    <2>2. thread' = [thread EXCEPT ![t] = x]
      BY <1>6
    <2> HIDE DEF x
    <2>3. Ended({})
      BY <1>1, <1>6, NothingEnds DEF TypeOK, LifecycleTypeOK
    <2>4. IInv' /\ StageStep
      BY <1>1, <1>2, <1>3, <1>6, <2>1, <2>2, <2>3, ClientsKept, HandlerStep
         DEF registry, At, Holding
    <2> QED BY <1>4, <2>4 DEF StepOK
  <1>7. CASE /\ ~Terminal(r) /\ r \in responses /\ PopResponse(r)
             /\ client' = IF lost THEN client ELSE [client EXCEPT ![r] = "delivered"]
             /\ UNCHANGED thread
    <2>1. ~Home(r) /\ r \notin pending /\ deadline[r] > 0
      BY <1>7 DEF RequestOK
    <2>2. responses' = responses \ {r} /\ pending' = pending
      BY <1>7, <2>1 DEF PopResponse
    <2>3. client \in [Request -> {"new", "sent", "refused", "waiting", "delivered", "gone", "unknown"}]
      BY DEF TypeOK, RequestTypeOK
    <2>4. /\ client' \in [Request -> {"new", "sent", "refused", "waiting", "delivered", "gone", "unknown"}]
          /\ client'[r] \in {"waiting", "delivered"}
          /\ \A x \in Request \ {r} : client'[x] = client[x]
      BY <1>1, <1>7, <2>3
    <2>5. TypeOK'
      BY <1>1, <1>2, <1>3, <1>7, <2>2, <2>4
         DEF TypeOK, LifecycleTypeOK, RequestTypeOK, ThreadTypeOK
    <2>6. /\ OneSlot' /\ OneHand' /\ OneOwner' /\ ShapesOK' /\ EnqueueRegistered'
          /\ WorkAtRegisteredNodes'
      <3>1. \A u \in Thread : At(u, "enqueue") => thread[u].req \in Request
        BY DEF ShapesOK, ShapeOf, At
      <3>2. EnqueueRegistered'
        BY <1>1, <1>7, <2>4, <3>1 DEF EnqueueRegistered, At, Registered, registry
      <3> QED BY <1>1, <1>7, <3>2 DEF OneSlot, OneHand, Held, OneOwner, ShapesOK,
                        Registered, WorkAtRegisteredNodes, registry
    <2>7. \A u \in Thread : Submitting(u) => thread[u].req \in Request /\ thread[u].req # r
      BY <1>1 DEF Submitting, ShapesOK, ShapeOf, SubmitsOnce
    <2>8. SubmitsOnce'
      BY <1>1, <1>7, <2>4, <2>7 DEF SubmitsOnce, Submitting
    <2>9. \A x \in Request : (Queued(queue, x)' <=> Queued(queue, x)) /\ (InHand(x)' <=> InHand(x))
             /\ (Flying(in_flight, x)' <=> Flying(in_flight, x)) /\ (HandedOut(x)' <=> HandedOut(x))
      BY <1>1, <1>7 DEF Queued, InHand, Held, Flying, HandedOut
    <2>10. \A x \in Request \ {r} : Untouched(x)
      BY <1>1, <1>3, <2>2, <2>4, <2>9 DEF Untouched
    <2>11. RequestOK(r)' /\ ~Terminal(r)'
      BY <1>1, <1>3, <1>7, <2>1, <2>2, <2>4, <2>9 DEF RequestOK, Home
    <2>12. IInv' /\ \A x \in Request \ {r} : StageMove(x)
      BY <2>5, <2>6, <2>8, <2>10, <2>11, MoveStep
    <2>13. Stage(r) = "answered" /\ Stage(r)' = "over"
      BY <1>1, <1>7, <2>1, <2>2, <2>9 DEF Stage, Owned, Home, TypeOK, RequestTypeOK, Time
    <2>14. Hears(r, {"delivered"}) /\ NoRecord(r)
      BY <1>1, <1>3, <2>4 DEF Hears, Told, NoRecord
    <2> QED BY <1>4, <2>12, <2>13, <2>14, OneStage DEF StepOK
  <1> QED BY <1>5, <1>6, <1>7 DEF Retrieve

\* Response: the response wins, comes too late, or is for nobody.
LEMMA ResponseStep ==
    ASSUME IInv, NEW r \in Request, Response(r)
    PROVE  StepOK
  <1> USE DEF IInv, Consistent
  <1>1. /\ HandedOut(r) /\ ~Terminal(r) /\ r \notin responses
        /\ UNCHANGED <<now, registry, deadline, thread, work, client>>
    BY DEF Response, HandedOut
  <1>2. RegistryTypeOK'
    BY <1>1 DEF TypeOK, RegistryTypeOK, registry
  <1>3. now \in Time /\ now + TerminalSeconds \in Time
    BY Periods DEF TypeOK, RegistryTypeOK, Time
  <1>4. CASE ResponseOverdue(r)
    <2> DEFINE R == {r}
    <2>1. /\ R \in SUBSET Request /\ "expired" \in Status /\ Cancel(R, "expired")
          /\ responses' = responses
      BY <1>4 DEF Status, ResponseOverdue
    <2> HIDE DEF R
    <2>2. /\ Ended(R) /\ LedgerTypeOK' /\ OwnersTold
          /\ Settles(R)
      BY <1>1, <2>1, CancelStep
    <2>3. IInv' /\ StageStep
      BY <1>1, <1>2, <2>1, <2>2, ClientsKept, TableStep DEF registry
    <2> QED BY <2>2, <2>3 DEF StepOK
  <1>5. CASE ResponseGone(r)
    <2>1. /\ TerminalRead(r) /\ OutcomeRead(r)
          /\ UNCHANGED <<queue, in_flight, pending, progress, tombstones, responses>>
      BY <1>5 DEF ResponseGone
    <2>2. Ended({})
      BY <2>1, NothingEnds DEF TypeOK, LifecycleTypeOK
    <2>3. IsMap(outcomes', Request) /\ Values(outcomes', Time)
      BY <2>1, DropType DEF OutcomeRead, TypeOK, LedgerTypeOK
    <2>4. LedgerTypeOK' /\ Settles({})
      <3>1. DOMAIN outcomes' \subseteq DOMAIN outcomes
        BY <2>1 DEF OutcomeRead, Drop
      <3> QED BY <1>1, <2>1, <2>3, <3>1, TerminalReadStep, NothingSettled DEF TypeOK, LedgerTypeOK
    <2>5. IInv' /\ StageStep
      BY <1>1, <1>2, <2>1, <2>2, <2>4, ClientsKept, TableStep DEF registry
    <2> QED BY <2>1, <2>5, StillInFlight DEF StepOK
  <1>6. CASE ResponseAccepted(r)
    <2> DEFINE R == {r}
    <2>1. /\ Owned(r) /\ ~Lapsed(r) /\ Taken(r) /\ TerminalRead(r)
          /\ tombstones' = tombstones
          /\ \/ /\ r \in DOMAIN outcomes /\ outcomes' = outcomes
                /\ progress' = progress /\ responses' = responses
             \/ /\ outcomes' = Put(outcomes, r, now + TerminalSeconds)
                /\ progress' = progress \ {r} /\ responses' = responses \cup {r}
      BY <1>6 DEF ResponseAccepted
    <2>2. /\ LifecycleTypeOK' /\ OneSlot'
          /\ \A n \in Node : Elements(queue'[n]) = Elements(queue[n]) \ {r}
          /\ \A n \in Node : DOMAIN in_flight'[n] = DOMAIN in_flight[n] \ {r}
          /\ pending' = pending \ {r}
      <3>1. /\ queue' = [n \in Node |-> Without(queue[n], R)]
            /\ in_flight' = [n \in Node |-> Drop(in_flight[n], R)]
            /\ pending' = pending \ R /\ progress' \subseteq progress
        BY <2>1 DEF Taken
      <3>2. queue = [n \in Node |-> queue[n]] /\ in_flight = [n \in Node |-> in_flight[n]]
        BY DEF TypeOK, LifecycleTypeOK
      <3>3. R \in SUBSET Request
        OBVIOUS
      <3> HIDE DEF R
      <3>4. Ended(R)
        BY <3>1, <3>2, <3>3, FilterEnds DEF TypeOK
      <3> QED BY <3>4 DEF Ended, R
    <2>3. LedgerTypeOK' /\ \A q \in Request : Terminal(q)' => Terminal(q)
      <3> DEFINE e == now + TerminalSeconds
      <3>1. IsMap(outcomes, Request) /\ Values(outcomes, Time) /\ e \in Time
        BY <1>3 DEF TypeOK, LedgerTypeOK
      <3>2. outcomes' \in {outcomes, Put(outcomes, r, e)}
        BY <2>1
      <3> HIDE DEF e
      <3>3. IsMap(outcomes', Request) /\ Values(outcomes', Time)
        BY <3>1, <3>2, PutType
      <3> QED BY <1>1, <2>1, <3>3, TerminalReadStep DEF TypeOK, LedgerTypeOK
    <2>4. TypeOK'
      BY <1>1, <1>2, <2>1, <2>2, <2>3 DEF TypeOK, RequestTypeOK, ThreadTypeOK
    <2>5. /\ OneHand' /\ OneOwner' /\ ShapesOK' /\ EnqueueRegistered' /\ SubmitsOnce'
      BY <1>1, <2>2 DEF OneHand, Held, OneOwner, ShapesOK, EnqueueRegistered, At,
                        Registered, SubmitsOnce, Submitting, registry
    <2>6. WorkAtRegisteredNodes'
      <3> SUFFICES ASSUME NEW n \in Node, ~Registered(n)'
                   PROVE  queue'[n] = <<>> /\ DOMAIN in_flight'[n] = {}
        BY DEF WorkAtRegisteredNodes
      <3>1. queue[n] = <<>> /\ DOMAIN in_flight[n] = {}
        BY <1>1 DEF WorkAtRegisteredNodes, Registered, registry
      <3>2. queue[n] \in Seq(Request) /\ queue'[n] \in Seq(Request)
        BY <2>2 DEF TypeOK, LifecycleTypeOK
      <3>3. Elements(queue'[n]) = {}
        BY <2>2, <3>1, <3>2, NoElements
      <3> QED BY <2>2, <3>1, <3>2, <3>3, NoElements
    <2>7. \A x \in Request : (InHand(x)' <=> InHand(x)) /\ (HandedOut(x)' <=> HandedOut(x))
      BY <1>1 DEF InHand, Held, HandedOut
    <2>8. \A x \in Request :
             /\ Queued(queue, x)' <=> Queued(queue, x) /\ x # r
             /\ Flying(in_flight, x)' <=> Flying(in_flight, x) /\ x # r
      BY <2>2 DEF Queued, Flying
    <2>9. \A x \in Request \ {r} : Untouched(x)
      <3>1. \A x \in Request \ {r} : x \in DOMAIN outcomes' => x \in DOMAIN outcomes
        BY <2>1 DEF Put
      <3> QED BY <1>1, <2>1, <2>2, <2>3, <2>7, <2>8, <3>1 DEF Untouched
    <2>10. ~Home(r)' /\ r \notin pending'
      BY <1>1, <2>2, <2>7, <2>8 DEF RequestOK, Home
    <2>11. RequestOK(r)' /\ ~Terminal(r)'
      BY <1>1, <2>3, <2>7, <2>10 DEF RequestOK, Home
    <2>12. IInv' /\ \A x \in Request \ {r} : StageMove(x)
      BY <2>2, <2>4, <2>5, <2>6, <2>9, <2>11, MoveStep
    <2>13. \/ Stage(r) \in {"pending", "withdrawn"} /\ Stage(r)' = "answered"
           \/ Stage(r) = "withdrawn" /\ Stage(r)' = "over"
      <3>1. deadline[r] # 0 /\ deadline' = deadline
        BY <1>1 DEF RequestOK, TypeOK, RequestTypeOK, Time
      <3>2. Stage(r) \in {"pending", "withdrawn"}
        BY <1>1, <2>1, <3>1 DEF Stage
      <3>3. r \in DOMAIN outcomes => Stage(r) = "withdrawn"
        BY <1>1, <2>1, <3>1 DEF RequestOK, Stage
      <3>4. r \in responses' => Stage(r)' = "answered"
        BY <3>1 DEF Stage
      <3>5. r \notin responses' => Stage(r)' = "over"
        BY <2>10, <3>1 DEF Stage, Owned, Home
      <3> QED BY <1>1, <2>1, <3>2, <3>3, <3>4, <3>5
    <2>15. Told(r)' = Told(r) /\ NoRecord(r)
      BY <1>1, <2>3 DEF Told, NoRecord
    <2>14. OwnersTold
      BY <2>2 DEF OwnersTold
    <2> QED BY <1>1, <2>12, <2>13, <2>14, <2>15, OneStage DEF StepOK
  <1> QED BY <1>4, <1>5, <1>6 DEF Response
\* Pop: the head of the queue goes into the thread's hands.
LEMMA PopStep ==
    ASSUME IInv, NEW t \in Thread, Pop(t)
    PROVE  StepOK
  <1> USE DEF IInv, Consistent
  <1> DEFINE n == thread[t].node
  <1>1. /\ At(t, "pop")
        /\ UNCHANGED <<now, registry, in_flight, pending, progress, ledger, tombstones,
                       deadline, responses, work, client>>
    BY DEF Pop
  <1>2. n \in Node /\ thread[t].op = "poll" /\ thread[t].req = None /\ thread[t] \in ThreadRecord
    BY <1>1, ThreadType DEF At, ShapesOK, ShapeOf
  <1>3. RegistryTypeOK' /\ LedgerTypeOK'
    BY <1>1 DEF TypeOK, RegistryTypeOK, LedgerTypeOK, registry, ledger
  <1>4. CASE ~Registered(n)
    <2>1. thread' = [thread EXCEPT ![t] = Idle] /\ queue' = queue
      BY <1>4 DEF Pop, Return
    <2> QED BY <1>1, <1>3, <2>1, IdleOK, QuietStep DEF At, Holding, lifecycle, registry
  <1>5. CASE Registered(n) /\ queue[n] = <<>>
    <2> DEFINE x == [thread[t] EXCEPT !.pc = "claim"]
    <2>1. thread' = [thread EXCEPT ![t] = x] /\ queue' = queue
      BY <1>5 DEF Pop, Goto
    <2>2. /\ x \in ThreadRecord /\ x.pc = "claim" /\ x.req = None
          /\ x.op = "poll" /\ x.node = n
      BY <1>2 DEF ThreadRecord, Pc
    <2> HIDE DEF x
    <2>3. ShapeOf(x)
      BY <1>2, <2>2 DEF ShapeOf
    <2> QED BY <1>1, <1>3, <2>1, <2>2, <2>3, QuietStep DEF At, Holding, lifecycle, registry
  <1>6. CASE Registered(n) /\ queue[n] # <<>>
    <2>0. PICK r : r = Head(queue[n])
      OBVIOUS
    <2> DEFINE x == [thread[t] EXCEPT !.req = r, !.pc = IF Overdue(r) THEN "drop" ELSE "claim"]
    <2>1. thread' = [thread EXCEPT ![t] = x] /\ queue' = [queue EXCEPT ![n] = Tail(queue[n])]
      BY <1>6, <2>0 DEF Pop, Popped
    <2>2. queue \in [Node -> Seq(Request)] /\ queue[n] \in Seq(Request)
      BY <1>2 DEF TypeOK, LifecycleTypeOK
    <2>3. /\ queue' \in [Node -> Seq(Request)] /\ r \in Request /\ r \in Elements(queue[n])
          /\ Elements(queue'[n]) = Elements(queue[n]) \ {r}
          /\ \A i, j \in DOMAIN queue'[n] : queue'[n][i] = queue'[n][j] => i = j
          /\ \A m \in Node : m # n => queue'[m] = queue[m]
      <3>1. \A i, j \in DOMAIN queue[n] : queue[n][i] = queue[n][j] => i = j
        BY <1>2 DEF OneSlot
      <3>2. /\ Tail(queue[n]) \in Seq(Request) /\ Len(queue[n]) \in Nat \ {0}
            /\ Len(Tail(queue[n])) = Len(queue[n]) - 1 /\ r = queue[n][1] /\ r \in Request
            /\ DOMAIN queue[n] = 1 .. Len(queue[n])
            /\ DOMAIN Tail(queue[n]) = 1 .. (Len(queue[n]) - 1)
            /\ \A i \in DOMAIN Tail(queue[n]) : Tail(queue[n])[i] = queue[n][i + 1]
        BY <1>6, <2>0, <2>2
      <3>3. r \in Elements(queue[n])
        BY <3>2 DEF Elements
      <3>4. Elements(Tail(queue[n])) = Elements(queue[n]) \ {r}
        <4>1. ASSUME NEW i \in DOMAIN Tail(queue[n])
              PROVE  Tail(queue[n])[i] \in Elements(queue[n]) \ {r}
          <5>1. i + 1 \in DOMAIN queue[n] /\ 1 \in DOMAIN queue[n] /\ i + 1 # 1
            BY <3>2
          <5> QED BY <3>1, <3>2, <5>1 DEF Elements
        <4>2. ASSUME NEW i \in DOMAIN queue[n], queue[n][i] # r
              PROVE  queue[n][i] \in Elements(Tail(queue[n]))
          <5>1. i - 1 \in DOMAIN Tail(queue[n]) /\ Tail(queue[n])[i - 1] = queue[n][i]
            BY <3>2, <4>2
          <5> QED BY <5>1 DEF Elements
        <4> QED BY <4>1, <4>2 DEF Elements
      <3>5. \A i, j \in DOMAIN Tail(queue[n]) : Tail(queue[n])[i] = Tail(queue[n])[j] => i = j
        <4> TAKE i, j \in DOMAIN Tail(queue[n])
        <4>1. i + 1 \in DOMAIN queue[n] /\ j + 1 \in DOMAIN queue[n] /\ i \in Nat /\ j \in Nat
          BY <3>2
        <4>2. Tail(queue[n])[i] = queue[n][i + 1] /\ Tail(queue[n])[j] = queue[n][j + 1]
          BY <3>2
        <4>3. Tail(queue[n])[i] = Tail(queue[n])[j] => i + 1 = j + 1
          BY <3>1, <4>1, <4>2
        <4> QED BY <4>1, <4>3
      <3>6. queue'[n] = Tail(queue[n]) /\ \A m \in Node : m # n => queue'[m] = queue[m]
        BY <1>2, <2>1, <2>2
      <3>7. queue' \in [Node -> Seq(Request)]
        BY <2>1, <2>2, <3>2
      <3> QED BY <3>2, <3>3, <3>4, <3>5, <3>6, <3>7
    <2>4. /\ x \in ThreadRecord /\ x.pc \in {"drop", "claim"} /\ x.req = r
          /\ x.op = "poll" /\ x.node = n
      BY <1>2, <2>3 DEF ThreadRecord, Pc
    <2> HIDE DEF x
    <2>5. ShapeOf(x)
      BY <1>2, <2>3, <2>4 DEF ShapeOf
    <2>6. /\ ThreadTypeOK' /\ ShapesOK' /\ thread'[t] = x
          /\ \A u \in Thread : u # t => thread'[u] = thread[u]
      BY <2>1, <2>4, <2>5, ThreadMoves DEF TypeOK
    <2>7. TypeOK'
      BY <1>1, <1>3, <2>3, <2>6 DEF TypeOK, LifecycleTypeOK, RequestTypeOK
    <2>8. \A m \in Node : \A y : y \in Elements(queue'[m]) <=> y \in Elements(queue[m]) /\ y # r
      <3>1. \A m \in Node : m # n => r \notin Elements(queue[m])
        BY <1>2, <2>3 DEF OneSlot, Elements
      <3> QED BY <2>3, <3>1
    <2>9. OneSlot'
      <3> SUFFICES ASSUME NEW k \in Node, NEW m \in Node,
                          NEW i \in DOMAIN queue'[k], NEW j \in DOMAIN queue'[m],
                          queue'[k][i] = queue'[m][j]
                   PROVE  k = m /\ i = j
        BY DEF OneSlot
      <3>1. queue'[k][i] \in Elements(queue'[k]) /\ queue'[k][i] \in Elements(queue'[m])
        BY DEF Elements
      <3>2. queue'[k][i] \in Elements(queue[k]) /\ queue'[k][i] \in Elements(queue[m])
        BY <2>8, <3>1
      <3>3. k = m
        BY <3>2 DEF OneSlot, Elements
      <3>4. CASE k = n
        BY <2>3, <3>3, <3>4
      <3>5. CASE k # n
        BY <2>3, <3>3, <3>5 DEF OneSlot
      <3> QED BY <3>3, <3>4, <3>5
    <2>10. Queued(queue, r)
      BY <1>2, <2>3 DEF Queued
    <2>11. ~InHand(r) /\ ~HandedOut(r) /\ ~Flying(in_flight, r) /\ r \notin responses
      BY <2>3, <2>10 DEF RequestOK, Home
    <2>12. \A q \in Request : Held(t, q)' <=> q = r
      BY <2>4, <2>6 DEF Held
    <2>13. \A u \in Thread, q \in Request : u # t => (Held(u, q)' <=> Held(u, q))
      BY <2>6 DEF Held
    <2>14. \A q \in Request : ~Held(t, q)
      BY <1>1 DEF Held, At
    <2>15. OneHand'
      BY <2>11, <2>12, <2>13 DEF OneHand, InHand
    <2>16. OneOwner' /\ EnqueueRegistered'
      BY <1>1, <2>4, <2>6 DEF OneOwner, EnqueueRegistered, At, Registered, registry
    <2>17. SubmitsOnce'
      BY <1>1, <2>4, <2>6 DEF SubmitsOnce, Submitting
    <2>18. WorkAtRegisteredNodes'
      BY <1>1, <1>6, <2>3 DEF WorkAtRegisteredNodes, Registered, registry
    <2>19. \A q \in Request : /\ Queued(queue, q)' <=> Queued(queue, q) /\ q # r
                              /\ InHand(q)' <=> InHand(q) \/ q = r
                              /\ HandedOut(q)' <=> HandedOut(q)
                              /\ Flying(in_flight, q)' <=> Flying(in_flight, q)
                              /\ Terminal(q)' <=> Terminal(q)
      <3>1. \A q \in Request : Queued(queue, q)' <=> Queued(queue, q) /\ q # r
        BY <2>8 DEF Queued
      <3>2. \A q \in Request : InHand(q)' <=> InHand(q) \/ q = r
        BY <2>12, <2>13, <2>14 DEF InHand
      <3>3. \A q \in Request : /\ HandedOut(q)' <=> HandedOut(q)
                               /\ Flying(in_flight, q)' <=> Flying(in_flight, q)
                               /\ Terminal(q)' <=> Terminal(q)
        BY <1>1 DEF HandedOut, Flying, Terminal, ledger
      <3> QED BY <3>1, <3>2, <3>3
    <2>20. \A q \in Request \ {r} : Untouched(q)
      BY <1>1, <2>19 DEF Untouched, ledger
    <2>21. RequestOK(r)'
      BY <1>1, <2>3, <2>10, <2>11, <2>19 DEF RequestOK, Home, ledger
    <2>22. client[r] = "delivered" => ~Terminal(r)
      BY <2>3 DEF CompletedNotTerminal
    <2>23. IInv' /\ \A q \in Request \ {r} : StageMove(q)
      BY <1>1, <2>3, <2>6, <2>7, <2>9, <2>11, <2>15, <2>16, <2>17, <2>18, <2>19, <2>20, <2>21, <2>22, MoveStep
    <2>24. Stage(r)' = Stage(r) /\ Told(r)' = Told(r) /\ NoRecord(r)
      BY <1>1, <2>3, <2>10, <2>19 DEF Stage, Owned, Told, NoRecord
    <2> QED BY <1>1, <2>3, <2>23, <2>24, OneStage, StillInFlight DEF StepOK
  <1> QED BY <1>4, <1>5, <1>6
\* Insert: the request is in flight at the node, or given up with its node.
LEMMA InsertStep ==
    ASSUME IInv, NEW t \in Thread, Insert(t)
    PROVE  StepOK
  <1> USE DEF IInv, Consistent
  <1> DEFINE n == thread[t].node
  <1>1. PICK r : r = thread[t].req
    OBVIOUS
  <1>2. /\ At(t, "insert") /\ ServerLockFree /\ UNCHANGED <<now, credentials, responses, client>>
    BY DEF Insert
  <1>3. n \in Node /\ r \in Request
    BY <1>1, <1>2 DEF At, ShapesOK, ShapeOf
  <1>4. CASE ~Registered(n)
    BY <1>1, <1>2, <1>3, <1>4, GiveUpStep DEF Insert
  <1>5. CASE Registered(n)
    <2> DEFINE e == Min2(now + InFlightSeconds, deadline[r])
    <2>1. /\ in_flight' = [in_flight EXCEPT ![n] = Put(in_flight[n], r, e)]
          /\ work' = work \cup {<<n, r, known_servers[n].cred>>}
          /\ thread' = [thread EXCEPT ![t] = Idle]
          /\ UNCHANGED <<known_servers, unregistered, queue, pending, progress, ledger,
                         tombstones, deadline>>
      BY <1>1, <1>5 DEF Insert, Return
    <2>2. e \in Time
      BY <1>3, Periods DEF Min2, TypeOK, RegistryTypeOK, RequestTypeOK, Time
    <2> HIDE DEF e
    <2>3. /\ in_flight'[n] = Put(in_flight[n], r, e)
          /\ \A m \in Node : m # n => in_flight'[m] = in_flight[m]
          /\ in_flight' = [m \in Node |-> in_flight'[m]]
      BY <1>3, <2>1 DEF TypeOK, LifecycleTypeOK
    <2>4. IsMap(in_flight'[n], Request) /\ Values(in_flight'[n], Time)
      <3>1. IsMap(in_flight[n], Request) /\ Values(in_flight[n], Time)
        BY <1>3 DEF TypeOK, LifecycleTypeOK
      <3>2. /\ IsMap(Put(in_flight[n], r, e), Request)
            /\ Values(Put(in_flight[n], r, e), Time)
        BY <1>3, <2>2, <3>1, PutType
      <3> QED BY <2>3, <3>2
    <2>5. \A m \in Node : DOMAIN in_flight'[m] = DOMAIN in_flight[m] \cup (IF m = n THEN {r} ELSE {})
      BY <2>3 DEF Put
    <2>6. LifecycleTypeOK'
      BY <2>1, <2>3, <2>4 DEF TypeOK, LifecycleTypeOK
    <2>7. /\ ThreadTypeOK' /\ ShapesOK' /\ thread'[t] = Idle
          /\ \A u \in Thread : u # t => thread'[u] = thread[u]
      BY <2>1, IdleOK, ThreadMoves DEF TypeOK
    <2>8. work' \subseteq Node \X Request \X Nat
      <3>1. known_servers[n].cred \in Nat
        BY <1>5 DEF Registered, TypeOK, RegistryTypeOK, Values, ServerRecord
      <3> QED BY <1>3, <2>1, <3>1 DEF TypeOK, RequestTypeOK
    <2>9. TypeOK'
      BY <1>2, <2>1, <2>6, <2>7, <2>8
         DEF TypeOK, RegistryTypeOK, LedgerTypeOK, RequestTypeOK, ledger
    <2>10. Held(t, r) /\ InHand(r)
      BY <1>1, <1>2 DEF Held, InHand, At
    <2>11. ~Queued(queue, r) /\ ~Flying(in_flight, r) /\ ~HandedOut(r) /\ r \notin responses
           /\ deadline[r] > 0 /\ client[r] # "delivered" /\ client[r] # "new"
      BY <1>3, <2>10 DEF RequestOK, Home
    <2>12. \A u \in Thread, q \in Request : Held(u, q)' <=> Held(u, q) /\ u # t
      BY <2>7, IdleOK DEF Held
    <2>13. \A q \in Request : Held(t, q) => q = r
      BY <1>1 DEF Held
    <2>14. \A q \in Request : /\ InHand(q)' <=> InHand(q) /\ q # r
                              /\ HandedOut(q)' <=> HandedOut(q) \/ q = r
                              /\ Flying(in_flight, q)' <=> Flying(in_flight, q) \/ q = r
                              /\ Queued(queue, q)' <=> Queued(queue, q)
                              /\ Terminal(q)' <=> Terminal(q)
      <3>1. \A q \in Request : InHand(q)' <=> InHand(q) /\ q # r
        BY <1>3, <2>10, <2>12, <2>13 DEF InHand, OneHand
      <3>2. \A q \in Request : HandedOut(q)' <=> HandedOut(q) \/ q = r
        <4>1. <<n, r, known_servers[n].cred>>[2] = r
          OBVIOUS
        <4> QED BY <2>1, <4>1 DEF HandedOut
      <3>3. \A q \in Request : Flying(in_flight, q)' <=> Flying(in_flight, q) \/ q = r
        BY <1>3, <2>5 DEF Flying
      <3>4. \A q \in Request : /\ Queued(queue, q)' <=> Queued(queue, q)
                               /\ Terminal(q)' <=> Terminal(q)
        BY <1>2, <2>1 DEF Queued, Terminal, ledger
      <3> QED BY <3>1, <3>2, <3>3, <3>4
    <2>15. OneSlot' /\ OneHand'
      BY <2>1, <2>12 DEF OneSlot, OneHand
    <2>16. OneOwner'
      BY <2>5, <2>11 DEF OneOwner, Flying
    <2>17. EnqueueRegistered' /\ SubmitsOnce'
      BY <1>2, <2>1, <2>7, IdleOK DEF EnqueueRegistered, At, Registered, SubmitsOnce, Submitting
    <2>18. WorkAtRegisteredNodes'
      BY <1>5, <2>1, <2>3 DEF WorkAtRegisteredNodes, Registered
    <2>19. \A q \in Request \ {r} : Untouched(q)
      BY <1>2, <2>1, <2>14 DEF Untouched, ledger
    <2>20. RequestOK(r)'
      BY <1>2, <1>3, <2>1, <2>11, <2>14 DEF RequestOK, Home, ledger
    <2>21. IInv' /\ \A q \in Request \ {r} : StageMove(q)
      BY <1>2, <1>3, <2>7, <2>9, <2>11, <2>15, <2>16, <2>17, <2>18, <2>19, <2>20, MoveStep
    <2>22. Stage(r)' = Stage(r) /\ Told(r)' = Told(r) /\ NoRecord(r)
      BY <1>2, <1>3, <2>1, <2>10, <2>14 DEF Stage, Owned, Told, NoRecord
    <2>23. OwnersTold
      BY <2>5, StillInFlight
    <2> QED BY <1>3, <2>21, <2>22, <2>23, OneStage DEF StepOK
  <1> QED BY <1>4, <1>5

\* Enqueue: the request goes from the thread's hands to the end of the queue.
LEMMA EnqueueStep ==
    ASSUME IInv, NEW t \in Thread, Enqueue(t)
    PROVE  StepOK
  <1> USE DEF IInv, Consistent
  <1> DEFINE n == thread[t].node
  <1>1. PICK r : r = thread[t].req
    OBVIOUS
  <1>2. /\ At(t, "enqueue") /\ queue' = [queue EXCEPT ![n] = Append(queue[n], r)]
        /\ client' = [client EXCEPT ![r] = "waiting"] /\ thread' = [thread EXCEPT ![t] = Idle]
        /\ UNCHANGED <<now, registry, in_flight, pending, progress, ledger, tombstones,
                       deadline, responses, work>>
    BY <1>1 DEF Enqueue, Return
  <1>3. n \in Node /\ r \in Request /\ Registered(n)
    BY <1>1, <1>2 DEF At, ShapesOK, ShapeOf, EnqueueRegistered
  <1>4. queue \in [Node -> Seq(Request)] /\ queue[n] \in Seq(Request)
    BY <1>3 DEF TypeOK, LifecycleTypeOK
  <1>5. /\ Append(queue[n], r) \in Seq(Request)
        /\ DOMAIN queue[n] = 1 .. Len(queue[n]) /\ Len(queue[n]) \in Nat
        /\ DOMAIN Append(queue[n], r) = 1 .. (Len(queue[n]) + 1)
        /\ \A i \in 1 .. Len(queue[n]) : Append(queue[n], r)[i] = queue[n][i]
        /\ Append(queue[n], r)[Len(queue[n]) + 1] = r
    BY <1>3, <1>4
  <1>6. /\ queue' \in [Node -> Seq(Request)]
        /\ queue'[n] = Append(queue[n], r)
        /\ \A m \in Node : m # n => queue'[m] = queue[m]
    BY <1>2, <1>3, <1>4, <1>5
  <1>7. Held(t, r) /\ InHand(r)
    BY <1>1, <1>2 DEF Held, InHand, At
  <1>8. /\ ~Queued(queue, r) /\ ~Flying(in_flight, r) /\ ~HandedOut(r) /\ r \notin responses
        /\ deadline[r] > 0
    BY <1>3, <1>7 DEF RequestOK, Home
  <1>9. Elements(queue'[n]) = Elements(queue[n]) \cup {r}
    <2>1. \A i \in DOMAIN queue'[n] : queue'[n][i] \in Elements(queue[n]) \cup {r}
      BY <1>5, <1>6 DEF Elements
    <2>2. \A i \in DOMAIN queue[n] : queue[n][i] \in Elements(queue'[n])
      <3> TAKE i \in DOMAIN queue[n]
      <3>1. i \in DOMAIN queue'[n] /\ queue'[n][i] = queue[n][i]
        BY <1>5, <1>6
      <3> QED BY <3>1 DEF Elements
    <2>3. Len(queue[n]) + 1 \in DOMAIN queue'[n] /\ queue'[n][Len(queue[n]) + 1] = r
      BY <1>5, <1>6
    <2> QED BY <2>1, <2>2, <2>3 DEF Elements
  <1>10. OneSlot'
    <2> SUFFICES ASSUME NEW k \in Node, NEW m \in Node,
                        NEW i \in DOMAIN queue'[k], NEW j \in DOMAIN queue'[m],
                        queue'[k][i] = queue'[m][j]
                 PROVE  k = m /\ i = j
      BY DEF OneSlot
    <2>1. \A l \in Node : r \notin Elements(queue[l])
      BY <1>8 DEF Queued
    <2>2. ASSUME NEW l \in Node, NEW h \in DOMAIN queue'[l]
          PROVE  \/ h \in DOMAIN queue[l] /\ queue'[l][h] = queue[l][h] /\ queue'[l][h] # r
                 \/ l = n /\ h = Len(queue[n]) + 1 /\ queue'[l][h] = r
      <3>1. h \in DOMAIN queue[l] => queue[l][h] # r
        BY <2>1 DEF Elements
      <3>2. CASE l # n
        BY <1>6, <3>1, <3>2
      <3>3. CASE l = n
        <4>0. h \in 1 .. (Len(queue[n]) + 1)
          BY <1>5, <1>6, <3>3
        <4>1. h \in DOMAIN queue[n] \/ h = Len(queue[n]) + 1
          BY <1>5, <4>0
        <4> QED BY <1>5, <1>6, <3>1, <3>3, <4>1
      <3> QED BY <3>2, <3>3
    <2>3. \/ i \in DOMAIN queue[k] /\ queue'[k][i] = queue[k][i] /\ queue'[k][i] # r
          \/ k = n /\ i = Len(queue[n]) + 1 /\ queue'[k][i] = r
      BY <2>2
    <2>4. \/ j \in DOMAIN queue[m] /\ queue'[m][j] = queue[m][j] /\ queue'[m][j] # r
          \/ m = n /\ j = Len(queue[n]) + 1 /\ queue'[m][j] = r
      BY <2>2
    <2>5. CASE queue'[k][i] = r
      BY <2>3, <2>4, <2>5
    <2>6. CASE queue'[k][i] # r
      BY <2>3, <2>4, <2>6 DEF OneSlot
    <2> QED BY <2>5, <2>6
  <1>11. /\ ThreadTypeOK' /\ ShapesOK' /\ thread'[t] = Idle
         /\ \A u \in Thread : u # t => thread'[u] = thread[u]
    BY <1>2, IdleOK, ThreadMoves DEF TypeOK
  <1>12. /\ client' \in [Request -> {"new", "sent", "refused", "waiting", "delivered", "gone", "unknown"}]
         /\ client'[r] = "waiting" /\ \A q \in Request \ {r} : client'[q] = client[q]
    BY <1>2, <1>3 DEF TypeOK, RequestTypeOK
  <1>13. TypeOK'
    BY <1>2, <1>6, <1>11, <1>12
       DEF TypeOK, RegistryTypeOK, LifecycleTypeOK, LedgerTypeOK, RequestTypeOK, registry, ledger
  <1>14. \A u \in Thread, q \in Request : Held(u, q)' <=> Held(u, q) /\ u # t
    BY <1>11, IdleOK DEF Held
  <1>15. \A q \in Request : /\ InHand(q)' <=> InHand(q) /\ q # r
                            /\ Queued(queue, q)' <=> Queued(queue, q) \/ q = r
                            /\ HandedOut(q)' <=> HandedOut(q)
                            /\ Flying(in_flight, q)' <=> Flying(in_flight, q)
                            /\ Terminal(q)' <=> Terminal(q)
    <2>1. \A q \in Request : Held(t, q) => q = r
      BY <1>1 DEF Held
    <2>2. \A q \in Request : InHand(q)' <=> InHand(q) /\ q # r
      BY <1>3, <1>7, <1>14, <2>1 DEF InHand, OneHand
    <2>3. \A q \in Request : Queued(queue, q)' <=> Queued(queue, q) \/ q = r
      BY <1>3, <1>6, <1>9 DEF Queued
    <2>4. \A q \in Request : /\ HandedOut(q)' <=> HandedOut(q)
                             /\ Flying(in_flight, q)' <=> Flying(in_flight, q)
                             /\ Terminal(q)' <=> Terminal(q)
      BY <1>2 DEF HandedOut, Flying, Terminal, ledger
    <2> QED BY <2>2, <2>3, <2>4
  <1>16. OneHand' /\ OneOwner' /\ EnqueueRegistered'
    <2>1. \A u \in Thread : At(u, "enqueue") /\ u # t =>
             thread[u].req \in Request /\ thread[u].req # r
      BY <1>3, <1>7 DEF ShapesOK, ShapeOf, At, OneHand, Held
    <2>2. EnqueueRegistered'
      BY <1>2, <1>11, <1>12, <2>1, IdleOK DEF EnqueueRegistered, At, Registered, registry
    <2> QED BY <1>2, <1>14, <2>2 DEF OneHand, OneOwner
  <1>17. \A u \in Thread : Submitting(u) => thread[u].req \in Request /\ thread[u].req # r
    BY <1>8 DEF Submitting, ShapesOK, ShapeOf, SubmitsOnce
  <1>18. SubmitsOnce'
    BY <1>2, <1>11, <1>12, <1>17, IdleOK DEF SubmitsOnce, Submitting
  <1>19. WorkAtRegisteredNodes'
    BY <1>2, <1>3, <1>6 DEF WorkAtRegisteredNodes, Registered, registry
  <1>20. \A q \in Request \ {r} : Untouched(q)
    BY <1>2, <1>12, <1>15 DEF Untouched, ledger
  <1>21. RequestOK(r)'
    BY <1>2, <1>3, <1>8, <1>12, <1>15 DEF RequestOK, Home, ledger
  <1>22. IInv' /\ \A q \in Request \ {r} : StageMove(q)
    BY <1>2, <1>3, <1>8, <1>10, <1>11, <1>12, <1>13, <1>16, <1>18, <1>19, <1>20, <1>21, MoveStep
  <1>23. Stage(r)' = Stage(r) /\ NoRecord(r)
    BY <1>2, <1>3, <1>7, <1>15 DEF Stage, Owned, NoRecord
  <1>24. Told(r)' = Told(r)
    BY <1>1, <1>2, <1>12 DEF Told, EnqueueRegistered
  <1> QED BY <1>2, <1>3, <1>22, <1>23, <1>24, OneStage, StillInFlight DEF StepOK
\* Admit: the request is pending in the thread's hands, or refused.
LEMMA AdmitStep ==
    ASSUME IInv, NEW t \in Thread, Admit(t)
    PROVE  StepOK
  <1> USE DEF IInv, Consistent
  <1> DEFINE n == thread[t].node
  <1>1. PICK r : r = thread[t].req
    OBVIOUS
  <1>2. /\ At(t, "admit") /\ ServerLockFree
        /\ UNCHANGED <<now, registry, queue, in_flight, progress, ledger, tombstones,
                       responses, work>>
    BY DEF Admit
  <1>3. /\ n \in Node /\ r \in Request /\ thread[t].op = "submit" /\ Submitting(t)
        /\ thread[t] \in ThreadRecord
    BY <1>1, <1>2, ThreadType DEF At, ShapesOK, ShapeOf, Submitting
  <1>4. client[r] = "sent" /\ deadline[r] = 0
    BY <1>1, <1>3 DEF SubmitsOnce
  <1>5. /\ ~Home(r) /\ r \notin responses /\ ~HandedOut(r) /\ r \notin pending
    BY <1>3, <1>4 DEF RequestOK
  <1>6. \A u \in Thread : u # t /\ Submitting(u) => thread[u].req \in Request /\ thread[u].req # r
    BY <1>1, <1>3 DEF SubmitsOnce, ShapesOK, ShapeOf, Submitting
  <1>7. OwnersTold
    BY <1>2, StillInFlight
  <1>8. /\ RegistryTypeOK' /\ LedgerTypeOK' /\ outcomes' = outcomes
        /\ \A q \in Request : Terminal(q)' <=> Terminal(q)
    BY <1>2 DEF TypeOK, RegistryTypeOK, LedgerTypeOK, Terminal, registry, ledger
  <1>9. OneSlot' /\ OneOwner' /\ WorkAtRegisteredNodes'
    BY <1>2 DEF OneSlot, OneOwner, WorkAtRegisteredNodes, Registered, registry
  <1>10. CASE ~Registered(n)
    <2>1. /\ client' = [client EXCEPT ![r] = "refused"] /\ thread' = [thread EXCEPT ![t] = Idle]
          /\ UNCHANGED <<pending, deadline>>
      BY <1>1, <1>10 DEF Admit, Return
    <2>2. /\ ThreadTypeOK' /\ ShapesOK' /\ thread'[t] = Idle
          /\ \A u \in Thread : u # t => thread'[u] = thread[u]
      BY <2>1, IdleOK, ThreadMoves DEF TypeOK
    <2>3. /\ client' \in [Request -> {"new", "sent", "refused", "waiting", "delivered", "gone", "unknown"}]
          /\ client'[r] = "refused" /\ \A q \in Request \ {r} : client'[q] = client[q]
      BY <1>3, <2>1 DEF TypeOK, RequestTypeOK
    <2>4. TypeOK'
      BY <1>2, <1>8, <2>1, <2>2, <2>3 DEF TypeOK, LifecycleTypeOK, RequestTypeOK
    <2>5. ClientMoves
      BY <1>4, <2>3 DEF ClientMoves
    <2>6. SubmitsOnce'
      BY <1>6, <2>1, <2>2, <2>3, IdleOK DEF SubmitsOnce, Submitting
    <2>7. Ended({})
      BY <1>2, <2>1, NothingEnds DEF TypeOK, LifecycleTypeOK
    <2>8. \A u \in Thread, q \in Request : Held(u, q)' <=> Held(u, q)
      BY <1>2, <2>2, IdleOK DEF Held, At
    <2>9. \A u \in Thread : ~At(u, "enqueue")'
      BY <1>2, <2>2, IdleOK DEF At, ServerLockFree
    <2>10. Settles({})
      BY <1>8, NothingSettled
    <2>11. IInv' /\ StageStep
      BY <1>2, <2>1, <2>2, <2>4, <2>5, <2>6, <2>7, <2>8, <2>9, <2>10, EndingStep DEF registry
    <2> QED BY <1>7, <2>11 DEF StepOK
  <1>11. CASE Registered(n)
    <2> DEFINE x == [thread[t] EXCEPT !.pc = "enqueue"]
    <2>1. /\ pending' = pending \cup {r}
          /\ deadline' = [deadline EXCEPT ![r] = now + DeadlineSeconds]
          /\ thread' = [thread EXCEPT ![t] = x] /\ client' = client
      BY <1>1, <1>11 DEF Admit, MarkPending, Goto
    <2>2. /\ x \in ThreadRecord /\ x.pc = "enqueue" /\ x.req = r /\ x.op = "submit" /\ x.node = n
      BY <1>1, <1>3 DEF ThreadRecord, Pc
    <2> HIDE DEF x
    <2>3. ShapeOf(x)
      BY <1>3, <2>2 DEF ShapeOf
    <2>4. /\ ThreadTypeOK' /\ ShapesOK' /\ thread'[t] = x
          /\ \A u \in Thread : u # t => thread'[u] = thread[u]
      BY <2>1, <2>2, <2>3, ThreadMoves DEF TypeOK
    <2>5. /\ deadline' \in [Request -> Time] /\ deadline'[r] > 0
          /\ \A q \in Request \ {r} : deadline'[q] = deadline[q]
      BY <1>3, <2>1, Periods DEF TypeOK, RegistryTypeOK, RequestTypeOK, Time
    <2>6. TypeOK'
      BY <1>2, <1>3, <1>8, <2>1, <2>4, <2>5 DEF TypeOK, LifecycleTypeOK, RequestTypeOK
    <2>7. \A u \in Thread, q \in Request : Held(u, q)' <=> Held(u, q) \/ (u = t /\ q = r)
      BY <1>2, <2>2, <2>4 DEF Held, At
    <2>8. \A q \in Request : /\ InHand(q)' <=> InHand(q) \/ q = r
                             /\ Queued(queue, q)' <=> Queued(queue, q)
                             /\ HandedOut(q)' <=> HandedOut(q)
                             /\ Flying(in_flight, q)' <=> Flying(in_flight, q)
      <3>1. \A q \in Request : InHand(q)' <=> InHand(q) \/ q = r
        BY <2>7 DEF InHand
      <3> QED BY <1>2, <3>1 DEF HandedOut, Flying, Queued
    <2>9. OneHand'
      BY <1>5, <2>7 DEF OneHand, Home, InHand
    <2>10. EnqueueRegistered'
      BY <1>2, <1>4, <1>11, <2>1, <2>2, <2>4
         DEF EnqueueRegistered, ServerLockFree, At, Registered, registry
    <2>11. SubmitsOnce'
      BY <1>6, <2>1, <2>2, <2>4, <2>5 DEF SubmitsOnce, Submitting
    <2>12. \A q \in Request \ {r} : Untouched(q)
      BY <1>2, <1>8, <2>1, <2>5, <2>8 DEF Untouched
    <2>13. RequestOK(r)'
      BY <1>2, <1>3, <1>4, <1>5, <1>8, <2>1, <2>5, <2>8 DEF RequestOK, Home
    <2>14. IInv' /\ \A q \in Request \ {r} : StageMove(q)
      BY <1>2, <1>3, <1>4, <1>5, <1>9, <2>1, <2>4, <2>6, <2>9, <2>10, <2>11, <2>12, <2>13, MoveStep
    <2>15. Stage(r) = "absent" /\ Stage(r)' = "pending"
      <3>1. deadline'[r] # 0
        BY <1>3, <2>5 DEF Time
      <3> QED BY <1>2, <1>4, <1>5, <2>1, <3>1 DEF Stage
    <2>16. Told(r)' = Told(r) /\ NoRecord(r)
      BY <1>3, <1>8, <2>1 DEF Told, NoRecord
    <2> QED BY <1>3, <1>7, <2>14, <2>15, <2>16, OneStage DEF StepOK
  <1> QED BY <1>10, <1>11
--------------------------------------------------------------------------------
(* The theorems                                                            *)

\* The relay starts with empty tables and idle threads.
LEMMA InitIInv == Init => IInv
  <1> SUFFICES ASSUME Init PROVE IInv
    OBVIOUS
  <1> USE DEF Init
  <1>1. Idle \in ThreadRecord /\ ShapeOf(Idle) /\ Idle.pc = "idle" /\ Idle.op = "none"
    BY IdleOK
  <1>2. IsMap(Empty, Node) /\ IsMap(Empty, Request) /\ IsMap(Empty, Node \X Request)
        /\ \A R : Values(Empty, R)
    BY DEF Empty, IsMap, Values
  <1>3. DOMAIN Empty = {}
    BY DEF Empty
  <1>4. TypeOK
    <2>1. <<>> \in Seq(Request)
      OBVIOUS
    <2>2. RegistryTypeOK /\ LedgerTypeOK /\ RequestTypeOK /\ ThreadTypeOK
      BY <1>1, <1>2 DEF RegistryTypeOK, LedgerTypeOK, RequestTypeOK, ThreadTypeOK, Time
    <2>3. LifecycleTypeOK
      BY <1>2, <2>1 DEF LifecycleTypeOK
    <2> QED BY <2>2, <2>3 DEF TypeOK
  <1>5. \A t \in Thread : thread[t] = Idle
    OBVIOUS
  <1>6. \A r \in Request : ~Queued(queue, r) /\ ~InHand(r) /\ ~Flying(in_flight, r) /\ ~HandedOut(r)
    BY <1>1, <1>3, <1>5 DEF Queued, Elements, InHand, Held, Flying, HandedOut
  <1>7. \A r \in Request : RequestOK(r)
    BY <1>3, <1>6 DEF RequestOK, Home
  <1>8. OneSlot /\ OneHand /\ OneOwner
    BY <1>1, <1>3, <1>5 DEF OneSlot, OneHand, Held, OneOwner
  <1>9. ShapesOK /\ EnqueueRegistered /\ SubmitsOnce
    BY <1>1, <1>5 DEF ShapesOK, EnqueueRegistered, At, SubmitsOnce, Submitting
  <1>10. WorkAtRegisteredNodes /\ CompletedNotTerminal
    BY <1>3 DEF WorkAtRegisteredNodes, CompletedNotTerminal
  <1> QED BY <1>4, <1>7, <1>8, <1>9, <1>10 DEF IInv, Consistent

\* Every step of the relay keeps the invariant, tells owners, and is a step of
\* the abstract lifecycle or none.
LEMMA NextStepOK ==
    ASSUME IInv, Next
    PROVE  StepOK
  <1>1. ASSUME NEW t \in Thread, Step(t) PROVE StepOK
    BY <1>1, EvictStep, HeartbeatStep, PopStep, DropOverdueStep, ClaimStep, InsertStep,
       AdmitStep, EnqueueStep, SettleStep, CancelRequestStep, ControlStep DEF Step
  <1>2. ASSUME NEW t \in Thread, NEW n \in Node, PollCall(t, n) PROVE StepOK
    BY <1>2, CallStep DEF PollCall
  <1>3. ASSUME NEW t \in Thread, NEW k \in work, ControlCall(t, k) PROVE StepOK
    <2>1. k[1] \in Node /\ k[2] \in Request /\ k[3] \in Nat
      BY DEF IInv, TypeOK, RequestTypeOK
    <2> QED BY <1>3, <2>1, CallStep DEF ControlCall
  <1> QED BY <1>1, <1>2, <1>3, SubmitCallStep, CancelLookupStep, RetrieveStep, RegisterStep,
         UnregisterStep, ResponseStep, ProgressStep, TickStep DEF Next

\* A stuttering step changes nothing.
LEMMA StutterOK ==
    ASSUME IInv, UNCHANGED vars
    PROVE  /\ IInv'
           /\ \A r \in Request : /\ Stage(r)' = Stage(r) /\ Told(r)' = Told(r)
                                 /\ Terminal(r)' <=> Terminal(r)
  BY DEF vars, registry, lifecycle, ledger, IInv, Consistent, TypeOK, RegistryTypeOK,
         LifecycleTypeOK, LedgerTypeOK, RequestTypeOK, ThreadTypeOK, OneSlot, OneHand, OneOwner,
         RequestOK, Home, Queued, InHand, Held, Flying, HandedOut, ShapesOK, EnqueueRegistered,
         At, Registered, SubmitsOnce, Submitting, WorkAtRegisteredNodes, CompletedNotTerminal,
         Terminal, Stage, Owned, Told

\* The inductive invariant holds in every reachable state.
THEOREM Invariance == Spec => []IInv
  <1>1. IInv /\ [Next]_vars => IInv'
    BY NextStepOK, StutterOK DEF StepOK
  <1> QED BY InitIInv, <1>1, PTL DEF Spec

\* The tables of relay.py agree at every step, for every number of nodes, requests
\* and threads: each request is in one place, work waits only at registered nodes,
\* and no request is both answered and terminal.
THEOREM TablesAgree == Spec => []RecordsAgree
  <1>1. IInv => RecordsAgree
    BY DEF IInv, Consistent, RecordsAgree, OneHome, RequestOK, Home
  <1> QED BY <1>1, Invariance, PTL

\* Whatever races, a pending request is queued, in a thread's hands or in flight.
THEOREM NothingStranded == Spec => []NoStrandedRequest
  <1>1. IInv => NoStrandedRequest
    BY DEF IInv, Consistent, TypeOK, LifecycleTypeOK, NoStrandedRequest, RequestOK, Home
  <1> QED BY <1>1, Invariance, PTL

\* Whoever loses an in-flight entry posted the response or finds a stop
\* instruction with the credential of its registration.
THEOREM OwnersAreTold == Spec => OwnerIsTold
  <1>1. IInv /\ [Next]_vars => [OwnersTold]_vars
    BY NextStepOK DEF StepOK
  <1>2. [OwnersTold]_vars <=> [\A n \in Node : \A r \in DOMAIN in_flight[n] :
         r \in DOMAIN in_flight'[n] \/ Response(r)
         \/ /\ <<n, r>> \in DOMAIN tombstones'
            /\ tombstones'[<<n, r>>].cred = known_servers[n].cred
            /\ tombstones'[<<n, r>>].expires > now]_vars
    BY DEF OwnersTold
  <1> QED BY <1>1, <1>2, Invariance, PTL DEF Spec, OwnerIsTold

\* A move in terms of Stage, Told and Terminal is a move of the abstract lifecycle.
LEMMA MovesRefine ==
    ASSUME StageStep
    PROVE  Lifecycle!Next
  <1> SUFFICES ASSUME NEW r \in Request PROVE Lifecycle!Move(r)
    BY DEF Lifecycle!Next
  <1>1. StageMove(r)
    BY DEF StageStep
  <1>2. /\ [x \in Request |-> Stage(x)][r] = Stage(r)
        /\ [x \in Request |-> Stage(x)]'[r] = Stage(r)'
        /\ [x \in Request |-> Told(x)][r] = Told(r)
        /\ [x \in Request |-> Told(x)]'[r] = Told(r)'
        /\ r \in {x \in Request : Terminal(x)} <=> Terminal(r)
        /\ r \in {x \in Request : Terminal(x)}' <=> Terminal(r)'
    OBVIOUS
  <1> QED BY <1>1, <1>2 DEF StageMove, MoveTo, Hears, Truth, NoRecord, Lifecycle!Move,
         Lifecycle!Admit, Lifecycle!Answer, Lifecycle!Take, Lifecycle!End, Lifecycle!LetGo,
         Lifecycle!Stay, Lifecycle!Hears, Lifecycle!Truth, Lifecycle!NoNewRecord

\* The handlers implement the abstract lifecycle, for every number of nodes, requests
\* and threads: a request is admitted once, answered at most once and never against
\* an unexpired terminal record; every other end of a pending request leaves such a
\* record; and what is over never comes back.
THEOREM RefinesLifecycle == Spec => ImplementsLifecycle
  <1>1. Init => Lifecycle!Init
    <2> SUFFICES ASSUME Init PROVE Lifecycle!Init
      OBVIOUS
    <2>1. \A r \in Request : Stage(r) = "absent" /\ Told(r) = "nothing" /\ ~Terminal(r)
      BY DEF Init, Stage, Told, Terminal, Empty
    <2> QED BY <2>1 DEF Lifecycle!Init
  <1>2. IInv /\ [Next]_vars => [Lifecycle!Next]_(Lifecycle!vars)
    <2>1. ASSUME IInv, Next PROVE Lifecycle!Next
      BY <2>1, NextStepOK, MovesRefine DEF StepOK
    <2>2. ASSUME IInv, UNCHANGED vars PROVE UNCHANGED Lifecycle!vars
      BY <2>2, StutterOK DEF Lifecycle!vars
    <2> QED BY <2>1, <2>2
  <1> QED BY <1>1, <1>2, Invariance, PTL DEF Spec, ImplementsLifecycle, Lifecycle!Spec
================================================================================
