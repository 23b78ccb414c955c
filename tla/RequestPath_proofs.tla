--------------------------- MODULE RequestPath_proofs ---------------------------
(***************************************************************************)
(* Proofs about the stations of a request outside the compute node         *)
(* (RequestPath): the relay's legacy and streaming routes (RelayLegacy),   *)
(* the chat endpoint (ChatRequest), the relay's choice of a node           *)
(* (RelaySelection), the rate limiter (ControlPlaneLimiter) and the client *)
(* of a streamed completion (ChatStream), for every value of the constants *)
(* that a hypothesis allows, and every bound.  The stations share no       *)
(* state: each invariant is of one station, and a step of the composition  *)
(* is a step of that station or leaves it alone.                           *)
(***************************************************************************)
EXTENDS RequestPath, ListFilter_proofs, SequenceTheorems, FunctionTheorems, FiniteSetTheorems,
        WellFoundedInduction, TLAPS
--------------------------------------------------------------------------------
(* The stations of the composition                                         *)

\* Every station starts in one of its initial states.
LEMMA StationsStart ==
    Init => Limiter!Init /\ Chat!Init /\ Selection!Init /\ Legacy!Init /\ Stream!Init
  BY DEF Init

\* A step of the composition is a step of the limiter or leaves it alone.
LEMMA LimiterSteps == [Next]_vars => [Limiter!Next]_Limiter!vars
  BY DEF Next, vars, LimiterStep, ChatStep, SelectionStep, LegacyStep, StreamStep,
         limiterVars, Limiter!vars

\* A step of the composition is a step of the chat endpoint or leaves it alone.
LEMMA ChatSteps == [Next]_vars => [Chat!Next]_Chat!vars
  BY DEF Next, vars, LimiterStep, ChatStep, SelectionStep, LegacyStep, StreamStep,
         chatVars, Chat!vars, Chat!call, Chat!link

\* A step of the composition is a step of the selection or leaves it alone.
LEMMA SelectionSteps == [Next]_vars => [Selection!Next]_Selection!vars
  BY DEF Next, vars, LimiterStep, ChatStep, SelectionStep, LegacyStep, StreamStep,
         selectionVars, Selection!vars, Selection!load, Selection!cursors

\* A step of the composition is a step of the legacy routes or leaves it alone.
LEMMA LegacySteps == [Next]_vars => [Legacy!Next]_Legacy!vars
  BY DEF Next, vars, LimiterStep, ChatStep, SelectionStep, LegacyStep, StreamStep,
         legacyVars, Legacy!vars, Legacy!stream, Legacy!ids

\* A step of the composition is a step of the streamed completion or leaves it alone.
LEMMA StreamSteps == [Next]_vars => [Stream!Next]_Stream!vars
  BY DEF Next, vars, LimiterStep, ChatStep, SelectionStep, LegacyStep, StreamStep,
         streamVars, Stream!vars, Stream!client
--------------------------------------------------------------------------------
(* RelayLegacy: the inductive invariant                                    *)

LegacyRequest == [id : Nat, client : Client, kind : {"plain", "stream", "e2ee"}]
PostedRequest == [server : Server, req : LegacyRequest]
Session == [server : Server, client : Client, chunks : Nat, open : BOOLEAN]

LegacyTypeOK ==
    /\ items \in Nat /\ queue \in [Server -> Seq(LegacyRequest)]
    /\ posting \subseteq PostedRequest /\ node \subseteq PostedRequest
    /\ \A id \in DOMAIN sessions : id \in Nat /\ sessions[id] \in Session

Ids(q) == {q[i].id : i \in DOMAIN q}
PostingIds == {p.req.id : p \in posting}
Distinct(q) == \A i, j \in DOMAIN q : q[i].id = q[j].id => i = j

\* A request waits in one place, once, and has no session while it waits; ids not yet
\* handed out are nowhere.
WaitingOK ==
    /\ \A s \in Server : Distinct(queue[s])
    /\ \A s, u \in Server : s # u => Ids(queue[s]) \cap Ids(queue[u]) = {}
    /\ \A p, q \in posting : p.req.id = q.req.id => p = q
    /\ \A s \in Server : Ids(queue[s]) \cap (PostingIds \cup DOMAIN sessions) = {}
    /\ PostingIds \cap DOMAIN sessions = {}
HandedOut ==
    /\ \A s \in Server : \A id \in Ids(queue[s]) : id <= items
    /\ \A id \in PostingIds \cup DOMAIN sessions : id <= items

\* The tables of sessions agree, and no client is sent to the session of another.
SessionsOK ==
    /\ Legacy!SessionsReachable
    /\ \A c \in DOMAIN byClient : sessions[byClient[c]].client = c

LegacyInv == LegacyTypeOK /\ WaitingOK /\ HandedOut /\ SessionsOK
--------------------------------------------------------------------------------
(* RelayLegacy: the lists of requests                                      *)

\* Appending a request with an id of its own.
LEMMA AppendIds ==
    ASSUME NEW q \in Seq(LegacyRequest), NEW r \in LegacyRequest, r.id \notin Ids(q), Distinct(q)
    PROVE  /\ Append(q, r) \in Seq(LegacyRequest)
           /\ Distinct(Append(q, r)) /\ Ids(Append(q, r)) = Ids(q) \cup {r.id}
  <1> DEFINE a == Append(q, r)
  <1>1. /\ a \in Seq(LegacyRequest) /\ DOMAIN q = 1 .. Len(q) /\ DOMAIN a = 1 .. (Len(q) + 1)
        /\ Len(q) \in Nat
        /\ \A i \in 1 .. Len(q) : a[i] = q[i]
        /\ a[Len(q) + 1] = r
    OBVIOUS
  <1> HIDE DEF a
  <1>2. \A i \in DOMAIN a : i \in DOMAIN q \/ i = Len(q) + 1
    BY <1>1
  <1>3. Ids(a) = Ids(q) \cup {r.id}
    <2>1. ASSUME NEW x \in Ids(a) PROVE x \in Ids(q) \cup {r.id}
      <3>1. PICK i \in DOMAIN a : x = a[i].id
        BY DEF Ids
      <3> QED BY <1>1, <1>2, <3>1 DEF Ids
    <2>2. ASSUME NEW x \in Ids(q) PROVE x \in Ids(a)
      <3>1. PICK i \in DOMAIN q : x = q[i].id
        BY DEF Ids
      <3>2. i \in DOMAIN a /\ a[i] = q[i]
        BY <1>1
      <3> QED BY <3>1, <3>2 DEF Ids
    <2>3. r.id \in Ids(a)
      <3>1. Len(q) + 1 \in DOMAIN a
        BY <1>1
      <3> QED BY <1>1, <3>1 DEF Ids
    <2> QED BY <2>1, <2>2, <2>3
  <1>4. Distinct(a)
    <2> SUFFICES ASSUME NEW i \in DOMAIN a, NEW j \in DOMAIN a, a[i].id = a[j].id PROVE i = j
      BY DEF Distinct
    <2>1. CASE i \in DOMAIN q /\ j \in DOMAIN q
      BY <1>1, <2>1 DEF Distinct
    <2>2. CASE i = Len(q) + 1 /\ j \in DOMAIN q
      BY <1>1, <2>2 DEF Ids
    <2>3. CASE j = Len(q) + 1 /\ i \in DOMAIN q
      BY <1>1, <2>3 DEF Ids
    <2> QED BY <1>2, <2>1, <2>2, <2>3
  <1> QED BY <1>1, <1>3, <1>4 DEF a

\* A part of a list of requests: its requests are requests of the list, each once.
Within(part, q) ==
    /\ part \in Seq(LegacyRequest) /\ Ids(part) \subseteq Ids(q)
    /\ Distinct(q) => Distinct(part)

\* A window on a list.
LEMMA SubSeqWithin ==
    ASSUME NEW q \in Seq(LegacyRequest), NEW m \in 1 .. (Len(q) + 1), NEW n \in 0 .. Len(q)
    PROVE  Within(SubSeq(q, m, n), q)
  <1> DEFINE a == SubSeq(q, m, n)
  <1>1. /\ a \in Seq(LegacyRequest) /\ DOMAIN q = 1 .. Len(q) /\ Len(q) \in Nat
        /\ DOMAIN a = 1 .. Len(a)
        /\ Len(a) = IF m <= n THEN n - m + 1 ELSE 0
        /\ \A i \in 1 .. Len(a) : a[i] = q[m + i - 1]
    OBVIOUS
  <1> HIDE DEF a
  <1>2. \A i \in DOMAIN a : m + i - 1 \in DOMAIN q /\ a[i] = q[m + i - 1] /\ i \in Int
    BY <1>1
  <1>3. Ids(a) \subseteq Ids(q)
    BY <1>2 DEF Ids
  <1>4. Distinct(q) => Distinct(a)
    <2> SUFFICES ASSUME Distinct(q), NEW i \in DOMAIN a, NEW j \in DOMAIN a, a[i].id = a[j].id
                 PROVE  i = j
      BY DEF Distinct
    <2>1. m + i - 1 = m + j - 1
      BY <1>2 DEF Distinct
    <2> QED BY <1>2, <2>1
  <1> QED BY <1>1, <1>3, <1>4 DEF a, Within

\* The instance's filter is the library's.
LEMMA LegacyEntries == \A q, K : Legacy!EntriesAt(q, K) = EntriesAt(q, K)
  BY DEF Legacy!EntriesAt, EntriesAt, Legacy!Rank, Rank, Legacy!Cardinality, Cardinality

\* Some entries of a list, in order.
LEMMA EntriesWithin ==
    ASSUME NEW q \in Seq(LegacyRequest), NEW K \in SUBSET DOMAIN q
    PROVE  Within(EntriesAt(q, K), q)
  <1> DEFINE w == EntriesAt(q, K)
  <1>1. /\ w \in Seq(LegacyRequest) /\ Elements(w) = {q[i] : i \in K}
        /\ (\A i, j \in DOMAIN q : q[i] = q[j] => i = j) =>
              \A i, j \in DOMAIN w : w[i] = w[j] => i = j
    BY EntriesAtFacts
  <1> HIDE DEF w
  <1>2. \A i \in DOMAIN w : \E k \in DOMAIN q : w[i] = q[k]
    BY <1>1 DEF Elements
  <1>3. Ids(w) \subseteq Ids(q)
    BY <1>2 DEF Ids
  <1>4. Distinct(q) => Distinct(w)
    <2> SUFFICES ASSUME Distinct(q), NEW i \in DOMAIN w, NEW j \in DOMAIN w, w[i].id = w[j].id
                 PROVE  i = j
      BY DEF Distinct
    <2>1. PICK k, l \in DOMAIN q : w[i] = q[k] /\ w[j] = q[l]
      BY <1>2
    <2>2. w[i] = w[j]
      BY <2>1 DEF Distinct
    <2> QED BY <1>1, <2>2 DEF Distinct
  <1> QED BY <1>1, <1>3, <1>4 DEF w, Within

--------------------------------------------------------------------------------
(* RelayLegacy: the kinds of steps                                         *)

\* Queues lose entries and sessions come and go; the ids N of new sessions left the queues.
LEMMA TablesStep ==
    ASSUME LegacyInv, NEW N,
           queue' \in [Server -> Seq(LegacyRequest)],
           \A u \in Server : Within(queue'[u], queue[u]) /\ Ids(queue'[u]) \cap N = {},
           N \cap PostingIds = {}, \A id \in N : id <= items,
           UNCHANGED <<posting, items>>, node' \subseteq PostedRequest,
           DOMAIN sessions' \subseteq DOMAIN sessions \cup N,
           \A id \in DOMAIN sessions' : id \in Nat /\ sessions'[id] \in Session,
           SessionsOK'
    PROVE  LegacyInv'
  <1>1. LegacyTypeOK'
    BY DEF LegacyInv, LegacyTypeOK
  <1>2. PostingIds' = PostingIds
    BY DEF PostingIds
  <1>3. \A u \in Server : Ids(queue'[u]) \subseteq Ids(queue[u]) /\ Ids(queue'[u]) \cap N = {}
    BY DEF Within
  <1>4. \A u \in Server : Distinct(queue'[u])
    BY DEF LegacyInv, WaitingOK, Within
  <1>5. WaitingOK'
    BY <1>2, <1>3, <1>4 DEF LegacyInv, WaitingOK
  <1>6. HandedOut'
    BY <1>2, <1>3 DEF LegacyInv, HandedOut
  <1> QED BY <1>1, <1>5, <1>6 DEF LegacyInv

\* Only what the nodes hold, or tables the sessions do not depend on, change.
LEMMA OtherStep ==
    ASSUME LegacyInv, UNCHANGED <<queue, posting, items, sessions, byClient>>,
           node' \subseteq PostedRequest
    PROVE  LegacyInv'
  <1>1. \A u \in Server : queue[u] \in Seq(LegacyRequest)
    BY DEF LegacyInv, LegacyTypeOK
  <1>2. \A u \in Server : Within(queue'[u], queue[u]) /\ Ids(queue'[u]) \cap {} = {}
    BY <1>1 DEF Within
  <1>3. SessionsOK'
    BY DEF LegacyInv, SessionsOK, Legacy!SessionsReachable
  <1> QED BY <1>2, <1>3, TablesStep DEF LegacyInv, LegacyTypeOK

\* A request is put into a queue, out of thin air or from the posting requests.
LEMMA EnqueueStep ==
    ASSUME LegacyInv, NEW s \in Server, NEW r \in LegacyRequest,
           queue' = [queue EXCEPT ![s] = Append(@, r)],
           posting' \subseteq posting, items' \in Nat, items <= items', r.id <= items',
           \A u \in Server : r.id \notin Ids(queue[u]),
           r.id \notin PostingIds', r.id \notin DOMAIN sessions,
           UNCHANGED <<sessions, byClient, node>>
    PROVE  LegacyInv'
  <1>1. queue \in [Server -> Seq(LegacyRequest)] /\ Distinct(queue[s])
    BY DEF LegacyInv, LegacyTypeOK, WaitingOK
  <1>2. /\ queue'[s] = Append(queue[s], r) /\ DOMAIN queue' = Server
        /\ \A u \in Server : u # s => queue'[u] = queue[u]
    BY <1>1
  <1>3. /\ queue'[s] \in Seq(LegacyRequest) /\ Distinct(queue'[s])
        /\ Ids(queue'[s]) = Ids(queue[s]) \cup {r.id}
    BY <1>1, <1>2, AppendIds
  <1>4. LegacyTypeOK'
    <2>1. queue' \in [Server -> Seq(LegacyRequest)]
      BY <1>1, <1>3
    <2> QED BY <2>1 DEF LegacyInv, LegacyTypeOK
  <1>5. PostingIds' \subseteq PostingIds
    BY DEF PostingIds
  <1>6. \A u \in Server : Distinct(queue'[u])
    BY <1>2, <1>3 DEF LegacyInv, WaitingOK
  <1>7. ASSUME NEW u \in Server, NEW x \in Ids(queue'[u])
        PROVE  x \in Ids(queue[u]) \/ (u = s /\ x = r.id)
    <2>1. CASE u = s
      BY <1>3, <2>1
    <2>2. CASE u # s
      <3>1. queue'[u] = queue[u]
        BY <1>2, <2>2
      <3>2. Ids(queue'[u]) = Ids(queue[u])
        BY <3>1
      <3> QED BY <3>2
    <2> QED BY <2>1, <2>2
  <1>8. WaitingOK'
    <2>1. ASSUME NEW u \in Server, NEW v \in Server, u # v, NEW x \in Ids(queue'[u]), x \in Ids(queue'[v])
          PROVE  FALSE
      <3>1. Ids(queue[u]) \cap Ids(queue[v]) = {}
        BY <2>1 DEF LegacyInv, WaitingOK
      <3>2. x \in Ids(queue[u]) \/ (u = s /\ x = r.id)
        BY <1>7
      <3>3. x \in Ids(queue[v]) \/ (v = s /\ x = r.id)
        BY <1>7, <2>1
      <3> QED BY <2>1, <3>1, <3>2, <3>3
    <2>2. ASSUME NEW u \in Server, NEW x \in Ids(queue'[u])
          PROVE  x \notin PostingIds' \cup DOMAIN sessions
      <3>1. x \in Ids(queue[u]) \/ x = r.id
        BY <1>7
      <3>2. Ids(queue[u]) \cap (PostingIds \cup DOMAIN sessions) = {}
        BY DEF LegacyInv, WaitingOK
      <3> QED BY <1>5, <3>1, <3>2
    <2>3. PostingIds' \cap DOMAIN sessions = {}
      BY <1>5 DEF LegacyInv, WaitingOK
    <2>4. \A p, q \in posting' : p.req.id = q.req.id => p = q
      BY DEF LegacyInv, WaitingOK
    <2> QED BY <1>6, <2>1, <2>2, <2>3, <2>4 DEF WaitingOK
  <1>9. HandedOut'
    <2>1. \A u \in Server : \A id \in Ids(queue[u]) : id \in Nat
      <3> SUFFICES ASSUME NEW u \in Server, NEW i \in DOMAIN queue[u] PROVE queue[u][i].id \in Nat
        BY DEF Ids
      <3>1. queue[u] \in Seq(LegacyRequest)
        BY <1>1
      <3>2. queue[u][i] \in LegacyRequest
        BY <3>1
      <3> QED BY <3>2 DEF LegacyRequest
    <2>2. \A id \in PostingIds \cup DOMAIN sessions : id \in Nat
      BY DEF LegacyInv, LegacyTypeOK, PostingIds, PostedRequest, LegacyRequest
    <2>3. items \in Nat
      BY DEF LegacyInv, LegacyTypeOK
    <2>4. \A u \in Server : \A id \in Ids(queue'[u]) : id <= items'
      <3> SUFFICES ASSUME NEW u \in Server, NEW id \in Ids(queue'[u]) PROVE id <= items'
        OBVIOUS
      <3>1. CASE id \in Ids(queue[u])
        <4>1. id \in Nat /\ id <= items
          BY <2>1, <3>1 DEF LegacyInv, HandedOut
        <4> QED BY <2>3, <4>1
      <3> QED BY <1>7, <3>1
    <2>5. \A id \in PostingIds \cup DOMAIN sessions : id <= items'
      BY <2>2, <2>3 DEF LegacyInv, HandedOut
    <2> QED BY <1>5, <2>4, <2>5 DEF HandedOut
  <1>10. SessionsOK'
    BY DEF LegacyInv, SessionsOK, Legacy!SessionsReachable
  <1> QED BY <1>4, <1>8, <1>9, <1>10 DEF LegacyInv

\* Registering the streams of a batch: the last one of each client replaces the client's
\* session.
LEMMA RegisterStep ==
    ASSUME LegacyInv, NEW s \in Server, NEW batch \in Seq(LegacyRequest), Distinct(batch),
           Ids(batch) \cap DOMAIN sessions = {}, Legacy!RegisterSessions(batch, s)
    PROVE  /\ DOMAIN sessions' \subseteq DOMAIN sessions \cup Ids(batch)
           /\ \A id \in DOMAIN sessions' : id \in Nat /\ sessions'[id] \in Session
           /\ SessionsOK'
  <1> DEFINE new == {batch[i] : i \in Legacy!Latest(batch)}
             owners == {r.client : r \in new}
             old == {byClient[c] : c \in owners \cap DOMAIN byClient}
             fresh == {r.id : r \in new}
  <1>1. \A i \in Legacy!Latest(batch) : i \in DOMAIN batch /\ i \in Nat
    BY DEF Legacy!Latest
  <1>2. ASSUME NEW r \in new PROVE r \in LegacyRequest /\ r.id \in Ids(batch) /\ r.id \in Nat
    <2>1. PICK i \in DOMAIN batch : r = batch[i]
      BY <1>1
    <2>2. r \in LegacyRequest
      BY <2>1
    <2> QED BY <2>1, <2>2 DEF Ids, LegacyRequest
  <1>3. ASSUME NEW r \in new, NEW v \in new PROVE (r.client = v.client \/ r.id = v.id) => r = v
    <2>1. PICK i \in Legacy!Latest(batch) : r = batch[i]
      OBVIOUS
    <2>2. PICK j \in Legacy!Latest(batch) : v = batch[j]
      OBVIOUS
    <2>3. r.client = v.client => i = j
      <3>1. ~(i < j) \/ r.client # v.client
        BY <2>1, <2>2 DEF Legacy!Latest
      <3>2. ~(j < i) \/ r.client # v.client
        BY <2>1, <2>2 DEF Legacy!Latest
      <3> QED BY <1>1, <3>1, <3>2
    <2>4. r.id = v.id => i = j
      BY <1>1, <2>1, <2>2 DEF Distinct
    <2> QED BY <2>1, <2>2, <2>3, <2>4
  <1>4. /\ sessions' = [id \in (DOMAIN sessions \ old) \cup fresh |->
                           IF \E r \in new : r.id = id
                           THEN Legacy!Open(CHOOSE r \in new : r.id = id, s) ELSE sessions[id]]
        /\ byClient' = [c \in DOMAIN byClient \cup owners |->
                           IF c \in owners THEN (CHOOSE r \in new : r.client = c).id
                           ELSE byClient[c]]
    BY DEF Legacy!RegisterSessions
  <1> HIDE DEF new
  <1>5. ASSUME NEW r \in new
        PROVE  /\ r.id \in DOMAIN sessions' /\ r.client \in DOMAIN byClient'
               /\ sessions'[r.id] = Legacy!Open(r, s) /\ byClient'[r.client] = r.id
    <2>1. (CHOOSE v \in new : v.id = r.id) = r
      BY <1>3
    <2>2. (CHOOSE v \in new : v.client = r.client) = r
      BY <1>3
    <2>3. r.id \in fresh /\ r.client \in owners
      OBVIOUS
    <2>4. sessions'[r.id] = Legacy!Open(CHOOSE v \in new : v.id = r.id, s)
      BY <1>4, <2>3
    <2>5. byClient'[r.client] = (CHOOSE v \in new : v.client = r.client).id
      BY <1>4, <2>3
    <2> QED BY <1>4, <2>1, <2>2, <2>3, <2>4, <2>5
  <1>6. ASSUME NEW r \in new
        PROVE  Legacy!Open(r, s) \in Session /\ Legacy!Open(r, s).client = r.client
    BY <1>2 DEF Legacy!Open, Session, LegacyRequest
  <1>7. ASSUME NEW id \in DOMAIN sessions', id \notin fresh
        PROVE  id \in DOMAIN sessions \ old /\ sessions'[id] = sessions[id]
    BY <1>4, <1>7
  <1>8. ASSUME NEW c \in DOMAIN byClient', c \notin owners
        PROVE  c \in DOMAIN byClient /\ byClient'[c] = byClient[c]
    BY <1>4, <1>8
  <1>9. fresh \cap DOMAIN sessions = {}
    BY <1>2
  <1>10. \A id \in DOMAIN sessions' : id \in Nat /\ sessions'[id] \in Session
    BY <1>2, <1>5, <1>6, <1>7 DEF LegacyInv, LegacyTypeOK
  <1>11. DOMAIN sessions' \subseteq DOMAIN sessions \cup Ids(batch)
    BY <1>2, <1>4
  <1>12. ASSUME NEW id \in DOMAIN sessions'
         PROVE  /\ sessions'[id].client \in DOMAIN byClient'
                /\ byClient'[sessions'[id].client] = id
    <2>1. CASE id \in fresh
      BY <1>5, <1>6, <2>1
    <2>2. CASE id \notin fresh
      <3>1. id \in DOMAIN sessions \ old /\ sessions'[id] = sessions[id]
        BY <1>7, <2>2
      <3>2. /\ sessions[id].client \in DOMAIN byClient
            /\ byClient[sessions[id].client] = id
        BY <3>1 DEF LegacyInv, SessionsOK, Legacy!SessionsReachable
      <3>3. sessions[id].client \notin owners
        BY <3>1, <3>2
      <3> QED BY <1>4, <3>1, <3>2, <3>3
    <2> QED BY <2>1, <2>2
  <1>13. ASSUME NEW c \in DOMAIN byClient'
         PROVE  byClient'[c] \in DOMAIN sessions' /\ sessions'[byClient'[c]].client = c
    <2>1. CASE c \in owners
      BY <1>5, <1>6, <2>1
    <2>2. CASE c \notin owners
      <3>1. c \in DOMAIN byClient /\ byClient'[c] = byClient[c]
        BY <1>8, <2>2
      <3>2. byClient[c] \in DOMAIN sessions /\ sessions[byClient[c]].client = c
        BY <3>1 DEF LegacyInv, SessionsOK, Legacy!SessionsReachable
      <3>3. byClient[c] \notin old
        <4> SUFFICES ASSUME NEW d \in owners \cap DOMAIN byClient, byClient[d] = byClient[c]
                     PROVE  FALSE
          OBVIOUS
        <4>1. sessions[byClient[d]].client = d
          BY DEF LegacyInv, SessionsOK
        <4> QED BY <2>2, <3>2, <4>1
      <3>4. byClient[c] \notin fresh
        BY <1>9, <3>2
      <3>5. byClient[c] \in DOMAIN sessions'
        BY <1>4, <3>2, <3>3
      <3> QED BY <1>7, <3>1, <3>2, <3>4, <3>5
    <2> QED BY <2>1, <2>2
  <1>14. SessionsOK'
    BY <1>12, <1>13 DEF SessionsOK, Legacy!SessionsReachable
  <1> QED BY <1>10, <1>11, <1>14
--------------------------------------------------------------------------------
(* RelayLegacy: the actions                                                *)

\* The last element of a batch that may be taken.
LEMMA BatchEnd ==
    ASSUME NEW S, NEW q \in Seq(S), NEW size \in 1 .. 2, NEW clear,
           clear \subseteq {k \in 0 .. Len(q) : k <= size}, 0 \in clear
    PROVE  Legacy!Max(clear) \in 0 .. Len(q)
  <1>1. Len(q) \in Nat /\ clear \subseteq {0, 1, 2} /\ clear \subseteq 0 .. Len(q)
    OBVIOUS
  <1>2. \E x \in clear : \A y \in clear : x >= y
    <2>1. CASE 2 \in clear
      BY <1>1, <2>1
    <2>2. CASE 2 \notin clear /\ 1 \in clear
      BY <1>1, <2>2
    <2>3. CASE 2 \notin clear /\ 1 \notin clear
      BY <1>1, <2>3
    <2> QED BY <2>1, <2>2, <2>3
  <1>3. Legacy!Max(clear) \in clear
    BY <1>2 DEF Legacy!Max
  <1> QED BY <1>1, <1>3

\* /sink, second step.
LEMMA SinkTakeStep ==
    ASSUME LegacyInv, NEW s \in Server, NEW size \in 1 .. 2, Legacy!SinkTake(s, size)
    PROVE  LegacyInv'
  <1> DEFINE q == queue[s]
             clear == {k \in 0..Len(q) : k <= size /\ \A j \in 1..k : q[j].kind # "e2ee"}
             m == Legacy!Max(clear)
             batch == SubSeq(q, 1, m)
             rest == SubSeq(q, Len(batch) + 1, Len(q))
  <1>1. queue \in [Server -> Seq(LegacyRequest)] /\ q \in Seq(LegacyRequest) /\ Distinct(q)
    BY DEF LegacyInv, LegacyTypeOK, WaitingOK
  <1>2. Len(q) \in Nat /\ 0 \in clear /\ clear \subseteq {k \in 0 .. Len(q) : k <= size}
    BY <1>1
  <1>3. /\ queue' = [queue EXCEPT ![s] = rest]
        /\ node' = node \cup {[server |-> s, req |-> batch[i]] : i \in DOMAIN batch}
        /\ Legacy!RegisterSessions(batch, s)
        /\ UNCHANGED <<posting, items>>
    BY DEF Legacy!SinkTake, Legacy!ids
  <1>4. m \in 0 .. Len(q)
    <2> HIDE DEF clear
    <2> QED BY <1>1, <1>2, BatchEnd
  <1> HIDE DEF m, q
  <1>5. Within(batch, q) /\ Len(batch) = m
    BY <1>1, <1>2, <1>4, SubSeqWithin
  <1>6. Within(rest, q)
    <2>1. m + 1 \in 1 .. (Len(q) + 1) /\ Len(q) \in 0 .. Len(q)
      BY <1>2, <1>4
    <2>2. rest = SubSeq(q, m + 1, Len(q))
      BY <1>5
    <2> QED BY <1>1, <2>1, <2>2, SubSeqWithin
  <1>7. /\ \A i \in DOMAIN batch : i \in DOMAIN q /\ batch[i] = q[i] /\ i \in Int /\ i <= m
        /\ \A i \in DOMAIN rest : i + m \in DOMAIN q /\ rest[i] = q[i + m] /\ i \in Int /\ i > 0
    <2>1. \A i \in DOMAIN batch : i \in DOMAIN q /\ batch[i] = q[i] /\ i \in Int /\ i <= m
      BY <1>1, <1>2, <1>4
    <2>2. rest = SubSeq(q, m + 1, Len(q))
      BY <1>5
    <2>3. \A i \in DOMAIN rest : i + m \in DOMAIN q /\ rest[i] = q[i + m] /\ i \in Int /\ i > 0
      BY <1>1, <1>2, <1>4, <2>2
    <2> QED BY <2>1, <2>3
  <1> HIDE DEF batch, rest
  <1>8. Ids(batch) \cap Ids(rest) = {}
    <2> SUFFICES ASSUME NEW i \in DOMAIN batch, NEW j \in DOMAIN rest, batch[i].id = rest[j].id
                 PROVE  FALSE
      BY DEF Ids
    <2>1. i = j + m
      BY <1>1, <1>7 DEF Distinct
    <2> QED BY <1>4, <1>7, <2>1, <1>2
  <1>9. Distinct(batch) /\ batch \in Seq(LegacyRequest) /\ Ids(batch) \subseteq Ids(queue[s])
    BY <1>1, <1>5 DEF Within, q
  <1>10. /\ Ids(queue[s]) \cap (PostingIds \cup DOMAIN sessions) = {}
         /\ \A id \in Ids(queue[s]) : id <= items
    BY DEF LegacyInv, WaitingOK, HandedOut
  <1>11. /\ DOMAIN sessions' \subseteq DOMAIN sessions \cup Ids(batch)
         /\ \A id \in DOMAIN sessions' : id \in Nat /\ sessions'[id] \in Session
         /\ SessionsOK'
    <2>1. Ids(batch) \cap DOMAIN sessions = {}
      BY <1>9, <1>10
    <2> QED BY <1>3, <1>9, <2>1, RegisterStep
  <1>12. node' \subseteq PostedRequest
    <2>1. \A i \in DOMAIN batch : batch[i] \in LegacyRequest
      BY <1>9
    <2>2. \A i \in DOMAIN batch : [server |-> s, req |-> batch[i]] \in PostedRequest
      BY <2>1 DEF PostedRequest
    <2> QED BY <1>3, <2>2 DEF LegacyInv, LegacyTypeOK
  <1>13. queue' \in [Server -> Seq(LegacyRequest)]
    BY <1>1, <1>3, <1>6 DEF Within
  <1>14. ASSUME NEW u \in Server PROVE Within(queue'[u], queue[u]) /\ Ids(queue'[u]) \cap Ids(batch) = {}
    <2>1. CASE u = s
      <3>1. queue'[u] = rest
        BY <1>1, <1>3, <2>1
      <3> QED BY <1>6, <1>8, <2>1, <3>1 DEF q
    <2>2. CASE u # s
      <3>1. queue'[u] = queue[u]
        BY <1>1, <1>3, <2>2
      <3>2. queue[u] \in Seq(LegacyRequest) /\ Ids(queue[u]) \cap Ids(queue[s]) = {}
        BY <1>1, <2>2 DEF LegacyInv, WaitingOK
      <3>3. Within(queue[u], queue[u]) /\ Ids(queue[u]) \cap Ids(batch) = {}
        BY <1>9, <3>2 DEF Within
      <3> QED BY <3>1, <3>3
    <2> QED BY <2>1, <2>2
  <1>15. Ids(batch) \cap PostingIds = {} /\ \A id \in Ids(batch) : id <= items
    BY <1>9, <1>10
  <1> QED BY <1>3, <1>11, <1>12, <1>13, <1>14, <1>15, TablesStep

\* Only a queue changes, and it loses entries.
LEMMA ShrinkStep ==
    ASSUME LegacyInv, NEW s \in Server, NEW q, Within(q, queue[s]),
           queue' = [queue EXCEPT ![s] = q], UNCHANGED <<posting, items, sessions, byClient>>,
           node' \subseteq PostedRequest
    PROVE  LegacyInv'
  <1>1. queue \in [Server -> Seq(LegacyRequest)]
    BY DEF LegacyInv, LegacyTypeOK
  <1>2. queue' \in [Server -> Seq(LegacyRequest)]
    BY <1>1 DEF Within
  <1>3. ASSUME NEW u \in Server PROVE Within(queue'[u], queue[u]) /\ Ids(queue'[u]) \cap {} = {}
    <2>1. CASE u = s
      <3>1. queue'[u] = q
        BY <1>1, <2>1
      <3> QED BY <2>1, <3>1
    <2>2. CASE u # s
      <3>1. queue'[u] = queue[u] /\ queue[u] \in Seq(LegacyRequest)
        BY <1>1, <2>2
      <3>2. Within(queue[u], queue[u])
        BY <3>1 DEF Within
      <3> QED BY <3>1, <3>2
    <2> QED BY <2>1, <2>2
  <1>4. SessionsOK'
    BY DEF LegacyInv, SessionsOK, Legacy!SessionsReachable
  <1>5. \A id \in DOMAIN sessions' : id \in Nat /\ sessions'[id] \in Session
    BY DEF LegacyInv, LegacyTypeOK
  <1> DEFINE N == {}
  <1>6. /\ \A u \in Server : Within(queue'[u], queue[u]) /\ Ids(queue'[u]) \cap N = {}
        /\ N \cap PostingIds = {} /\ \A id \in N : id <= items
        /\ DOMAIN sessions' \subseteq DOMAIN sessions \cup N
    BY <1>3
  <1> HIDE DEF N
  <1> QED BY <1>2, <1>4, <1>5, <1>6, TablesStep

\* Only the sessions change, and none is new.
LEMMA SessionsStep ==
    ASSUME LegacyInv, UNCHANGED <<queue, posting, items>>, node' \subseteq PostedRequest,
           DOMAIN sessions' \subseteq DOMAIN sessions,
           \A id \in DOMAIN sessions' : sessions'[id] \in Session, SessionsOK'
    PROVE  LegacyInv'
  <1>1. queue \in [Server -> Seq(LegacyRequest)]
    BY DEF LegacyInv, LegacyTypeOK
  <1>2. \A u \in Server : Within(queue'[u], queue[u]) /\ Ids(queue'[u]) \cap {} = {}
    BY <1>1 DEF Within
  <1>3. \A id \in DOMAIN sessions' : id \in Nat
    BY DEF LegacyInv, LegacyTypeOK
  <1> QED BY <1>1, <1>2, <1>3, TablesStep

\* Requests are posted.
LEMMA PostSteps ==
    ASSUME LegacyInv, NEW s \in Server, NEW c \in Client,
           Legacy!Submit(s, c) \/ \E kind \in Legacy!FaucetKinds : Legacy!FaucetCheck(s, c, kind)
    PROVE  LegacyInv'
  <1>1. items \in Nat /\ items + 1 \in Nat /\ items <= items + 1
    BY DEF LegacyInv, LegacyTypeOK
  <1>2. /\ \A u \in Server : items + 1 \notin Ids(queue[u])
        /\ items + 1 \notin PostingIds \cup DOMAIN sessions
    BY <1>1 DEF LegacyInv, HandedOut
  <1>3. CASE Legacy!Submit(s, c)
    <2> DEFINE r == [id |-> items + 1, client |-> c, kind |-> "e2ee"]
    <2>1. /\ queue' = [queue EXCEPT ![s] = Append(@, r)] /\ items' = items + 1
          /\ UNCHANGED <<posting, sessions, byClient, node>>
      BY <1>3 DEF Legacy!Submit, Legacy!Enqueue, Legacy!stream
    <2>2. r \in LegacyRequest /\ r.id = items + 1
      BY <1>1 DEF LegacyRequest
    <2> HIDE DEF r
    <2>3. PostingIds' = PostingIds /\ r.id <= items'
      BY <1>1, <2>1, <2>2 DEF PostingIds
    <2> QED BY <1>1, <1>2, <2>1, <2>2, <2>3, EnqueueStep
  <1>4. ASSUME NEW kind \in Legacy!FaucetKinds, Legacy!FaucetCheck(s, c, kind)
        PROVE  LegacyInv'
    <2> DEFINE p == [server |-> s, req |-> [id |-> items + 1, client |-> c, kind |-> kind]]
    <2>1. /\ items' = items + 1 /\ posting' = posting \cup {p}
          /\ UNCHANGED <<queue, sessions, byClient, node>>
      BY <1>4 DEF Legacy!FaucetCheck, Legacy!stream
    <2>2. p \in PostedRequest /\ p.req.id = items + 1
      BY <1>1 DEF PostedRequest, LegacyRequest, Legacy!FaucetKinds
    <2> HIDE DEF p
    <2>3. PostingIds' = PostingIds \cup {items + 1}
      BY <2>1, <2>2 DEF PostingIds
    <2>4. LegacyTypeOK'
      BY <1>1, <2>1, <2>2 DEF LegacyInv, LegacyTypeOK
    <2>5. \A x \in posting : x.req.id # p.req.id
      BY <1>2, <2>2 DEF PostingIds
    <2>6. WaitingOK'
      BY <1>2, <2>1, <2>3, <2>5 DEF LegacyInv, WaitingOK
    <2>7. HandedOut'
      <3>1. \A u \in Server : \A id \in Ids(queue[u]) : id \in Nat
        <4> SUFFICES ASSUME NEW u \in Server, NEW i \in DOMAIN queue[u] PROVE queue[u][i].id \in Nat
          BY DEF Ids
        <4>1. queue[u] \in Seq(LegacyRequest)
          BY DEF LegacyInv, LegacyTypeOK
        <4>2. queue[u][i] \in LegacyRequest
          BY <4>1
        <4> QED BY <4>2 DEF LegacyRequest
      <3>2. \A id \in PostingIds \cup DOMAIN sessions : id \in Nat
        BY DEF LegacyInv, LegacyTypeOK, PostingIds, PostedRequest, LegacyRequest
      <3>3. \A u \in Server : \A id \in Ids(queue[u]) : id <= items + 1
        <4> SUFFICES ASSUME NEW u \in Server, NEW id \in Ids(queue[u]) PROVE id <= items + 1
          OBVIOUS
        <4>1. id \in Nat /\ id <= items
          BY <3>1 DEF LegacyInv, HandedOut
        <4> QED BY <1>1, <4>1
      <3>4. \A id \in PostingIds \cup DOMAIN sessions : id <= items + 1
        BY <1>1, <3>2 DEF LegacyInv, HandedOut
      <3> QED BY <1>1, <2>1, <2>3, <3>3, <3>4 DEF HandedOut
    <2>8. SessionsOK'
      BY <2>1 DEF LegacyInv, SessionsOK, Legacy!SessionsReachable
    <2> QED BY <2>4, <2>6, <2>7, <2>8 DEF LegacyInv
  <1> QED BY <1>3, <1>4

\* A posted request reaches the queue.
LEMMA AppendStep ==
    ASSUME LegacyInv, NEW p \in posting, Legacy!FaucetAppend(p)
    PROVE  LegacyInv'
  <1>1. p \in PostedRequest /\ p.server \in Server /\ p.req \in LegacyRequest /\ p.req.id \in PostingIds
    BY DEF LegacyInv, LegacyTypeOK, PostedRequest, PostingIds
  <1>2. /\ queue' = [queue EXCEPT ![p.server] = Append(@, p.req)] /\ posting' = posting \ {p}
        /\ UNCHANGED <<items, sessions, byClient, node>>
    BY DEF Legacy!FaucetAppend, Legacy!Enqueue, Legacy!stream, Legacy!ids
  <1>3. p.req.id \notin PostingIds'
    BY <1>2 DEF LegacyInv, WaitingOK, PostingIds
  <1>4. items \in Nat /\ p.req.id <= items
    BY <1>1 DEF LegacyInv, LegacyTypeOK, HandedOut
  <1>5. p.req.id \notin DOMAIN sessions /\ \A u \in Server : p.req.id \notin Ids(queue[u])
    BY <1>1 DEF LegacyInv, WaitingOK
  <1>6. posting' \subseteq posting /\ items' \in Nat /\ items <= items' /\ p.req.id <= items'
    BY <1>2, <1>4
  <1> QED BY <1>1, <1>2, <1>3, <1>5, <1>6, EnqueueStep

\* A node posts a chunk, or a client reads; or the node's sessions go with it.
LEMMA SessionSteps ==
    ASSUME LegacyInv,
           \/ \E w \in node, final \in BOOLEAN : Legacy!StreamSource(w, final)
           \/ \E c \in Client : Legacy!StreamRetrieve(c)
           \/ \E s \in Server : Legacy!UnregisterSessions(s)
    PROVE  LegacyInv'
  <1> USE DEF Legacy!ids
  <1>1. /\ \A id \in DOMAIN sessions : sessions[id] \in Session
        /\ node \subseteq PostedRequest
    BY DEF LegacyInv, LegacyTypeOK
  <1>2. ASSUME NEW w \in node, NEW final \in BOOLEAN, Legacy!StreamSource(w, final)
        PROVE  LegacyInv'
    <2>1. UNCHANGED <<queue, posting, items, byClient>> /\ node' \subseteq PostedRequest
      BY <1>1, <1>2 DEF Legacy!StreamSource
    <2>2. CASE w.req.id \notin DOMAIN sessions
      BY <1>2, <2>1, <2>2, OtherStep DEF Legacy!StreamSource, Legacy!AppendChunk
    <2>3. CASE w.req.id \in DOMAIN sessions
      <3> DEFINE id == w.req.id
                 open == sessions[id].open /\ ~final
                 more == sessions[id].chunks + 1
                 x == [sessions[id] EXCEPT !.chunks = more, !.open = open]
      <3>1. sessions' = [sessions EXCEPT ![id].chunks = @ + 1, ![id].open = @ /\ ~final]
        BY <1>2, <2>3 DEF Legacy!StreamSource, Legacy!AppendChunk
      <3>2. sessions[id] \in Session
        BY <1>1, <2>3
      <3>3. x \in Session /\ x.client = sessions[id].client
        <4>1. open \in BOOLEAN /\ more \in Nat
          BY <3>2 DEF Session
        <4> HIDE DEF open, more, id
        <4> QED BY <3>2, <4>1 DEF Session
      <3>4. DOMAIN sessions' = DOMAIN sessions /\ sessions'[id] = x
        BY <2>3, <3>1
      <3>5. \A k \in DOMAIN sessions : k # id => sessions'[k] = sessions[k]
        BY <3>1
      <3> HIDE DEF x, id
      <3>6. \A k \in DOMAIN sessions : sessions'[k] \in Session /\ sessions'[k].client = sessions[k].client
        BY <1>1, <3>3, <3>4, <3>5
      <3>7. SessionsOK'
        BY <2>1, <3>4, <3>6 DEF LegacyInv, SessionsOK, Legacy!SessionsReachable
      <3> QED BY <2>1, <3>4, <3>6, <3>7, SessionsStep
    <2> QED BY <2>2, <2>3
  <1>3. ASSUME NEW c \in Client, Legacy!StreamRetrieve(c)
        PROVE  LegacyInv'
    <2> DEFINE id == byClient[c]
    <2>1. UNCHANGED <<queue, posting, items, node>> /\ c \in DOMAIN byClient
      BY <1>3 DEF Legacy!StreamRetrieve
    <2>2. id \in DOMAIN sessions /\ sessions[id].client = c /\ sessions[id] \in Session
      BY <1>1, <2>1 DEF LegacyInv, SessionsOK, Legacy!SessionsReachable
    <2>3. CASE sessions[id].open
      <3>1. sessions' = [sessions EXCEPT ![id].chunks = 0] /\ byClient' = byClient
        BY <1>3, <2>2, <2>3 DEF Legacy!StreamRetrieve, Legacy!PopChunks
      <3> DEFINE x == [sessions[id] EXCEPT !.chunks = 0]
      <3>2. x \in Session /\ x.client = sessions[id].client
        BY <2>2 DEF Session
      <3>3. DOMAIN sessions' = DOMAIN sessions /\ sessions'[id] = x
        BY <2>2, <3>1
      <3>4. \A k \in DOMAIN sessions : k # id => sessions'[k] = sessions[k]
        BY <3>1
      <3> HIDE DEF x, id
      <3>5. \A k \in DOMAIN sessions : sessions'[k] \in Session /\ sessions'[k].client = sessions[k].client
        BY <1>1, <3>2, <3>3, <3>4
      <3>6. SessionsOK'
        BY <3>1, <3>3, <3>5 DEF LegacyInv, SessionsOK, Legacy!SessionsReachable
      <3> QED BY <1>1, <2>1, <3>3, <3>5, <3>6, SessionsStep
    <2>4. CASE ~sessions[id].open
      <3>1. /\ sessions' = [x \in DOMAIN sessions \ {id} |-> sessions[x]]
            /\ byClient' = [x \in DOMAIN byClient \ {c} |-> byClient[x]]
        BY <1>3, <2>2, <2>4 DEF Legacy!StreamRetrieve, Legacy!PopChunks, Legacy!Drop
      <3>2. SessionsOK'
        BY <2>1, <2>2, <3>1 DEF LegacyInv, SessionsOK, Legacy!SessionsReachable
      <3> QED BY <1>1, <2>1, <3>1, <3>2, SessionsStep
    <2> QED BY <2>3, <2>4
  <1>4. ASSUME NEW s \in Server, Legacy!UnregisterSessions(s)
        PROVE  LegacyInv'
    <2> DEFINE gone == {id \in DOMAIN sessions : sessions[id].server = s}
               left == {c \in DOMAIN byClient : byClient[c] \in gone}
    <2>1. /\ sessions' = [x \in DOMAIN sessions \ gone |-> sessions[x]]
          /\ byClient' = [x \in DOMAIN byClient \ left |-> byClient[x]]
          /\ UNCHANGED <<queue, posting, items, node>>
      BY <1>4 DEF Legacy!UnregisterSessions, Legacy!Drop
    <2> HIDE DEF gone
    <2>2. SessionsOK'
      BY <2>1 DEF LegacyInv, SessionsOK, Legacy!SessionsReachable
    <2> QED BY <1>1, <2>1, <2>2, SessionsStep
  <1> QED BY <1>2, <1>3, <1>4

\* The routes that touch no session: registration, poll, answers and the loss of a node.
LEMMA OtherSteps ==
    ASSUME LegacyInv,
           \/ \E s \in Server : Legacy!SinkRegister(s) \/ Legacy!PollTake(s) \/ Legacy!UnregisterNode(s)
           \/ \E w \in node : Legacy!Source(w)
           \/ \E c \in Client : Legacy!Retrieve(c)
           \/ UNCHANGED Legacy!vars
    PROVE  LegacyInv'
  <1> USE DEF Legacy!ids, Legacy!stream
  <1>1. node \subseteq PostedRequest /\ queue \in [Server -> Seq(LegacyRequest)]
    BY DEF LegacyInv, LegacyTypeOK
  <1>2. ASSUME NEW s \in Server, Legacy!SinkRegister(s) PROVE LegacyInv'
    BY <1>1, <1>2, OtherStep DEF Legacy!SinkRegister
  <1>3. ASSUME NEW s \in Server, Legacy!UnregisterNode(s) PROVE LegacyInv'
    <2>1. Within(<< >>, queue[s])
      BY DEF Within, Ids, Distinct
    <2> QED BY <1>1, <1>3, <2>1, ShrinkStep DEF Legacy!UnregisterNode
  <1>4. ASSUME NEW s \in Server, Legacy!PollTake(s) PROVE LegacyInv'
    <2> DEFINE q == queue[s]
               envelopes == {i \in DOMAIN q : q[i].kind = "e2ee"}
               kept == IF envelopes = {} THEN DOMAIN q ELSE envelopes
    <2>1. PICK first \in kept :
              /\ queue' = [queue EXCEPT ![s] = Legacy!EntriesAt(q, kept \ {first})]
              /\ \/ node' = node
                 \/ node' = node \cup {[server |-> s, req |-> Legacy!Polled(q[first])]}
              /\ UNCHANGED <<posting, items, sessions, byClient>>
      BY <1>4 DEF Legacy!PollTake
    <2>2. q \in Seq(LegacyRequest) /\ kept \in SUBSET DOMAIN q /\ q[first] \in LegacyRequest
      <3>1. q \in Seq(LegacyRequest) /\ kept \in SUBSET DOMAIN q
        BY <1>1
      <3> HIDE DEF kept
      <3> QED BY <3>1
    <2> HIDE DEF kept, q
    <2>3. Legacy!Polled(q[first]) \in LegacyRequest
      BY <2>2 DEF Legacy!Polled, LegacyRequest
    <2>4. node' \subseteq PostedRequest
      BY <1>1, <2>1, <2>3 DEF PostedRequest
    <2>5. kept \ {first} \in SUBSET DOMAIN q
      BY <2>2
    <2>6. Within(Legacy!EntriesAt(q, kept \ {first}), queue[s])
      <3>1. Within(EntriesAt(q, kept \ {first}), q)
        BY <2>2, <2>5, EntriesWithin
      <3> QED BY <3>1, LegacyEntries DEF q
    <2> QED BY <2>1, <2>4, <2>6, ShrinkStep
  <1>5. ASSUME NEW w \in node, Legacy!Source(w) PROVE LegacyInv'
    BY <1>1, <1>5, OtherStep DEF Legacy!Source
  <1>6. ASSUME NEW c \in Client, Legacy!Retrieve(c) PROVE LegacyInv'
    BY <1>1, <1>6, OtherStep DEF Legacy!Retrieve
  <1>7. CASE UNCHANGED Legacy!vars
    BY <1>1, <1>7, OtherStep DEF Legacy!vars
  <1> QED BY <1>2, <1>3, <1>4, <1>5, <1>6, <1>7

\* Nothing has been posted and no session is open.
LEMMA LegacyInit == Legacy!Init => LegacyInv
  <1> SUFFICES ASSUME Legacy!Init PROVE LegacyInv
    OBVIOUS
  <1>1. /\ DOMAIN sessions = {} /\ DOMAIN byClient = {} /\ posting = {} /\ node = {} /\ items = 0
        /\ queue = [s \in Server |-> << >>]
    BY DEF Legacy!Init, Legacy!Empty
  <1>2. LegacyTypeOK
    BY <1>1 DEF LegacyTypeOK
  <1>3. \A s \in Server : Ids(queue[s]) = {} /\ Distinct(queue[s])
    BY <1>1 DEF Ids, Distinct
  <1>4. PostingIds = {}
    BY <1>1 DEF PostingIds
  <1>5. WaitingOK /\ HandedOut
    BY <1>1, <1>3, <1>4 DEF WaitingOK, HandedOut
  <1>6. SessionsOK
    BY <1>1 DEF SessionsOK, Legacy!SessionsReachable
  <1> QED BY <1>2, <1>5, <1>6 DEF LegacyInv

\* Every step keeps the invariant.
LEMMA LegacyNext == LegacyInv /\ [Legacy!Next]_Legacy!vars => LegacyInv'
  BY PostSteps, AppendStep, SinkTakeStep, SessionSteps, OtherSteps DEF Legacy!Next

\* The two tables of streaming sessions agree, whatever the order of batches, second
\* streams of a client, chunks, reads and unregistrations: every open session is the one
\* its client will read, and every client listed has one.
THEOREM EverySessionIsReachable == Spec => []SessionsReachable
  <1>1. LegacyInv => SessionsReachable
    BY DEF LegacyInv, SessionsOK, SessionsReachable
  <1> QED BY <1>1, StationsStart, LegacyInit, LegacyNext, LegacySteps, PTL DEF Spec
--------------------------------------------------------------------------------
(* ChatRequest                                                             *)

\* Periods are whole ticks, the provider polls at least twice within the response grace
\* (at most 0.5 s against 5 s, compute_provider.py:255 and inference_timeout.py:7), and
\* None is not a message or a response code.
ChatConstants ==
    /\ TTL \in Nat /\ Grace \in Nat /\ Pause \in Nat \ {0} /\ 2 * Pause <= Grace
    /\ \A e \in Envs : e.timeout \in Nat
    /\ MaxLost \in Nat
    /\ None # "sent" /\ None # "admitted" /\ None # "compute_node_timeout"

ChatTypeOK ==
    /\ env \in Envs
    /\ now \in Nat /\ deadline \in Nat /\ wake \in Nat /\ due \in Nat /\ lost \in Nat
    /\ enqueued \in BOOLEAN /\ cancelTried \in BOOLEAN
    /\ out # None => pc = "done"

Exchange == {"missed", "answer", "gone", "wait", "unknown"}

\* Where the provider is tells what it knows of the relay's record.
KnowledgeOK ==
    /\ enqueued => post = "admitted"
    /\ pc \in {"received", "select", "enqueue"} => ~enqueued
    /\ pc \in Exchange \cup {"poll"} => enqueued
    /\ post \in {"sent", "admitted"} => pc # "received" /\ pc # "select"
    /\ post = "admitted" => relay # "absent"
    /\ pc = "answer" => relay = "delivered"
    /\ pc = "gone" => relay = "ended"
    /\ pc = "unknown" => relay \notin {"pending", "absent"}
    /\ enqueued /\ pc \in {"local", "done"} /\ relay = "pending" => cancelTried

\* The provider polls in time: it is awake before its deadline, and a record that is
\* still open was last looked at before it was due.
PollsInTime ==
    /\ pc \in Exchange => now < deadline
    /\ pc = "poll" => now <= wake
    /\ enqueued /\ env.timeout >= TTL + Grace => deadline >= due + Grace
    /\ post = "admitted" => due <= now + TTL
    /\ pc \in {"missed", "wait"} /\ relay \in {"pending", "answered"} => now < due
    /\ pc = "poll" /\ relay \in {"pending", "answered"} /\ env.timeout >= TTL + Grace /\ lost = 0
         => wake < deadline

ChatInv == ChatTypeOK /\ KnowledgeOK /\ PollsInTime /\ Chat!AdmissionRestartsClock

\* What a handler may answer, and what becomes of a provider's failure.
LEMMA FailFacts ==
    ASSUME NEW code, Chat!Fail(code)
    PROVE  \/ pc' = "local" /\ out' = out
           \/ /\ pc' = "done"
              /\ out' = "compute_node_timeout" => code = "compute_node_timeout"
  BY DEF Chat!Fail, Chat!Respond, Chat!PublicCode

\* A released answer ends the request without a timeout.
LEMMA ReleaseFacts ==
    ASSUME Chat!Release
    PROVE  pc' = "done" /\ out' # "compute_node_timeout"
  BY DEF Chat!Release, Chat!Respond

\* A sleep is bounded by the poll interval and the deadline.
LEMMA SleepFacts ==
    ASSUME ChatConstants, ChatTypeOK, now < deadline, Chat!Sleep
    PROVE  /\ pc' = "poll" /\ wake' \in Nat /\ now <= wake'
           /\ wake' <= deadline /\ wake' <= now + 2 * Pause
  <1>1. PICK d \in {0, Pause} : wake' = IF now + d + Pause < deadline THEN now + d + Pause ELSE deadline
    BY DEF Chat!Sleep
  <1>2. pc' = "poll"
    BY DEF Chat!Sleep
  <1> QED BY <1>1, <1>2 DEF ChatConstants, ChatTypeOK

\* The request has just arrived.
LEMMA ChatInit == ASSUME ChatConstants, Chat!Init PROVE ChatInv
  BY DEF ChatConstants, Chat!Init, ChatInv, ChatTypeOK, KnowledgeOK, PollsInTime, Exchange,
         Chat!AdmissionRestartsClock

\* The provider's steps keep the invariant.
LEMMA ChatProvide ==
    ASSUME ChatConstants, ChatInv, Chat!Provide
    PROVE  ChatInv'
  <1> USE DEF ChatInv, ChatTypeOK, KnowledgeOK, PollsInTime, Exchange,
              Chat!AdmissionRestartsClock, Chat!call, Chat!link
  <1>1. CASE Chat!Handle
    <2>1. /\ pc = "received" /\ pc' \in {"done", "local", "select"} /\ deadline' \in Nat
          /\ out' # out => pc' = "done"
          /\ UNCHANGED <<env, now, wake, enqueued, cancelTried, post, relay, due, lost>>
      BY <1>1 DEF Chat!Handle, Chat!Respond, ChatConstants
    <2> QED BY <2>1
  <1>2. CASE Chat!RunLocal
    <2>1. /\ pc = "local" /\ pc' = "done" /\ out' # "compute_node_timeout"
          /\ UNCHANGED <<env, now, deadline, wake, enqueued, cancelTried, post, relay, due, lost>>
      BY <1>2, ReleaseFacts DEF Chat!RunLocal, Chat!Respond
    <2> QED BY <2>1
  <1>3. CASE Chat!Select
    <2>1. /\ pc = "select" /\ UNCHANGED <<env, now, deadline, wake, enqueued, cancelTried, relay, due, lost>>
          /\ \/ pc' = "enqueue" /\ post' = "sent" /\ out' = out
             \/ post' = post /\ pc' = "local" /\ out' = out
             \/ post' = post /\ pc' = "done"
      BY <1>3, FailFacts DEF Chat!Select
    <2> QED BY <2>1 DEF ChatConstants
  <1>4. CASE Chat!EnqueueReply
    <2>1. CASE post = "admitted"
      <3>1. /\ pc = "enqueue" /\ pc' = "poll" /\ enqueued' = TRUE
            /\ deadline' = Chat!AdmittedDeadline /\ wake' = now
            /\ UNCHANGED <<env, now, cancelTried, post, relay, due, out, lost>>
        BY <1>4, <2>1 DEF Chat!EnqueueReply
      <3>2. /\ deadline' \in Nat
            /\ env.timeout >= TTL + Grace => deadline' = now + TTL + Grace
        BY <3>1 DEF Chat!AdmittedDeadline, ChatConstants
      <3> QED BY <2>1, <3>1, <3>2 DEF ChatConstants
    <2>2. CASE post # "admitted"
      <3>1. /\ pc = "enqueue" /\ post' = None
            /\ UNCHANGED <<env, now, deadline, wake, enqueued, cancelTried, relay, due, lost>>
            /\ \/ pc' = "local" /\ out' = out
               \/ pc' = "done"
        BY <1>4, <2>2, FailFacts DEF Chat!EnqueueReply
      <3> QED BY <3>1 DEF ChatConstants
    <2> QED BY <2>1, <2>2
  <1>5. CASE Chat!EnqueueLost
    <2>1. /\ pc = "enqueue" /\ lost' \in Nat
          /\ UNCHANGED <<env, now, deadline, wake, enqueued, cancelTried, post, relay, due>>
          /\ \/ pc' = "local" /\ out' = out
             \/ pc' = "done"
      BY <1>5, FailFacts DEF Chat!EnqueueLost
    <2> QED BY <2>1
  <1>6. CASE Chat!Retrieve
    <2>1. /\ pc = "poll" /\ now < deadline
          /\ UNCHANGED <<env, now, deadline, wake, enqueued, cancelTried, post, due, out, lost>>
      BY <1>6 DEF Chat!Retrieve
    <2>2. \/ relay = "answered" /\ relay' = "delivered" /\ pc' = "answer"
          \/ relay' = "ended" /\ pc' = "gone"
          \/ pc' = "missed" /\ relay' = relay /\ relay # "answered" /\ (relay = "pending" => now < due)
      BY <1>6 DEF Chat!Retrieve
    <2> QED BY <2>1, <2>2
  <1>7. CASE Chat!Recheck
    <2>1. /\ pc = "missed"
          /\ pc' = (IF relay = "pending" THEN "wait" ELSE IF relay = "ended" THEN "gone" ELSE "unknown")
          /\ UNCHANGED <<env, now, deadline, wake, enqueued, cancelTried, post, relay, due, out, lost>>
      BY <1>7 DEF Chat!Recheck
    <2> QED BY <2>1
  <1>8. CASE Chat!RetrieveReply
    <2>1. /\ pc \in {"answer", "gone", "wait", "unknown"}
          /\ UNCHANGED <<env, now, deadline, enqueued, cancelTried, post, relay, due, lost>>
      BY <1>8 DEF Chat!RetrieveReply
    <2>2. CASE pc \in {"answer", "wait"} /\ Chat!Sleep /\ out' = out
      BY <2>1, <2>2, SleepFacts DEF ChatConstants
    <2>3. ASSUME wake' = wake, pc # "wait",
                 \/ Chat!Release
                 \/ \E code \in {"compute_node_invalid_payload", "compute_node_bridge_error",
                                 "compute_node_request_cancelled", "unknown_request_id"} : Chat!Fail(code)
          PROVE  ChatInv'
      <3>1. \/ pc' = "local" /\ out' = out
            \/ pc' = "done" /\ out' # "compute_node_timeout"
        BY <2>3, ReleaseFacts, FailFacts
      <3> QED BY <2>1, <2>3, <3>1
    <2> QED BY <1>8, <2>2, <2>3 DEF Chat!RetrieveReply
  <1>9. CASE Chat!RetrieveLost
    <2>1. /\ pc \in Exchange /\ Chat!Sleep /\ lost' \in Nat /\ lost' # 0
          /\ UNCHANGED <<env, now, deadline, enqueued, cancelTried, post, relay, due, out>>
      BY <1>9 DEF Chat!RetrieveLost
    <2> QED BY <2>1, SleepFacts
  <1>10. CASE Chat!GiveUp
    <2>1. /\ pc = "poll" /\ now >= deadline /\ cancelTried' = TRUE
          /\ UNCHANGED <<env, now, deadline, wake, enqueued, post, due>>
          /\ \/ relay' = (IF relay = "pending" THEN "ended" ELSE relay) /\ lost' = lost
             \/ lost' = lost + 1 /\ relay' = relay
          /\ Chat!Fail("compute_node_timeout")
      BY <1>10 DEF Chat!GiveUp
    <2>2. \/ pc' = "local" /\ out' = out
          \/ pc' = "done"
      BY <2>1, FailFacts
    <2>3. lost' \in Nat /\ (lost' = 0 => lost = 0)
      BY <2>1
    <2>4. lost = 0 /\ env.timeout >= TTL + Grace => relay # "answered" /\ relay # "pending"
      BY <2>1
    <2> QED BY <2>1, <2>2, <2>3, <2>4 DEF ChatConstants
  <1> QED BY <1>1, <1>2, <1>3, <1>4, <1>5, <1>6, <1>7, <1>8, <1>9, <1>10 DEF Chat!Provide

\* The relay's steps and the clock keep it.
LEMMA ChatNext ==
    ASSUME ChatConstants, ChatInv, [Chat!Next]_Chat!vars
    PROVE  ChatInv'
  <1> USE DEF ChatInv, ChatTypeOK, KnowledgeOK, PollsInTime, Exchange,
              Chat!AdmissionRestartsClock, Chat!call, Chat!link
  <1>1. CASE Chat!RelayAdmit
    BY <1>1 DEF Chat!RelayAdmit, ChatConstants
  <1>2. CASE Chat!PostVanishes
    BY <1>2 DEF Chat!PostVanishes, ChatConstants
  <1>3. CASE Chat!RelayAnswer
    BY <1>3 DEF Chat!RelayAnswer, ChatConstants
  <1>4. CASE Chat!RelayEnd
    BY <1>4 DEF Chat!RelayEnd
  <1>5. CASE Chat!Tick
    BY <1>5 DEF Chat!Tick, Chat!Waiting, ChatConstants
  <1>6. CASE UNCHANGED Chat!vars
    BY <1>6 DEF Chat!vars
  <1> QED BY <1>1, <1>2, <1>3, <1>4, <1>5, <1>6, ChatProvide DEF Chat!Next

\* A provider that knows its request was admitted and turns away from it has seen its end
\* or has asked the relay to cancel it (compute_provider.py, _cancel_if_post_enqueue_timeout
\* and the end of the poll loop), for every environment, period and number of lost calls.
THEOREM NoRequestIsAbandoned ==
    ASSUME ChatConstants
    PROVE  Spec => []NoAbandonedRequest
  <1>1. ChatInv => NoAbandonedRequest
    BY DEF ChatInv, KnowledgeOK, Chat!NoAbandonedRequest, NoAbandonedRequest
  <1>2. Chat!Init => ChatInv
    BY ChatInit
  <1>3. ChatInv /\ [Chat!Next]_Chat!vars => ChatInv'
    BY ChatNext
  <1> QED BY <1>1, <1>2, <1>3, StationsStart, ChatSteps, PTL DEF Spec

\* A provider that may wait for TTL + Grace and has lost no call does not time out while
\* the relay holds the answer or still waits for it: the deadline restarts at admission
\* (compute_provider.py:446), and the grace leaves room for one more poll.
THEOREM TheClockRestarts ==
    ASSUME ChatConstants
    PROVE  Spec => []AdmissionRestartsClock
  <1>1. ChatInv => AdmissionRestartsClock
    BY DEF ChatInv, AdmissionRestartsClock
  <1>2. Chat!Init => ChatInv
    BY ChatInit
  <1>3. ChatInv /\ [Chat!Next]_Chat!vars => ChatInv'
    BY ChatNext
  <1> QED BY <1>1, <1>2, <1>3, StationsStart, ChatSteps, PTL DEF Spec

--------------------------------------------------------------------------------
(* RelaySelection                                                          *)

\* A list of nodes, each of which occurs once.
Lists == {s \in Seq(Node) : \A i, j \in DOMAIN s : s[i] = s[j] => i = j}

\* The list's turn after p steps: how many choices until entry i.
Turns(p, n, i) == IF i > p THEN i - p - 1 ELSE i - p - 1 + n

\* A round of choices b among the equals k, with the cursor at p: the node in front of the
\* cursor has not been chosen in this round, and none was chosen before one that comes
\* later from there.
Round(k, p, b) ==
    /\ p \in 0 .. Len(k) - 1
    /\ b \in [Elements(k) -> {0, 1}]
    /\ b[k[p + 1]] = 0
    /\ \A i, j \in 1 .. Len(k) :
         Turns(p, Len(k), i) <= Turns(p, Len(k), j) => b[k[i]] <= b[k[j]]
Rotating(k) == k \in Lists /\ k # <<>> /\ Round(k, position[k], served[k])

\* One more choice, less what all of them had.
Bumped(b, n) ==
    LET after == [b EXCEPT ![n] = @ + 1]
        all == Selection!Min({after[m] : m \in DOMAIN after})
    IN  [m \in DOMAIN after |-> after[m] - all]

\* The cursor over all nodes is inside the list: the modulo of relay.py never changes it.
SelectionInv ==
    /\ known \in Lists
    /\ next \in Nat /\ (known = <<>> => next = 0) /\ (known # <<>> => next < Len(known))
    /\ DOMAIN served = DOMAIN position
    /\ \A k \in DOMAIN served : Rotating(k)

\* Remainders, as far as cursors need them.
LEMMA Remainders ==
    ASSUME NEW n \in Nat \ {0}
    PROVE  /\ \A a \in Int : a % n \in 0 .. n - 1
           /\ \A a \in 0 .. n - 1 : a % n = a
           /\ n % n = 0
  OBVIOUS

\* The instance's cardinality is the library's.
LEMMA SameCardinality == \A S : Selection!Cardinality(S) = Cardinality(S)
  BY DEF Selection!Cardinality, Cardinality

\* The list filter of the selection is the one ListFilter_proofs is about.
LEMMA SelectionOnly ==
    ASSUME NEW s, NEW R
    PROVE  Selection!Only(s, R) = Only(s, R) /\ Selection!Without(s, R) = Without(s, R)
  <1>1. \A K, i : Selection!Rank(K, i) = Rank(K, i)
    BY SameCardinality DEF Selection!Rank, Rank
  <1>2. ASSUME NEW K PROVE Selection!EntriesAt(s, K) = EntriesAt(s, K)
    <2>1. Selection!Cardinality(K) = Cardinality(K)
      BY SameCardinality
    <2>2. ASSUME NEW j
          PROVE  (CHOOSE i \in K : Selection!Rank(K, i) = j) = (CHOOSE i \in K : Rank(K, i) = j)
      BY <1>1
    <2> DEFINE Slot(j) == CHOOSE i \in K : Rank(K, i) = j
               SlotOf(j) == CHOOSE i \in K : Selection!Rank(K, i) = j
    <2>3. \A j : SlotOf(j) = Slot(j)
      BY <2>2
    <2>4. /\ Selection!EntriesAt(s, K) = [j \in 1 .. Selection!Cardinality(K) |-> s[SlotOf(j)]]
          /\ EntriesAt(s, K) = [j \in 1 .. Cardinality(K) |-> s[Slot(j)]]
      BY DEF Selection!EntriesAt, EntriesAt
    <2> HIDE DEF Slot, SlotOf
    <2> QED BY <2>1, <2>3, <2>4
  <1> QED BY <1>2 DEF Selection!Only, Selection!Without, Only, Without

\* A filtered list is a list.
LEMMA OnlyIsList ==
    ASSUME NEW s \in Lists, NEW R
    PROVE  Selection!Only(s, R) \in Lists /\ Selection!Without(s, R) \in Lists
  <1>1. s \in Seq(Node)
    BY DEF Lists
  <1>2. Only(s, R) \in Lists
    BY <1>1, OnlyFacts DEF Lists
  <1>3. Without(s, R) \in Lists
    BY <1>1, WithoutFacts DEF Lists
  <1> QED BY <1>2, <1>3, SelectionOnly

\* The equals of a request are registered nodes, each of them once.
LEMMA EqualsAreNodes ==
    ASSUME known \in Lists, NEW model, NEW tier
    PROVE  /\ Selection!Equals(model, tier) \in Lists
           /\ Elements(Selection!Equals(model, tier)) \subseteq Elements(known)
  <1> DEFINE F == {n \in Selection!ToSet(known) :
                     Selection!Fits(n, model, tier) /\ ~Selection!AtCapacity(n)}
             fit == Selection!Only(known, F)
             M == {n \in Selection!ToSet(fit) :
                     \A m \in Selection!ToSet(fit) : caps[n].tier <= caps[m].tier}
             small == Selection!Only(fit, M)
             E == {n \in Selection!ToSet(small) :
                     \A m \in Selection!ToSet(small) : ~Selection!Lighter(m, n)}
  <1>1. Selection!Equals(model, tier) = Selection!Only(small, E)
    BY DEF Selection!Equals
  <1> HIDE DEF F, M, E
  <1>2. fit \in Lists /\ Elements(fit) \subseteq Elements(known)
    BY OnlyIsList, SelectionOnly, OnlyFacts DEF Lists
  <1> HIDE DEF fit
  <1>3. small \in Lists /\ Elements(small) \subseteq Elements(fit)
    BY <1>2, OnlyIsList, SelectionOnly, OnlyFacts DEF Lists
  <1> HIDE DEF small
  <1>4. /\ Selection!Only(small, E) \in Lists
        /\ Elements(Selection!Only(small, E)) \subseteq Elements(small)
    BY <1>3, OnlyIsList, SelectionOnly, OnlyFacts DEF Lists
  <1> QED BY <1>1, <1>2, <1>3, <1>4

\* The place of an entry.
LEMMA IndexFound ==
    ASSUME NEW s \in Lists, NEW i \in 1 .. Len(s)
    PROVE  Selection!IndexOf(s, s[i]) = i
  <1>1. \A j \in 1 .. Len(s) : s[j] = s[i] => j = i
    BY DEF Lists
  <1> QED BY <1>1 DEF Selection!IndexOf

\* A choice is one of the equals.
LEMMA StartInside ==
    ASSUME SelectionInv, NEW equals \in Lists, equals # <<>>, Elements(equals) \subseteq Elements(known)
    PROVE  /\ Selection!StartAt(equals) \in 0 .. Len(equals) - 1
           /\ equals \in DOMAIN position => Selection!StartAt(equals) = position[equals]
  <1>1. Len(equals) \in Nat \ {0} /\ Len(known) \in Nat
    BY EmptySeq DEF Lists, SelectionInv
  <1>2. CASE equals \in DOMAIN position
    <2>1. position[equals] \in 0 .. Len(equals) - 1
      BY <1>2 DEF SelectionInv, Rotating, Round
    <2> QED BY <1>1, <1>2, <2>1, Remainders DEF Selection!StartAt
  <1>3. CASE equals \notin DOMAIN position
    <2> DEFINE T == Selection!ToSet(equals)
               D == {Selection!Ahead(n) : n \in T}
               c == CHOOSE n \in T : \A m \in T : Selection!Ahead(n) <= Selection!Ahead(m)
    <2>1. equals[1] \in T /\ T = Elements(equals)
      BY <1>1 DEF Selection!ToSet, Elements, Lists
    <2>2. Len(known) \in Nat \ {0}
      BY <2>1, <1>1, EmptySeq DEF Elements, SelectionInv, Lists
    <2>3. ASSUME NEW n \in T PROVE Selection!Ahead(n) \in Nat
      <3>1. PICK i \in 1 .. Len(known) : known[i] = n
        <4>1. n \in Elements(known)
          BY <2>1
        <4>2. known \in Seq(Node)
          BY DEF SelectionInv, Lists
        <4> QED BY <4>1, <4>2 DEF Elements
      <3>2. Selection!IndexOf(known, n) = i
        BY <3>1, IndexFound DEF SelectionInv
      <3>3. next % Len(known) \in Int
        BY <2>2, Remainders DEF SelectionInv
      <3> DEFINE a == i - 1 + Len(known) - (next % Len(known))
      <3>4. a \in Int
        BY <3>3, <2>2
      <3>5. Selection!Ahead(n) = a % Len(known)
        BY <3>2 DEF Selection!Ahead
      <3> HIDE DEF a
      <3>6. \A z \in Int : z % Len(known) \in 0 .. Len(known) - 1
        BY <2>2, Remainders
      <3> QED BY <3>4, <3>5, <3>6
    <2>4. D \subseteq Nat /\ D # {}
      BY <2>1, <2>3
    <2>5. PICK d \in D : \A e \in D : ~(<<e, d>> \in OpToRel(<, Nat))
      BY <2>4, NatLessThanWellFounded, WFMin
    <2>6. \A e \in D : d <= e
      <3>1. \A e \in D : e \in Nat /\ ~(e < d) /\ d \in Nat
        BY <2>4, <2>5 DEF OpToRel
      <3> QED BY <3>1
    <2>7. \E n \in T : \A m \in T : Selection!Ahead(n) <= Selection!Ahead(m)
      BY <2>6
    <2>8. c \in T
      BY <2>7
    <2>9. PICK i \in 1 .. Len(equals) : equals[i] = c
      BY <2>8 DEF Selection!ToSet, Lists
    <2>10. Selection!StartAt(equals) = Selection!IndexOf(equals, c) - 1
      BY <1>3 DEF Selection!StartAt
    <2> HIDE DEF c
    <2>11. Selection!IndexOf(equals, c) = i
      BY <2>9, IndexFound
    <2> QED BY <1>1, <1>3, <2>9, <2>10, <2>11
  <1> QED BY <1>2, <1>3

\* One choice at the cursor keeps the rotation: the node chosen goes to the end of the
\* round, and a round that is complete starts again.
LEMMA ChoiceRotates ==
    ASSUME NEW k \in Lists, k # <<>>, NEW p, NEW b, Round(k, p, b)
    PROVE  Round(k, (p + 1) % Len(k), Bumped(b, k[p + 1]))
  <1> DEFINE n == Len(k)
             E == Elements(k)
             c == k[p + 1]
             after == [b EXCEPT ![c] = @ + 1]
             V == {after[m] : m \in DOMAIN after}
             all == Selection!Min(V)
             r == [m \in DOMAIN after |-> after[m] - all]
             q == (p + 1) % n
  <1>1. /\ n \in Nat \ {0} /\ p \in 0 .. n - 1
        /\ \A i \in 1 .. n : k[i] \in E
        /\ \A m \in E : \E i \in 1 .. n : m = k[i]
        /\ \A i, j \in 1 .. n : k[i] = k[j] => i = j
    BY EmptySeq DEF Lists, Elements, Round
  <1>2. q = IF p + 1 = n THEN 0 ELSE p + 1
    <2>1. (\A a \in 0 .. n - 1 : a % n = a) /\ n % n = 0
      BY <1>1, Remainders
    <2>2. p + 1 = n \/ p + 1 \in 0 .. n - 1
      BY <1>1
    <2> HIDE DEF n
    <2> QED BY <1>1, <2>1, <2>2
  <1>3. c \in E /\ b \in [E -> {0, 1}] /\ b[c] = 0
    BY <1>1 DEF Round
  <1>4. \A i, j \in 1 .. n : Turns(p, n, i) <= Turns(p, n, j) => b[k[i]] <= b[k[j]]
    BY DEF Round
  <1> HIDE DEF q, E, c, n
  <1>5. /\ after \in [E -> {0, 1}] /\ after[c] = 1
        /\ \A m \in E : m # c => after[m] = b[m]
    BY <1>3
  <1>6. V \subseteq {0, 1} /\ \A m \in E : after[m] \in V
    BY <1>5
  <1>7. \A v \in V : \E m \in E : after[m] = v
    BY <1>5
  <1>8. r = [m \in E |-> after[m] - all]
    BY <1>5
  <1> HIDE DEF after, V
  <1>9. c = k[p + 1]
    BY DEF c
  <1>10. /\ q \in 0 .. n - 1
         /\ r \in [E -> {0, 1}]
         /\ r[k[q + 1]] = 0
         /\ \A i, j \in 1 .. n : Turns(q, n, i) <= Turns(q, n, j) => r[k[i]] <= r[k[j]]
    <2>1. q \in 0 .. n - 1
      BY <1>1, <1>2
    <2>2. CASE 0 \notin V
      <3>1. V = {1}
        <4>1. 1 \in V
          BY <1>3, <1>5, <1>6
        <4> QED BY <1>6, <2>2, <4>1
      <3>2. all = 1
        BY <3>1 DEF Selection!Min
      <3>3. \A m \in E : after[m] = 1
        BY <1>6, <3>1
      <3>4. \A m \in E : r[m] = 0
        BY <1>8, <3>2, <3>3
      <3>5. r \in [E -> {0, 1}]
        BY <1>8, <3>2, <3>3
      <3> HIDE DEF r
      <3>6. k[q + 1] \in E /\ \A i \in 1 .. n : r[k[i]] = 0
        BY <1>1, <2>1, <3>4
      <3> QED BY <2>1, <3>4, <3>5, <3>6
    <2>3. CASE 0 \in V
      <3>1. (CHOOSE x \in V : \A y \in V : x <= y) = 0
        <4>1. \A y \in V : 0 <= y
          BY <1>6
        <4>2. \A x \in V : (\A y \in V : x <= y) => x = 0
          BY <1>6, <2>3
        <4> QED BY <2>3, <4>1, <4>2
      <3>2. all = 0
        BY <3>1 DEF Selection!Min
      <3>3. r = after
        BY <1>5, <1>8, <3>2
      <3> HIDE DEF r
      <3>4. PICK m \in E : after[m] = 0
        BY <1>7, <2>3
      <3>5. PICK j \in 1 .. n : m = k[j]
        BY <1>1
      <3>6. m # c /\ j # p + 1 /\ b[m] = 0
        BY <1>5, <1>9, <3>4, <3>5
      <3>7. n > 1 /\ q + 1 \in 1 .. n /\ q + 1 # p + 1
        BY <1>1, <1>2, <3>5, <3>6
      <3>8. Turns(p, n, q + 1) <= Turns(p, n, j)
        BY <1>1, <1>2, <3>5, <3>6, <3>7 DEF Turns
      <3>9. k[q + 1] # c /\ k[q + 1] \in E
        BY <1>1, <1>9, <3>7
      <3>10. r[k[q + 1]] = 0
        BY <1>3, <1>4, <1>5, <3>3, <3>5, <3>6, <3>7, <3>8, <3>9
      <3>11. ASSUME NEW i \in 1 .. n, NEW h \in 1 .. n, Turns(q, n, i) <= Turns(q, n, h)
             PROVE  r[k[i]] <= r[k[h]]
        <4>1. k[i] \in E /\ k[h] \in E /\ r[k[i]] \in {0, 1} /\ r[k[h]] \in {0, 1}
          BY <1>1, <1>5, <3>3
        <4>2. CASE h = p + 1
          BY <4>1, <4>2, <1>5, <1>9, <3>3
        <4>3. CASE h # p + 1
          <5>1. i # p + 1
            BY <3>11, <4>3, <1>1, <1>2 DEF Turns
          <5>2. Turns(p, n, i) <= Turns(p, n, h)
            BY <3>11, <4>3, <5>1, <1>1, <1>2 DEF Turns
          <5>3. k[i] # c /\ k[h] # c
            BY <1>1, <1>9, <4>3, <5>1
          <5> QED BY <1>4, <1>5, <3>3, <4>1, <5>2, <5>3
        <4> QED BY <4>2, <4>3
      <3> QED BY <2>1, <1>5, <3>3, <3>10, <3>11
    <2> QED BY <2>2, <2>3
  <1>11. Bumped(b, k[p + 1]) = r
    BY DEF Bumped, c, after, V
  <1> HIDE DEF r
  <1> QED BY <1>10, <1>11 DEF q, E, n, Round

\* A first registration goes to the end of the list; a heartbeat leaves the list alone.
LEMMA RegisterKeeps ==
    ASSUME SelectionInv, NEW n \in Node, NEW c, Selection!Register(n, c)
    PROVE  SelectionInv'
  <1>1. known \in Seq(Node) /\ Len(known) \in Nat
    BY DEF SelectionInv, Lists
  <1>2. position' = position /\ served' = served
    BY DEF Selection!Register
  <1>3. CASE Selection!Contains(known, n)
    <2>1. known' = known /\ next' = next
      BY <1>3 DEF Selection!Register
    <2> QED BY <1>2, <2>1 DEF SelectionInv, Rotating, Lists
  <1>4. CASE ~Selection!Contains(known, n)
    <2>1. known' = Append(known, n) /\ next' = IF known = <<>> THEN 0 ELSE next
      BY <1>4 DEF Selection!Register
    <2>2. \A i \in 1 .. Len(known) : known[i] # n
      BY <1>4 DEF Selection!Contains
    <2>3. /\ Append(known, n) \in Seq(Node) /\ Len(Append(known, n)) = Len(known) + 1
          /\ \A i \in 1 .. Len(known) : Append(known, n)[i] = known[i]
          /\ Append(known, n)[Len(known) + 1] = n /\ Append(known, n) # <<>>
      BY <1>1, AppendProperties
    <2>4. \A i, j \in DOMAIN known : known[i] = known[j] => i = j
      BY DEF SelectionInv, Lists
    <2>5. known' \in Lists
      <3> DEFINE s == Append(known, n)
      <3> HIDE DEF s
      <3>1. \A i, j \in 1 .. Len(known) + 1 : s[i] = s[j] => i = j
        BY <1>1, <2>2, <2>3, <2>4 DEF s
      <3>2. s \in Seq(Node) /\ DOMAIN s = 1 .. Len(known) + 1
        BY <2>3 DEF s
      <3>3. s \in Lists
        BY <3>1, <3>2 DEF Lists
      <3> QED BY <2>1, <3>3 DEF s
    <2>6. next' \in Nat /\ known' # <<>> /\ next' < Len(known')
      BY <1>1, <2>1, <2>3 DEF SelectionInv
    <2> QED BY <1>2, <2>5, <2>6 DEF SelectionInv, Rotating
  <1> QED BY <1>3, <1>4

\* What a removal leaves: the entries after the removed one move up, and the cursor is
\* where _remove_known_server puts it.
LEMMA UnregisterFacts ==
    ASSUME SelectionInv, NEW n \in Node, Selection!Unregister(n)
    PROVE  \E j \in 1 .. Len(known) :
             /\ known[j] = n
             /\ known' \in Lists /\ Len(known') = Len(known) - 1
             /\ \A i \in 1 .. Len(known) - 1 :
                  known'[i] = IF i < j THEN known[i] ELSE known[i + 1]
             /\ next' = IF Len(known) = 1 THEN 0
                        ELSE IF j - 1 < next THEN next - 1
                        ELSE IF next = Len(known) - 1 THEN 0 ELSE next
  <1>1. known \in Lists /\ known \in Seq(Node) /\ Len(known) \in Nat
    BY DEF SelectionInv, Lists
  <1>2. PICK j \in 1 .. Len(known) : known[j] = n
    BY DEF Selection!Unregister, Selection!Contains
  <1>3. known' = Without(known, {n}) /\ known' \in Lists
    BY <1>1, SelectionOnly, OnlyIsList DEF Selection!Unregister
  <1>4. /\ Len(known') = Len(known) - 1
        /\ \A i \in 1 .. Len(known) - 1 :
             known'[i] = IF i < j THEN known[i] ELSE known[i + 1]
    <2>1. /\ \A i, h \in DOMAIN known : known[i] = known[h] => i = h
          /\ j \in DOMAIN known
      BY <1>1 DEF Lists
    <2>2. /\ Len(Without(known, {known[j]})) = Len(known) - 1
          /\ \A i \in 1 .. Len(known) - 1 :
               Without(known, {known[j]})[i] = IF i < j THEN known[i] ELSE known[i + 1]
      BY <1>1, <2>1, WithoutOne
    <2> QED BY <1>2, <1>3, <2>2
  <1>5. Len(known) \in Nat \ {0} /\ next \in 0 .. Len(known) - 1
    BY <1>1, <1>2 DEF SelectionInv
  <1>6. next % Len(known) = next /\ Selection!IndexOf(known, n) = j
    BY <1>1, <1>2, <1>5, Remainders, IndexFound
  <1>7. next' = IF Len(known) - 1 = 0 THEN 0
                ELSE IF j - 1 < next THEN (next - 1) % (Len(known) - 1)
                ELSE next % (Len(known) - 1)
    BY <1>6 DEF Selection!Unregister, Selection!CursorAfter
  <1>8. next' = IF Len(known) = 1 THEN 0
                ELSE IF j - 1 < next THEN next - 1
                ELSE IF next = Len(known) - 1 THEN 0 ELSE next
    <2>1. CASE Len(known) = 1
      BY <1>7, <2>1
    <2>2. CASE Len(known) # 1
      <3> DEFINE left == Len(known) - 1
      <3>1. left \in Nat \ {0} /\ next \in 0 .. left
        BY <1>5, <2>2
      <3>2. /\ \A a \in 0 .. left - 1 : a % left = a
            /\ left % left = 0
        BY <3>1, Remainders
      <3>3. j - 1 < next => next - 1 \in 0 .. left - 1
        BY <1>2, <3>1
      <3>4. next # left => next \in 0 .. left - 1
        BY <3>1
      <3>5. next' = IF j - 1 < next THEN (next - 1) % left ELSE next % left
        BY <1>7, <2>2, <1>5
      <3>6. left = Len(known) - 1
        OBVIOUS
      <3> HIDE DEF left
      <3> QED BY <2>2, <3>2, <3>3, <3>4, <3>5, <3>6
    <2> QED BY <2>1, <2>2
  <1> QED BY <1>2, <1>3, <1>4, <1>8

\* A removal keeps the invariant.
LEMMA UnregisterKeeps ==
    ASSUME SelectionInv, NEW n \in Node, Selection!Unregister(n)
    PROVE  SelectionInv'
  <1>1. PICK j \in 1 .. Len(known) :
             /\ known[j] = n
             /\ known' \in Lists /\ Len(known') = Len(known) - 1
             /\ \A i \in 1 .. Len(known) - 1 :
                  known'[i] = IF i < j THEN known[i] ELSE known[i + 1]
             /\ next' = IF Len(known) = 1 THEN 0
                        ELSE IF j - 1 < next THEN next - 1
                        ELSE IF next = Len(known) - 1 THEN 0 ELSE next
    BY UnregisterFacts
  <1>2. known \in Seq(Node) /\ known' \in Seq(Node) /\ Len(known) \in Nat \ {0}
    BY <1>1 DEF SelectionInv, Lists
  <1>3. next \in 0 .. Len(known) - 1
    BY <1>2 DEF SelectionInv
  <1>4. next' \in Nat /\ (known' = <<>> => next' = 0) /\ (known' # <<>> => next' < Len(known'))
    <2>1. known' = <<>> => Len(known) = 1
      BY <1>1, <1>2
    <2>2. known' # <<>> => Len(known) > 1
      BY <1>1, <1>2, EmptySeq
    <2> QED BY <1>1, <1>2, <1>3, <2>1, <2>2
  <1>5. position' = position /\ served' = served
    BY DEF Selection!Unregister
  <1> QED BY <1>1, <1>4, <1>5 DEF SelectionInv, Rotating

\* A choice moves both cursors and keeps every rotation.
LEMMA SelectKeeps ==
    ASSUME SelectionInv, NEW model, NEW tier, Selection!SelectNext(model, tier)
    PROVE  SelectionInv'
  <1> DEFINE equals == Selection!Equals(model, tier)
             start == Selection!StartAt(equals)
             n == equals[start + 1]
  <1>1. known' = known /\ known \in Lists
    BY DEF Selection!SelectNext, SelectionInv
  <1>2. equals \in Lists /\ Elements(equals) \subseteq Elements(known)
    BY <1>1, EqualsAreNodes
  <1>3. CASE equals = <<>>
    <2>1. position' = position /\ served' = served /\ next' = IF known = <<>> THEN 0 ELSE next
      BY <1>3 DEF Selection!SelectNext
    <2> QED BY <1>1, <2>1 DEF SelectionInv, Rotating
  <1>4. CASE equals # <<>>
    <2>1. /\ position' = Selection!With(position, equals, (start + 1) % Len(equals))
          /\ served' = Selection!With(served, equals, Selection!Counted(equals, n))
          /\ next' = Selection!IndexOf(known, n) % Len(known)
      BY <1>4 DEF Selection!SelectNext
    <2>2. /\ start \in 0 .. Len(equals) - 1
          /\ equals \in DOMAIN position => start = position[equals]
      BY <1>2, <1>4, StartInside
    <2> HIDE DEF equals, start
    <2>3. n \in Elements(equals) /\ Elements(equals) = Selection!ToSet(equals)
      BY <1>2, <2>2 DEF Elements, Lists, Selection!ToSet
    <2>4. next' \in Nat /\ known # <<>> /\ next' < Len(known)
      <3>1. PICK i \in 1 .. Len(known) : known[i] = n
        <4>1. n \in Elements(known) /\ known \in Seq(Node)
          BY <1>1, <1>2, <2>3 DEF Lists
        <4> QED BY <4>1 DEF Elements
      <3>2. Selection!IndexOf(known, n) = i
        BY <1>1, <3>1, IndexFound
      <3>3. Len(known) \in Nat \ {0} /\ known # <<>>
        BY <1>1, <3>1 DEF Lists
      <3>4. i % Len(known) \in 0 .. Len(known) - 1
        <4>1. \A a \in Int : a % Len(known) \in 0 .. Len(known) - 1
          BY <3>3, Remainders
        <4>2. i \in Int
          OBVIOUS
        <4> QED BY <4>1, <4>2
      <3> QED BY <2>1, <3>2, <3>3, <3>4
    <2> DEFINE b == IF equals \in DOMAIN served THEN served[equals]
                    ELSE [m \in Selection!ToSet(equals) |-> 0]
               r == Bumped(b, n)
               q == (start + 1) % Len(equals)
    <2>5. Selection!Counted(equals, n) = r
      BY DEF Selection!Counted, Bumped
    <2>6. Round(equals, start, b)
      <3>1. CASE equals \in DOMAIN served
        BY <2>2, <3>1 DEF SelectionInv, Rotating
      <3>2. CASE equals \notin DOMAIN served
        <4>1. \A i \in 1 .. Len(equals) : equals[i] \in Elements(equals)
          BY <1>2 DEF Elements, Lists
        <4>2. b = [m \in Elements(equals) |-> 0]
          BY <2>3, <3>2
        <4> HIDE DEF b
        <4> QED BY <2>2, <2>3, <4>1, <4>2 DEF Round
      <3> QED BY <3>1, <3>2
    <2> HIDE DEF b
    <2>7. Round(equals, q, r)
      BY <1>2, <1>4, <2>6, ChoiceRotates
    <2> HIDE DEF r, q
    <2>8. /\ DOMAIN served' = DOMAIN served \cup {equals}
          /\ DOMAIN position' = DOMAIN position \cup {equals}
          /\ served'[equals] = r /\ position'[equals] = q
          /\ \A k \in DOMAIN served : k # equals => served'[k] = served[k]
          /\ \A k \in DOMAIN position : k # equals => position'[k] = position[k]
      BY <2>1, <2>5 DEF Selection!With, q
    <2>9. DOMAIN served = DOMAIN position /\ \A k \in DOMAIN served : Rotating(k)
      BY DEF SelectionInv
    <2>10. ASSUME NEW k \in DOMAIN served' PROVE Rotating(k)'
      <3>1. CASE k = equals
        BY <1>2, <1>4, <2>7, <2>8, <3>1 DEF Rotating
      <3>2. CASE k # equals
        BY <2>8, <2>9, <3>2 DEF Rotating
      <3> QED BY <3>1, <3>2
    <2> QED BY <1>1, <2>4, <2>8, <2>9, <2>10 DEF SelectionInv
  <1> QED BY <1>3, <1>4

\* No node is registered.
LEMMA SelectionInit == Selection!Init => SelectionInv
  BY DEF Selection!Init, SelectionInv, Lists

\* Every step keeps the invariant.
LEMMA SelectionNext ==
    ASSUME SelectionInv, [Selection!Next]_Selection!vars
    PROVE  SelectionInv'
  <1>1. ASSUME NEW n \in Node, NEW c \in Capabilities, Selection!Register(n, c)
        PROVE  SelectionInv'
    BY <1>1, RegisterKeeps
  <1>2. ASSUME NEW n \in Node, Selection!Unregister(n)
        PROVE  SelectionInv'
    BY <1>2, UnregisterKeeps
  <1>3. ASSUME NEW n \in Node,
               Selection!FallsQuiet(n) \/ Selection!Enqueue(n) \/ Selection!Poll(n) \/ Selection!Finish(n)
        PROVE  SelectionInv'
    <2>1. UNCHANGED <<known, next, position, served>>
      BY <1>3 DEF Selection!FallsQuiet, Selection!Enqueue, Selection!Poll, Selection!Finish,
                  Selection!cursors
    <2> QED BY <2>1 DEF SelectionInv, Rotating
  <1>4. ASSUME NEW model \in Model, NEW tier \in Tiers, Selection!SelectNext(model, tier)
        PROVE  SelectionInv'
    BY <1>4, SelectKeeps
  <1>5. CASE UNCHANGED Selection!vars
    BY <1>5 DEF Selection!vars, Selection!cursors, SelectionInv, Rotating
  <1> QED BY <1>1, <1>2, <1>3, <1>4, <1>5 DEF Selection!Next

\* Among equally good nodes the choices rotate (relay.py, _select_best_fit_server_key),
\* for any nodes, announcements, loads and order of registrations and requests.
THEOREM EqualNodesTakeTurns == Spec => []EqualsRotate
  <1>1. SelectionInv => EqualsRotate
    <2> SUFFICES ASSUME SelectionInv, NEW k \in DOMAIN served, NEW n \in DOMAIN served[k]
                 PROVE  served[k][n] <= 1
      BY DEF EqualsRotate, Selection!EqualsRotate
    <2>1. served[k] \in [Elements(k) -> {0, 1}]
      BY DEF SelectionInv, Rotating, Round
    <2> QED BY <2>1
  <1> QED BY <1>1, StationsStart, SelectionInit, SelectionNext, SelectionSteps, PTL DEF Spec

\* Only a removal takes a node off the list, and it takes no other.
LEMMA OneRemoved ==
    ASSUME SelectionInv, [Selection!Next]_Selection!vars, NEW n \in Node,
           Selection!Contains(known, n), ~Selection!Contains(known', n)
    PROVE  Selection!Unregister(n)
  <1>0. known \in Seq(Node) /\ Len(known) \in Nat
    BY DEF SelectionInv, Lists
  <1>1. ASSUME NEW m \in Node, NEW c \in Capabilities, Selection!Register(m, c)
        PROVE  FALSE
    <2>1. known' = known \/ known' = Append(known, m)
      BY <1>1 DEF Selection!Register
    <2>2. PICK i \in 1 .. Len(known) : known[i] = n
      BY DEF Selection!Contains
    <2>3. CASE known' = Append(known, m)
      <3>1. Len(known') = Len(known) + 1 /\ known'[i] = n /\ i \in 1 .. Len(known')
        BY <1>0, <2>2, <2>3, AppendProperties
      <3> QED BY <3>1 DEF Selection!Contains
    <2> QED BY <2>1, <2>3
  <1>2. ASSUME NEW m \in Node, Selection!Unregister(m)
        PROVE  m = n
    <2> SUFFICES ASSUME m # n PROVE FALSE
      OBVIOUS
    <2>1. known' = Without(known, {m})
      BY <1>2, SelectionOnly DEF Selection!Unregister
    <2>2. known' \in Seq(Node) /\ Elements(known') = Elements(known) \ {m}
      BY <1>0, <2>1, WithoutFacts
    <2>3. n \in Elements(known)
      BY <1>0 DEF Selection!Contains, Elements
    <2>4. n \in Elements(known')
      BY <2>2, <2>3
    <2> QED BY <2>2, <2>4 DEF Selection!Contains, Elements
  <1>3. ASSUME known' = known PROVE FALSE
    BY <1>3
  <1>4. ASSUME NEW m \in Node,
               Selection!FallsQuiet(m) \/ Selection!Enqueue(m) \/ Selection!Poll(m) \/ Selection!Finish(m)
        PROVE  known' = known
    BY <1>4 DEF Selection!FallsQuiet, Selection!Enqueue, Selection!Poll, Selection!Finish
  <1>5. ASSUME NEW model \in Model, NEW tier \in Tiers, Selection!SelectNext(model, tier)
        PROVE  known' = known
    BY <1>5 DEF Selection!SelectNext
  <1>6. UNCHANGED Selection!vars => known' = known
    BY DEF Selection!vars
  <1> QED BY <1>1, <1>2, <1>3, <1>4, <1>5, <1>6 DEF Selection!Next

\* A removal keeps the turn.
LEMMA RemovalKeepsTurn ==
    ASSUME SelectionInv, [Selection!Next]_Selection!vars
    PROVE  Selection!TurnKept
  <1> SUFFICES ASSUME NEW n \in Node, Selection!Contains(known, n),
                      ~Selection!Contains(known', n), Len(known) > 1
               PROVE  known'[(next' % Len(known')) + 1] =
                        IF known[(next % Len(known)) + 1] = n
                        THEN known[((next + 1) % Len(known)) + 1]
                        ELSE known[(next % Len(known)) + 1]
    BY DEF Selection!TurnKept
  <1>1. Selection!Unregister(n)
    BY OneRemoved
  <1>2. PICK j \in 1 .. Len(known) :
             /\ known[j] = n
             /\ known' \in Lists /\ Len(known') = Len(known) - 1
             /\ \A i \in 1 .. Len(known) - 1 :
                  known'[i] = IF i < j THEN known[i] ELSE known[i + 1]
             /\ next' = IF Len(known) = 1 THEN 0
                        ELSE IF j - 1 < next THEN next - 1
                        ELSE IF next = Len(known) - 1 THEN 0 ELSE next
    BY <1>1, UnregisterFacts
  <1> DEFINE L == Len(known)
  <1>3. /\ L \in Nat /\ L > 1 /\ next \in 0 .. L - 1 /\ known \in Lists
        /\ \A i, h \in 1 .. L : known[i] = known[h] => i = h
    BY DEF SelectionInv, Lists
  <1>4. next' \in 0 .. (L - 1) - 1
    BY <1>2, <1>3
  <1> HIDE DEF L
  <1>5. /\ \A a \in 0 .. L - 1 : a % L = a
        /\ L % L = 0
    <2>1. L \in Nat \ {0}
      BY <1>3
    <2> QED BY <2>1, Remainders
  <1>6. \A a \in 0 .. (L - 1) - 1 : a % (L - 1) = a
    <2> DEFINE M == L - 1
    <2>1. M \in Nat \ {0}
      BY <1>3
    <2> HIDE DEF M
    <2>2. \A a \in 0 .. M - 1 : a % M = a
      BY <2>1, Remainders
    <2> QED BY <2>2 DEF M
  <1>7. next % L = next /\ next' % (L - 1) = next'
    BY <1>3, <1>5, <1>6, <1>4
  <1>8. (next + 1) % L = IF next = L - 1 THEN 0 ELSE next + 1
    BY <1>3, <1>5
  <1>9. known[next + 1] = n <=> next + 1 = j
    BY <1>2, <1>3 DEF L
  <1>10. known'[next' + 1] = IF next' + 1 < j THEN known[next' + 1] ELSE known[next' + 2]
    BY <1>2, <1>3, <1>4 DEF L
  <1>11. known'[next' + 1] = IF next + 1 = j
                             THEN known[(IF next = L - 1 THEN 0 ELSE next + 1) + 1]
                             ELSE known[next + 1]
    <2>1. CASE j - 1 < next
      <3>1. next' = next - 1 /\ ~(next' + 1 < j) /\ next' + 2 = next + 1 /\ next + 1 # j
        BY <1>2, <1>3, <2>1 DEF L
      <3> QED BY <1>10, <3>1
    <2>2. CASE ~(j - 1 < next) /\ next = L - 1
      <3>1. next' = 0 /\ j = L /\ next + 1 = j /\ next' + 1 < j
        BY <1>2, <1>3, <2>2 DEF L
      <3> QED BY <1>10, <2>2, <3>1
    <2>3. CASE ~(j - 1 < next) /\ next # L - 1
      <3>1. next' = next /\ (next + 1 = j \/ next + 1 < j)
        BY <1>2, <1>3, <2>3 DEF L
      <3>2. next' + 2 = next + 1 + 1
        BY <1>3, <3>1
      <3> QED BY <1>3, <1>10, <2>3, <3>1, <3>2
    <2> QED BY <2>1, <2>2, <2>3
  <1>12. Len(known') = L - 1 /\ L = Len(known)
    BY <1>2 DEF L
  <1> QED BY <1>7, <1>8, <1>9, <1>11, <1>12

\* Removing a node keeps the place in the rotation (relay.py, _remove_known_server): whose
\* turn it was is still next, or the one after the removed node.
THEOREM TheTurnSurvives == Spec => TurnSurvivesRemoval
  <1>1. SelectionInv /\ [Selection!Next]_Selection!vars => [Selection!TurnKept]_Selection!vars
    BY RemovalKeepsTurn
  <1> QED
    BY <1>1, StationsStart, SelectionInit, SelectionNext, SelectionSteps, PTL
       DEF Spec, TurnSurvivesRemoval, Selection!TurnSurvivesRemoval

--------------------------------------------------------------------------------
(* ControlPlaneLimiter                                                     *)

\* Limits are numbers of requests (_parse_rate_limit_item of api/__init__.py reads them from
\* "<n>/<period>").
LimiterConstants == IpLimit \in Nat /\ IdLimit \in Nat

HitRecord == [bucket : Limiter!Bucket, fresh : BOOLEAN]
ThreadState == [pc : {"idle", "test", "hit", "rollback"}, buckets : Seq(Limiter!Bucket),
                at : Nat, hits : Seq(HitRecord)]

\* A thread has charged nothing before its first hit, and rolls back what it has charged.
ThreadOK(s) ==
    /\ s \in ThreadState
    /\ s.pc \in {"idle", "test"} => s.hits = <<>>
    /\ s.pc \in {"test", "hit"} => s.at \in 1 .. Len(s.buckets)
    /\ s.pc = "rollback" => s.hits # <<>>

\* The hits on b that this window counts; the open ones of all threads, and among them the
\* ones a thread may still turn into an admission.
FreshIn(hits, b) == {i \in 1 .. Len(hits) : hits[i].bucket = b /\ hits[i].fresh}
Open(f, b) == {p \in Thread \X Nat : p[2] \in FreshIn(f[p[1]].hits, b)}
Held(f, b) == {p \in Open(f, b) : f[p[1]].pc = "hit"}

\* The counter of a bucket, the admissions charged to it and the open hits agree up to the
\* rollbacks that took a charge of another window, and held hits passed the limit's test.
Balanced(b) ==
    /\ IsFiniteSet(Open(th, b))
    /\ decr => count[b] <= passed[b] + Cardinality(Open(th, b))
    /\ passed[b] + Cardinality(Open(th, b)) <= count[b] + strays[b]
    /\ passed[b] + Cardinality(Held(th, b)) <= Limiter!Limit(b) + strays[b]

LimiterInv ==
    /\ decr \in BOOLEAN
    /\ th \in [Thread -> ThreadState] /\ \A t \in Thread : ThreadOK(th[t])
    /\ count \in [Limiter!Bucket -> Nat]
    /\ passed \in [Limiter!Bucket -> Nat] /\ strays \in [Limiter!Bucket -> Nat]
    /\ \A b \in Limiter!Bucket : Balanced(b)

\* The instance's cardinality is the library's.
LEMMA LimiterCardinality == \A S : Limiter!Cardinality(S) = Cardinality(S)
  BY DEF Limiter!Cardinality, Cardinality

\* The fresh hits of a list are as many as there are, one by one.
LEMMA FreshCounts ==
    ASSUME NEW hits \in Seq(HitRecord), NEW b
    PROVE  /\ IsFiniteSet(FreshIn(hits, b)) /\ Cardinality(FreshIn(hits, b)) \in Nat
           /\ hits = <<>> => Cardinality(FreshIn(hits, b)) = 0
           /\ \A h \in HitRecord :
                Cardinality(FreshIn(Append(hits, h), b)) =
                    Cardinality(FreshIn(hits, b)) + IF h.bucket = b /\ h.fresh THEN 1 ELSE 0
           /\ hits # <<>> =>
                Cardinality(FreshIn(SubSeq(hits, 1, Len(hits) - 1), b)) =
                    Cardinality(FreshIn(hits, b)) -
                        IF hits[Len(hits)].bucket = b /\ hits[Len(hits)].fresh THEN 1 ELSE 0
  <1> DEFINE n == Len(hits)
             I == FreshIn(hits, b)
  <1>1. n \in Nat /\ I \in SUBSET (1 .. n)
    BY DEF FreshIn
  <1>2. IsFiniteSet(I) /\ Cardinality(I) \in Nat
    <2>1. IsFiniteSet(1 .. n)
      BY <1>1, FS_Interval
    <2> QED BY <1>1, <2>1, FS_Subset, FS_CardinalityType
  <1>3. hits = <<>> => Cardinality(I) = 0
    <2>1. hits = <<>> => I = {}
      BY <1>1
    <2> QED BY <2>1, FS_EmptySet
  <1>4. ASSUME NEW h \in HitRecord
        PROVE  Cardinality(FreshIn(Append(hits, h), b)) =
                   Cardinality(I) + IF h.bucket = b /\ h.fresh THEN 1 ELSE 0
    <2>1. /\ Len(Append(hits, h)) = n + 1
          /\ \A i \in 1 .. n : Append(hits, h)[i] = hits[i]
          /\ Append(hits, h)[n + 1] = h
      BY AppendProperties
    <2>2. n + 1 \notin I
      BY <1>1
    <2>3. CASE h.bucket = b /\ h.fresh
      <3>1. FreshIn(Append(hits, h), b) = I \cup {n + 1}
        BY <1>1, <2>1, <2>3 DEF FreshIn
      <3>2. Cardinality(I \cup {n + 1}) = Cardinality(I) + 1
        BY <1>2, <2>2, FS_AddElement
      <3> QED BY <2>3, <3>1, <3>2
    <2>4. CASE ~(h.bucket = b /\ h.fresh)
      <3>1. FreshIn(Append(hits, h), b) = I
        BY <1>1, <2>1, <2>4 DEF FreshIn
      <3> QED BY <1>2, <2>4, <3>1
    <2> QED BY <2>3, <2>4
  <1>5. ASSUME hits # <<>>
        PROVE  Cardinality(FreshIn(SubSeq(hits, 1, n - 1), b)) =
                   Cardinality(I) - IF hits[n].bucket = b /\ hits[n].fresh THEN 1 ELSE 0
    <2> DEFINE f == SubSeq(hits, 1, n - 1)
    <2>1. Len(f) = n - 1 /\ \A i \in 1 .. n - 1 : f[i] = hits[i]
      BY <1>5, FrontFacts
    <2>2. n \in Nat \ {0}
      BY <1>5, EmptySeq
    <2> HIDE DEF f
    <2>3. FreshIn(f, b) = I \ {n}
      BY <1>1, <2>1, <2>2 DEF FreshIn
    <2>4. n \in I <=> hits[n].bucket = b /\ hits[n].fresh
      BY <2>2 DEF FreshIn
    <2>5. Cardinality(I \ {n}) = IF n \in I THEN Cardinality(I) - 1 ELSE Cardinality(I)
      BY <1>2, FS_RemoveElement
    <2>6. Cardinality(FreshIn(f, b)) = IF n \in I THEN Cardinality(I) - 1 ELSE Cardinality(I) - 0
      BY <1>2, <2>3, <2>5
    <2>7. CASE n \in I
      BY <2>4, <2>6, <2>7 DEF f
    <2>8. CASE n \notin I
      BY <2>4, <2>6, <2>8 DEF f
    <2> QED BY <2>7, <2>8
  <1> QED BY <1>2, <1>3, <1>4, <1>5

\* One thread's part of the open hits: the others' part does not depend on it.
Others(f, t, b) == {p \in Open(f, b) : p[1] # t}
OthersHeld(f, t, b) == {p \in Held(f, b) : p[1] # t}

\* The open hits, and those of threads that have not been refused, are counted by thread.
LEMMA OpenSplits ==
    ASSUME NEW f \in [Thread -> ThreadState], NEW t \in Thread, NEW b, IsFiniteSet(Others(f, t, b))
    PROVE  /\ IsFiniteSet(Open(f, b))
           /\ Cardinality(Others(f, t, b)) \in Nat /\ Cardinality(OthersHeld(f, t, b)) \in Nat
           /\ Cardinality(OthersHeld(f, t, b)) <= Cardinality(Others(f, t, b))
           /\ Cardinality(Open(f, b)) =
                Cardinality(Others(f, t, b)) + Cardinality(FreshIn(f[t].hits, b))
           /\ Cardinality(Held(f, b)) =
                Cardinality(OthersHeld(f, t, b)) +
                    IF f[t].pc = "hit" THEN Cardinality(FreshIn(f[t].hits, b)) ELSE 0
  <1> DEFINE I == FreshIn(f[t].hits, b)
             P == {p \in Thread \X Nat : p[1] = t /\ p[2] \in I}
             O == Others(f, t, b)
             H == OthersHeld(f, t, b)
  <1>1. f[t].hits \in Seq(HitRecord)
    BY DEF ThreadState
  <1>2. IsFiniteSet(I) /\ Cardinality(I) \in Nat
    BY <1>1, FreshCounts
  <1>3. I \subseteq Nat
    BY <1>1 DEF FreshIn
  <1>4. IsFiniteSet(P) /\ Cardinality(P) = Cardinality(I)
    <2> DEFINE g == [i \in I |-> <<t, i>>]
    <2>1. g \in Bijection(I, P)
      <3>1. g \in [I -> P]
        BY <1>3
      <3>2. \A i, j \in I : g[i] = g[j] => i = j
        OBVIOUS
      <3>3. \A p \in P : \E i \in I : g[i] = p
        OBVIOUS
      <3> QED BY <3>1, <3>2, <3>3, Fun_IsBij
    <2>2. ExistsBijection(I, P)
      BY <2>1 DEF ExistsBijection
    <2> QED BY <1>2, <2>2, FS_Bijection
  <1>5. Open(f, b) = O \cup P /\ O \cap P = {}
    BY DEF Open, Others
  <1>6. H \in SUBSET O
    BY DEF OthersHeld, Others, Held
  <1>7. IsFiniteSet(H) /\ Cardinality(H) \in Nat /\ Cardinality(O) \in Nat /\ Cardinality(H) <= Cardinality(O)
    BY <1>6, FS_Subset, FS_CardinalityType
  <1>8. Held(f, b) = (IF f[t].pc = "hit" THEN H \cup P ELSE H) /\ H \cap P = {}
    BY DEF Held, Open, OthersHeld
  <1> HIDE DEF I, P, O, H
  <1>9. Cardinality({}) = 0
    BY FS_EmptySet
  <1>10. /\ IsFiniteSet(O \cup P)
         /\ Cardinality(O \cup P) = Cardinality(O) + Cardinality(P) - Cardinality(O \cap P)
    BY <1>4, FS_Union DEF O
  <1>11. Cardinality(H \cup P) = Cardinality(H) + Cardinality(P) - Cardinality(H \cap P)
    BY <1>4, <1>7, FS_Union
  <1>12. Cardinality(O \cup P) = Cardinality(O) + Cardinality(I)
    <2>1. Cardinality(O \cap P) = 0
      BY <1>5, <1>9
    <2> QED BY <1>2, <1>4, <1>7, <1>10, <2>1
  <1>13. Cardinality(H \cup P) = Cardinality(H) + Cardinality(I)
    <2>1. Cardinality(H \cap P) = 0
      BY <1>8, <1>9
    <2> QED BY <1>2, <1>4, <1>7, <1>11, <2>1
  <1>14. Cardinality(Held(f, b)) = Cardinality(H) + IF f[t].pc = "hit" THEN Cardinality(I) ELSE 0
    BY <1>7, <1>8, <1>13
  <1> QED BY <1>5, <1>7, <1>10, <1>12, <1>14 DEF I, O, H

\* When one thread moves, the open hits change by what that thread holds.
LEMMA ThreadMoves ==
    ASSUME LimiterInv, NEW t \in Thread, NEW s \in ThreadState, th' = [th EXCEPT ![t] = s],
           NEW b \in Limiter!Bucket
    PROVE  \E F, G \in Nat :
             LET i == Cardinality(FreshIn(th[t].hits, b))
                 j == Cardinality(FreshIn(s.hits, b)) IN
             /\ G <= F /\ i \in Nat /\ j \in Nat
             /\ IsFiniteSet(Open(th', b))
             /\ Cardinality(Open(th, b)) = F + i /\ Cardinality(Open(th', b)) = F + j
             /\ Cardinality(Held(th, b)) = G + (IF th[t].pc = "hit" THEN i ELSE 0)
             /\ Cardinality(Held(th', b)) = G + (IF s.pc = "hit" THEN j ELSE 0)
  <1>1. th \in [Thread -> ThreadState] /\ th' \in [Thread -> ThreadState] /\ th'[t] = s
    BY DEF LimiterInv
  <1>2. \A u \in Thread : u # t => th'[u] = th[u]
    BY <1>1
  <1>3. Others(th', t, b) = Others(th, t, b)
    BY <1>2 DEF Others, Open
  <1>4. OthersHeld(th', t, b) = OthersHeld(th, t, b)
    BY <1>2 DEF OthersHeld, Held, Open
  <1>5. IsFiniteSet(Others(th, t, b))
    <2>1. IsFiniteSet(Open(th, b)) /\ Others(th, t, b) \in SUBSET Open(th, b)
      BY DEF LimiterInv, Balanced, Others
    <2> QED BY <2>1, FS_Subset
  <1> DEFINE F == Cardinality(Others(th, t, b))
             G == Cardinality(OthersHeld(th, t, b))
             i == Cardinality(FreshIn(th[t].hits, b))
             j == Cardinality(FreshIn(s.hits, b))
  <1>6. /\ F \in Nat /\ G \in Nat /\ G <= F
        /\ Cardinality(Open(th, b)) = F + i
        /\ Cardinality(Held(th, b)) = G + (IF th[t].pc = "hit" THEN i ELSE 0)
    BY <1>1, <1>5, OpenSplits
  <1>7. /\ IsFiniteSet(Open(th', b))
        /\ Cardinality(Open(th', b)) = F + j
        /\ Cardinality(Held(th', b)) = G + (IF s.pc = "hit" THEN j ELSE 0)
    <2>1. IsFiniteSet(Others(th', t, b))
      BY <1>3, <1>5
    <2>2. /\ IsFiniteSet(Open(th', b))
          /\ Cardinality(Open(th', b)) =
               Cardinality(Others(th', t, b)) + Cardinality(FreshIn(th'[t].hits, b))
          /\ Cardinality(Held(th', b)) =
               Cardinality(OthersHeld(th', t, b)) +
                   IF th'[t].pc = "hit" THEN Cardinality(FreshIn(th'[t].hits, b)) ELSE 0
      BY <1>1, <2>1, OpenSplits
    <2> QED BY <1>1, <1>3, <1>4, <2>2
  <1>8. i \in Nat /\ j \in Nat
    <2>1. th[t].hits \in Seq(HitRecord) /\ s.hits \in Seq(HitRecord)
      BY <1>1 DEF ThreadState
    <2> QED BY <2>1, FreshCounts
  <1> HIDE DEF F, G, i, j
  <1>9. \E F1, G1 \in Nat :
             /\ G1 <= F1 /\ i \in Nat /\ j \in Nat
             /\ IsFiniteSet(Open(th', b))
             /\ Cardinality(Open(th, b)) = F1 + i /\ Cardinality(Open(th', b)) = F1 + j
             /\ Cardinality(Held(th, b)) = G1 + (IF th[t].pc = "hit" THEN i ELSE 0)
             /\ Cardinality(Held(th', b)) = G1 + (IF s.pc = "hit" THEN j ELSE 0)
    BY <1>6, <1>7, <1>8
  <1> QED BY <1>9 DEF i, j

\* A thread that holds nothing before and after moves no balance.
LEMMA QuietMove ==
    ASSUME LimiterInv, NEW t \in Thread, NEW s, ThreadOK(s), th' = [th EXCEPT ![t] = s],
           th[t].hits = <<>>, s.hits = <<>>,
           UNCHANGED <<decr, count, passed, strays>>
    PROVE  LimiterInv'
  <1>1. s \in ThreadState
    BY DEF ThreadOK
  <1>2. th' \in [Thread -> ThreadState] /\ \A u \in Thread : ThreadOK(th'[u])
    BY <1>1 DEF LimiterInv
  <1>3. ASSUME NEW b \in Limiter!Bucket PROVE Balanced(b)'
    <2>1. Cardinality(FreshIn(<<>>, b)) = 0
      BY EmptySeq, FreshCounts
    <2>2. /\ IsFiniteSet(Open(th', b))
          /\ Cardinality(Open(th', b)) = Cardinality(Open(th, b))
          /\ Cardinality(Held(th', b)) = Cardinality(Held(th, b))
      <3>1. PICK F, G \in Nat :
              /\ IsFiniteSet(Open(th', b))
              /\ Cardinality(Open(th, b)) = F + Cardinality(FreshIn(th[t].hits, b))
              /\ Cardinality(Open(th', b)) = F + Cardinality(FreshIn(s.hits, b))
              /\ Cardinality(Held(th, b)) =
                   G + (IF th[t].pc = "hit" THEN Cardinality(FreshIn(th[t].hits, b)) ELSE 0)
              /\ Cardinality(Held(th', b)) =
                   G + (IF s.pc = "hit" THEN Cardinality(FreshIn(s.hits, b)) ELSE 0)
        BY <1>1, ThreadMoves
      <3> QED BY <2>1, <3>1
    <2> QED BY <2>2 DEF LimiterInv, Balanced, Limiter!Limit
  <1> QED BY <1>2, <1>3 DEF LimiterInv

\* An idle thread has made no hit.
LEMMA IdleOK == ThreadOK(Limiter!Idle) /\ Limiter!Idle.hits = <<>> /\ Limiter!Idle.pc = "idle"
  BY DEF ThreadOK, ThreadState, Limiter!Idle, HitRecord
\* A thread that enters a plan has made no hit of it.
LEMMA EnterOK ==
    ASSUME NEW point \in {"test", "hit"}, NEW p \in Seq(Limiter!Bucket), p # <<>>
    PROVE  ThreadOK(Limiter!Enter(point, p, <<>>)) /\ Limiter!Enter(point, p, <<>>).hits = <<>>
  <1>1. Len(p) \in Nat \ {0}
    BY EmptySeq
  <1> QED BY <1>1 DEF ThreadOK, ThreadState, Limiter!Enter, HitRecord

\* A plan names one bucket or two.
LEMMA PlansAreLists ==
    ASSUME NEW p \in Limiter!Plans
    PROVE  p \in Seq(Limiter!Bucket) /\ p # <<>>
  <1>1. PICK r \in Limiter!Request : p = Limiter!Checks(r)
    BY DEF Limiter!Plans
  <1>2. Limiter!Identity(r) # None => Limiter!Identity(r) \in Key
    BY DEF Limiter!Identity, Limiter!Request
  <1>3. p = <<"ip">> \/ (Limiter!Identity(r) \in Key /\ p = <<"ip", Limiter!Identity(r)>>)
    BY <1>1, <1>2 DEF Limiter!Checks
  <1>4. "ip" \in Limiter!Bucket /\ Key \subseteq Limiter!Bucket
    BY DEF Limiter!Bucket
  <1>5. CASE p = <<"ip">>
    BY <1>4, <1>5
  <1>6. CASE Limiter!Identity(r) \in Key /\ p = <<"ip", Limiter!Identity(r)>>
    <2>1. Limiter!Identity(r) \in Limiter!Bucket
      BY <1>4, <1>6
    <2> QED BY <1>4, <1>6, <2>1
  <1> QED BY <1>3, <1>5, <1>6

\* Beginning charges nothing.
LEMMA BeginKeeps ==
    ASSUME LimiterInv, NEW t \in Thread, Limiter!Begin(t)
    PROVE  LimiterInv'
  <1>1. PICK p \in Limiter!Plans : th' = [th EXCEPT ![t] = Limiter!Enter("test", p, <<>>)]
    BY DEF Limiter!Begin, Limiter!Become
  <1>2. th[t].hits = <<>> /\ UNCHANGED <<decr, count, passed, strays>>
    BY DEF Limiter!Begin, LimiterInv, ThreadOK
  <1> QED BY <1>1, <1>2, PlansAreLists, EnterOK, QuietMove

\* A test charges nothing; a refusal before the first hit has nothing to roll back.
LEMMA TestKeeps ==
    ASSUME LimiterInv, LimiterConstants, NEW t \in Thread, Limiter!Test(t)
    PROVE  LimiterInv'
  <1>1. th[t].hits = <<>> /\ UNCHANGED <<decr, count, passed, strays>> /\ ThreadOK(th[t])
    BY DEF Limiter!Test, LimiterInv, ThreadOK
  <1>2. th[t].buckets \in Seq(Limiter!Bucket) /\ th[t].at \in 1 .. Len(th[t].buckets)
    BY <1>1 DEF Limiter!Test, ThreadOK, ThreadState
  <1>3. count[Limiter!At(t)] \in Nat /\ Limiter!Limit(Limiter!At(t)) \in Nat
    BY <1>2 DEF Limiter!At, Limiter!Limit, LimiterConstants, LimiterInv
  <1>4. \/ th' = [th EXCEPT ![t] = Limiter!Idle]
        \/ /\ th[t].at < Len(th[t].buckets)
           /\ th' = [th EXCEPT ![t] = [th[t] EXCEPT !.at = @ + 1]]
        \/ th' = [th EXCEPT ![t] = Limiter!Enter("hit", Limiter!HitOrder(th[t].buckets), <<>>)]
    <2>1. CASE count[Limiter!At(t)] >= Limiter!Limit(Limiter!At(t))
      <3>1. ~(count[Limiter!At(t)] < Limiter!Limit(Limiter!At(t)))
        BY <1>3, <2>1
      <3>2. th' = [th EXCEPT ![t] = Limiter!Idle]
        BY <2>1, <3>1 DEF Limiter!Test, Limiter!Become
      <3> QED BY <3>2
    <2>2. CASE /\ ~(count[Limiter!At(t)] >= Limiter!Limit(Limiter!At(t)))
               /\ th[t].at < Len(th[t].buckets)
      BY <1>3, <2>2 DEF Limiter!Test, Limiter!Become
    <2>3. CASE /\ ~(count[Limiter!At(t)] >= Limiter!Limit(Limiter!At(t)))
               /\ ~(th[t].at < Len(th[t].buckets))
      BY <1>3, <2>3 DEF Limiter!Test, Limiter!Become
    <2> QED BY <2>1, <2>2, <2>3
  <1>5. CASE th' = [th EXCEPT ![t] = Limiter!Idle]
    BY <1>1, <1>5, IdleOK, QuietMove
  <1>6. CASE /\ th[t].at < Len(th[t].buckets)
             /\ th' = [th EXCEPT ![t] = [th[t] EXCEPT !.at = @ + 1]]
    <2> DEFINE s == [th[t] EXCEPT !.at = @ + 1]
    <2>1. ThreadOK(s) /\ s.hits = <<>>
      BY <1>1, <1>2, <1>6 DEF ThreadOK, ThreadState
    <2> HIDE DEF s
    <2> QED BY <1>1, <1>6, <2>1, QuietMove DEF s
  <1>7. CASE th' = [th EXCEPT ![t] = Limiter!Enter("hit", Limiter!HitOrder(th[t].buckets), <<>>)]
    <2> DEFINE p == Limiter!HitOrder(th[t].buckets)
    <2>1. p \in Seq(Limiter!Bucket) /\ p # <<>>
      BY <1>2 DEF Limiter!HitOrder, Limiter!Reverse
    <2> QED BY <1>1, <1>7, <2>1, EnterOK, QuietMove
  <1> QED BY <1>4, <1>5, <1>6, <1>7

\* A hit: the counter and the open hits grow together, and a hit that stays within the
\* limit may be held or admitted.
LEMMA HitKeeps ==
    ASSUME LimiterInv, LimiterConstants, NEW t \in Thread, Limiter!Hit(t)
    PROVE  LimiterInv'
  <1> DEFINE b == Limiter!At(t)
             h == [bucket |-> b, fresh |-> TRUE]
             hits == Append(th[t].hits, h)
  <1>1. ThreadOK(th[t]) /\ th[t].pc = "hit" /\ th[t] \in ThreadState
    BY DEF Limiter!Hit, LimiterInv
  <1>2. th[t].buckets \in Seq(Limiter!Bucket) /\ th[t].at \in 1 .. Len(th[t].buckets)
    BY <1>1 DEF ThreadOK, ThreadState
  <1>3. b \in Limiter!Bucket /\ th[t].hits \in Seq(HitRecord) /\ h \in HitRecord
    BY <1>1, <1>2 DEF Limiter!At, HitRecord, ThreadState
  <1>4. hits \in Seq(HitRecord) /\ hits # <<>>
    BY <1>3, AppendProperties
  <1>5. /\ decr' = decr /\ decr \in BOOLEAN
        /\ count' = [count EXCEPT ![b] = @ + 1] /\ strays' = strays
        /\ count' \in [Limiter!Bucket -> Nat] /\ count[b] \in Nat /\ Limiter!Limit(b) \in Nat
    BY <1>3 DEF Limiter!Hit, LimiterInv, Limiter!Limit, LimiterConstants
  <1>6. \/ /\ count[b] + 1 > Limiter!Limit(b) /\ passed' = passed
           /\ th' = [th EXCEPT ![t] = Limiter!Enter("rollback", <<>>, hits)]
        \/ /\ ~(count[b] + 1 > Limiter!Limit(b)) /\ passed' = passed
           /\ th[t].at < Len(th[t].buckets)
           /\ th' = [th EXCEPT ![t] = [th[t] EXCEPT !.at = @ + 1, !.hits = hits]]
        \/ /\ ~(count[b] + 1 > Limiter!Limit(b))
           /\ passed' = [x \in Limiter!Bucket |->
                passed[x] + Limiter!Cardinality({i \in 1 .. Len(hits) : hits[i].bucket = x /\ hits[i].fresh})]
           /\ th' = [th EXCEPT ![t] = Limiter!Idle]
    BY DEF Limiter!Hit, Limiter!Become
  <1>7. ASSUME NEW x \in Limiter!Bucket
        PROVE  /\ Cardinality(FreshIn(hits, x)) =
                    Cardinality(FreshIn(th[t].hits, x)) + IF x = b THEN 1 ELSE 0
               /\ count'[x] = count[x] + IF x = b THEN 1 ELSE 0
               /\ Cardinality(FreshIn(hits, x)) \in Nat
    <2>1. h.bucket = b /\ h.fresh
      OBVIOUS
    <2>2. Cardinality(FreshIn(hits, x)) =
              Cardinality(FreshIn(th[t].hits, x)) + IF h.bucket = x /\ h.fresh THEN 1 ELSE 0
      BY <1>3, FreshCounts
    <2>3. count'[x] = count[x] + IF x = b THEN 1 ELSE 0
      BY <1>3, <1>5 DEF LimiterInv
    <2>4. Cardinality(FreshIn(hits, x)) \in Nat
      BY <1>4, FreshCounts
    <2> QED BY <2>1, <2>2, <2>3, <2>4
  <1> HIDE DEF hits, h, b
  <1>8. ASSUME NEW s, ThreadOK(s), th' = [th EXCEPT ![t] = s],
               passed' \in [Limiter!Bucket -> Nat],
               \/ passed' = passed /\ s.hits = hits /\ (s.pc = "hit" => count[b] + 1 <= Limiter!Limit(b))
               \/ /\ s.hits = <<>> /\ count[b] + 1 <= Limiter!Limit(b)
                  /\ \A x \in Limiter!Bucket : passed'[x] = passed[x] + Cardinality(FreshIn(hits, x))
        PROVE  LimiterInv'
    <2>1. s \in ThreadState
      BY <1>8 DEF ThreadOK
    <2>2. th' \in [Thread -> ThreadState] /\ \A u \in Thread : ThreadOK(th'[u])
      BY <1>8, <2>1 DEF LimiterInv
    <2>3. ASSUME NEW x \in Limiter!Bucket PROVE Balanced(x)'
      <3> DEFINE i == Cardinality(FreshIn(th[t].hits, x))
                 j == Cardinality(FreshIn(s.hits, x))
                 d == IF x = b THEN 1 ELSE 0
      <3>1. PICK F, G \in Nat :
              /\ G <= F /\ i \in Nat /\ j \in Nat
              /\ IsFiniteSet(Open(th', x))
              /\ Cardinality(Open(th, x)) = F + i /\ Cardinality(Open(th', x)) = F + j
              /\ Cardinality(Held(th, x)) = G + (IF th[t].pc = "hit" THEN i ELSE 0)
              /\ Cardinality(Held(th', x)) = G + (IF s.pc = "hit" THEN j ELSE 0)
        BY <1>8, <2>1, ThreadMoves
      <3>2. /\ decr => count[x] <= passed[x] + (F + i)
            /\ passed[x] + (F + i) <= count[x] + strays[x]
            /\ passed[x] + (G + i) <= Limiter!Limit(x) + strays[x]
        BY <1>1, <3>1 DEF LimiterInv, Balanced
      <3>3. /\ Cardinality(FreshIn(hits, x)) = i + d /\ count'[x] = count[x] + d /\ d \in {0, 1}
            /\ strays' = strays
            /\ count[x] \in Nat /\ passed[x] \in Nat /\ strays[x] \in Nat /\ Limiter!Limit(x) \in Nat
        BY <1>5, <1>7 DEF LimiterInv, Limiter!Limit, LimiterConstants
      <3>4. Cardinality(FreshIn(<<>>, x)) = 0
        BY EmptySeq, FreshCounts
      <3>5. s.hits = <<>> => j = 0
        BY <3>4
      <3>6. s.hits = hits => j = i + d
        BY <3>3
      <3>7. d = 1 /\ count[b] + 1 <= Limiter!Limit(b) => count[x] + 1 <= Limiter!Limit(x)
        OBVIOUS
      <3> HIDE DEF i, j, d
      <3>8. /\ decr => count'[x] <= passed'[x] + (F + j)
            /\ passed'[x] + (F + j) <= count'[x] + strays'[x]
            /\ passed'[x] + (G + (IF s.pc = "hit" THEN j ELSE 0)) <= Limiter!Limit(x) + strays'[x]
        <4>1. CASE passed' = passed /\ s.hits = hits /\ (s.pc = "hit" => count[b] + 1 <= Limiter!Limit(b))
          BY <3>1, <3>2, <3>3, <3>6, <3>7, <4>1
        <4>2. CASE /\ s.hits = <<>> /\ count[b] + 1 <= Limiter!Limit(b)
                   /\ \A y \in Limiter!Bucket : passed'[y] = passed[y] + Cardinality(FreshIn(hits, y))
          <5>1. passed'[x] = passed[x] + (i + d) /\ strays'[x] = strays[x] /\ j = 0
            BY <3>3, <3>5, <4>2
          <5>2. CASE d = 1
            <6>1. count[x] + 1 <= Limiter!Limit(x) /\ count'[x] = count[x] + 1
              BY <3>3, <3>7, <4>2, <5>2
            <6> QED BY <3>1, <3>2, <3>3, <5>1, <5>2, <6>1
          <5>3. CASE d = 0
            BY <3>1, <3>2, <3>3, <5>1, <5>3
          <5> QED BY <3>3, <5>2, <5>3
        <4> QED BY <1>8, <4>1, <4>2
      <3> QED BY <1>5, <3>1, <3>8 DEF Balanced, Limiter!Limit
    <2> QED BY <1>5, <1>8, <2>2, <2>3 DEF LimiterInv
  <1>9. passed \in [Limiter!Bucket -> Nat]
    BY DEF LimiterInv
  <1>10. CASE /\ passed' = passed
              /\ th' = [th EXCEPT ![t] = Limiter!Enter("rollback", <<>>, hits)]
    <2> DEFINE s == Limiter!Enter("rollback", <<>>, hits)
    <2>1. ThreadOK(s) /\ s.hits = hits /\ s.pc # "hit"
      BY <1>4 DEF ThreadOK, ThreadState, Limiter!Enter
    <2> HIDE DEF s
    <2> QED BY <1>8, <1>9, <1>10, <2>1 DEF s
  <1>11. CASE /\ ~(count[b] + 1 > Limiter!Limit(b)) /\ passed' = passed
              /\ th[t].at < Len(th[t].buckets)
              /\ th' = [th EXCEPT ![t] = [th[t] EXCEPT !.at = @ + 1, !.hits = hits]]
    <2> DEFINE s == [th[t] EXCEPT !.at = @ + 1, !.hits = hits]
    <2>1. ThreadOK(s) /\ s.hits = hits
      <3>1. s.pc = "hit" /\ s.buckets = th[t].buckets /\ s.at = th[t].at + 1 /\ s.hits = hits
        BY <1>1 DEF ThreadState
      <3>2. s.at \in Nat /\ s.at \in 1 .. Len(s.buckets)
        BY <1>2, <1>11, <3>1
      <3>3. s \in ThreadState
        BY <1>1, <1>4, <3>1, <3>2 DEF ThreadState
      <3> HIDE DEF s
      <3> QED BY <3>1, <3>2, <3>3 DEF ThreadOK
    <2>2. count[b] + 1 <= Limiter!Limit(b)
      BY <1>5, <1>11
    <2> HIDE DEF s
    <2> QED BY <1>8, <1>9, <1>11, <2>1, <2>2 DEF s
  <1>12. CASE /\ ~(count[b] + 1 > Limiter!Limit(b))
              /\ passed' = [x \in Limiter!Bucket |->
                   passed[x] + Limiter!Cardinality({i \in 1 .. Len(hits) : hits[i].bucket = x /\ hits[i].fresh})]
              /\ th' = [th EXCEPT ![t] = Limiter!Idle]
    <2>1. count[b] + 1 <= Limiter!Limit(b)
      BY <1>5, <1>12
    <2>2. \A x \in Limiter!Bucket : passed'[x] = passed[x] + Cardinality(FreshIn(hits, x))
      BY <1>12, LimiterCardinality DEF FreshIn
    <2>3. passed' \in [Limiter!Bucket -> Nat]
      <3>1. DOMAIN passed' = Limiter!Bucket /\ passed' = [x \in Limiter!Bucket |-> passed'[x]]
        BY <1>12
      <3>2. \A x \in Limiter!Bucket : passed'[x] \in Nat
        BY <1>7, <1>9, <2>2
      <3> QED BY <3>1, <3>2
    <2> QED BY <1>8, <1>12, <2>1, <2>2, <2>3, IdleOK
  <1> QED BY <1>6, <1>10, <1>11, <1>12

\* One decrement of a rollback takes back a hit of this window, or a charge another made.
LEMMA RollbackKeeps ==
    ASSUME LimiterInv, LimiterConstants, NEW t \in Thread, Limiter!Rollback(t)
    PROVE  LimiterInv'
  <1> DEFINE n == Len(th[t].hits)
             h == th[t].hits[n]
             front == SubSeq(th[t].hits, 1, n - 1)
             s == IF n = 1 THEN Limiter!Idle ELSE [th[t] EXCEPT !.hits = front]
  <1>1. ThreadOK(th[t]) /\ th[t].pc = "rollback" /\ th[t] \in ThreadState
    BY DEF Limiter!Rollback, LimiterInv
  <1>2. th[t].hits \in Seq(HitRecord) /\ th[t].hits # <<>>
    BY <1>1 DEF ThreadOK, ThreadState
  <1>3. n \in Nat \ {0} /\ h \in HitRecord /\ h.bucket \in Limiter!Bucket /\ h.fresh \in BOOLEAN
    <2>1. n \in Nat \ {0}
      BY <1>2, EmptySeq
    <2>2. h \in HitRecord
      BY <1>2, <2>1
    <2> QED BY <2>1, <2>2 DEF HitRecord
  <1>4. front \in Seq(HitRecord) /\ Len(front) = n - 1
    BY <1>2, FrontFacts
  <1>5. /\ decr' = decr /\ decr \in BOOLEAN
        /\ count' = [count EXCEPT ![h.bucket] = IF decr /\ @ > 0 THEN @ - 1 ELSE @]
        /\ strays' = (IF h.fresh \/ ~decr THEN strays ELSE [strays EXCEPT ![h.bucket] = @ + 1])
        /\ passed' = passed
        /\ th' = [th EXCEPT ![t] = s]
    BY DEF Limiter!Rollback, Limiter!Last, Limiter!Front, Limiter!Become, LimiterInv
  <1>6. ThreadOK(s) /\ s.hits = front /\ s.pc # "hit"
    <2>1. CASE n = 1
      <3>1. front = <<>>
        BY <1>4, <2>1
      <3> QED BY <2>1, <3>1, IdleOK
    <2>2. CASE n # 1
      <3>1. front # <<>>
        <4> HIDE DEF front, n
        <4>1. Len(front) # 0
          BY <1>3, <1>4, <2>2
        <4> QED BY <4>1
      <3> HIDE DEF front, n
      <3> QED BY <1>1, <1>4, <2>2, <3>1 DEF ThreadOK, ThreadState
    <2> QED BY <2>1, <2>2
  <1>7. ASSUME NEW x \in Limiter!Bucket
        PROVE  /\ Cardinality(FreshIn(front, x)) =
                    Cardinality(FreshIn(th[t].hits, x)) - IF h.bucket = x /\ h.fresh THEN 1 ELSE 0
               /\ count'[x] = IF x = h.bucket /\ decr /\ count[x] > 0 THEN count[x] - 1 ELSE count[x]
               /\ strays'[x] = strays[x] + IF x = h.bucket /\ ~h.fresh /\ decr THEN 1 ELSE 0
               /\ count[x] \in Nat /\ strays[x] \in Nat /\ passed[x] \in Nat
    <2>1. count[x] \in Nat /\ strays[x] \in Nat /\ passed[x] \in Nat
      BY DEF LimiterInv
    <2>2. Cardinality(FreshIn(front, x)) =
              Cardinality(FreshIn(th[t].hits, x)) - IF h.bucket = x /\ h.fresh THEN 1 ELSE 0
      BY <1>2, FreshCounts
    <2>3. count'[x] = IF x = h.bucket /\ decr /\ count[x] > 0 THEN count[x] - 1 ELSE count[x]
      BY <1>3, <1>5, <2>1 DEF LimiterInv
    <2>4. strays'[x] = strays[x] + IF x = h.bucket /\ ~h.fresh /\ decr THEN 1 ELSE 0
      BY <1>3, <1>5, <2>1 DEF LimiterInv
    <2> QED BY <2>1, <2>2, <2>3, <2>4
  <1> HIDE DEF n, h, front, s
  <1>8. /\ count' \in [Limiter!Bucket -> Nat] /\ strays' \in [Limiter!Bucket -> Nat]
        /\ th' \in [Thread -> ThreadState] /\ \A u \in Thread : ThreadOK(th'[u])
    <2>1. s \in ThreadState
      BY <1>6 DEF ThreadOK
    <2>2. th' \in [Thread -> ThreadState] /\ \A u \in Thread : ThreadOK(th'[u])
      BY <1>5, <1>6, <2>1 DEF LimiterInv
    <2>3. \A x \in Limiter!Bucket : count'[x] \in Nat /\ strays'[x] \in Nat
      BY <1>7
    <2>4. /\ count' = [x \in Limiter!Bucket |-> count'[x]]
          /\ strays' = [x \in Limiter!Bucket |-> strays'[x]]
      BY <1>5 DEF LimiterInv
    <2> QED BY <2>2, <2>3, <2>4
  <1>9. ASSUME NEW x \in Limiter!Bucket PROVE Balanced(x)'
    <2> DEFINE i == Cardinality(FreshIn(th[t].hits, x))
               j == Cardinality(FreshIn(s.hits, x))
               mine == h.bucket = x
    <2>1. PICK F, G \in Nat :
            /\ G <= F /\ i \in Nat /\ j \in Nat
            /\ IsFiniteSet(Open(th', x))
            /\ Cardinality(Open(th, x)) = F + i /\ Cardinality(Open(th', x)) = F + j
            /\ Cardinality(Held(th, x)) = G + (IF th[t].pc = "hit" THEN i ELSE 0)
            /\ Cardinality(Held(th', x)) = G + (IF s.pc = "hit" THEN j ELSE 0)
      <3>1. s \in ThreadState
        BY <1>6 DEF ThreadOK
      <3> QED BY <1>5, <3>1, ThreadMoves
    <2>2. /\ decr => count[x] <= passed[x] + (F + i)
          /\ passed[x] + (F + i) <= count[x] + strays[x]
          /\ passed[x] + G <= Limiter!Limit(x) + strays[x]
          /\ Limiter!Limit(x) \in Nat
      BY <1>1, <2>1 DEF LimiterInv, Balanced, Limiter!Limit, LimiterConstants
    <2>3. /\ j = i - (IF mine /\ h.fresh THEN 1 ELSE 0)
          /\ count'[x] = IF mine /\ decr /\ count[x] > 0 THEN count[x] - 1 ELSE count[x]
          /\ strays'[x] = strays[x] + IF mine /\ ~h.fresh /\ decr THEN 1 ELSE 0
          /\ count[x] \in Nat /\ strays[x] \in Nat /\ passed[x] \in Nat
      BY <1>6, <1>7
    <2> HIDE DEF i, j, mine
    <2>4. /\ decr => count'[x] <= passed[x] + (F + j)
          /\ passed[x] + (F + j) <= count'[x] + strays'[x]
          /\ passed[x] + G <= Limiter!Limit(x) + strays'[x]
      <3>1. CASE ~mine \/ ~decr
        BY <2>1, <2>2, <2>3, <3>1
      <3>2. CASE mine /\ decr /\ h.fresh
        BY <2>1, <2>2, <2>3, <3>2
      <3>3. CASE mine /\ decr /\ ~h.fresh
        BY <2>1, <2>2, <2>3, <3>3
      <3> QED BY <3>1, <3>2, <3>3
    <2>5. Cardinality(Held(th', x)) = G
      BY <1>6, <2>1
    <2> QED BY <1>5, <2>1, <2>4, <2>5 DEF Balanced, Limiter!Limit
  <1> QED BY <1>5, <1>8, <1>9 DEF LimiterInv

\* The end of a window forgets its counter and the charges of the hits under way.
LEMMA EndWindowKeeps ==
    ASSUME LimiterInv, LimiterConstants, NEW b \in Limiter!Bucket, Limiter!EndWindow(b)
    PROVE  LimiterInv'
  <1> DEFINE Aged(t) == Limiter!Aged(th[t].hits, b)
  <1>1. /\ th' = [t \in Thread |-> [th[t] EXCEPT !.hits = Aged(t)]]
        /\ count' = [count EXCEPT ![b] = 0] /\ passed' = [passed EXCEPT ![b] = 0]
        /\ strays' = [strays EXCEPT ![b] = 0] /\ decr' = decr /\ decr \in BOOLEAN
    BY DEF Limiter!EndWindow, LimiterInv
  <1>2. ASSUME NEW t \in Thread
        PROVE  /\ Aged(t) \in Seq(HitRecord) /\ Len(Aged(t)) = Len(th[t].hits)
               /\ (Aged(t) = <<>> <=> th[t].hits = <<>>)
               /\ \A x \in Limiter!Bucket :
                    FreshIn(Aged(t), x) = IF x = b THEN {} ELSE FreshIn(th[t].hits, x)
    <2>1. th[t].hits \in Seq(HitRecord) /\ Len(th[t].hits) \in Nat
      BY DEF LimiterInv, ThreadState
    <2>2. ASSUME NEW i \in 1 .. Len(th[t].hits)
          PROVE  LET a == [th[t].hits[i] EXCEPT !.fresh = @ /\ th[t].hits[i].bucket # b] IN
                 /\ a \in HitRecord /\ a.bucket = th[t].hits[i].bucket
                 /\ a.fresh <=> th[t].hits[i].fresh /\ th[t].hits[i].bucket # b
      <3>1. th[t].hits[i] \in HitRecord
        BY <2>1
      <3> QED BY <3>1 DEF HitRecord
    <2>3. Aged(t) \in Seq(HitRecord) /\ Len(Aged(t)) = Len(th[t].hits)
      BY <2>1, <2>2 DEF Limiter!Aged
    <2>4. \A i \in 1 .. Len(th[t].hits) :
            /\ Aged(t)[i].bucket = th[t].hits[i].bucket
            /\ Aged(t)[i].fresh <=> th[t].hits[i].fresh /\ th[t].hits[i].bucket # b
      BY <2>2 DEF Limiter!Aged
    <2> HIDE DEF Aged
    <2>5. Aged(t) = <<>> <=> th[t].hits = <<>>
      <3>1. (Aged(t) = <<>> <=> Len(Aged(t)) = 0) /\ (th[t].hits = <<>> <=> Len(th[t].hits) = 0)
        BY <2>1, <2>3
      <3> QED BY <2>3, <3>1
    <2>6. ASSUME NEW x \in Limiter!Bucket
          PROVE  FreshIn(Aged(t), x) = IF x = b THEN {} ELSE FreshIn(th[t].hits, x)
      BY <2>3, <2>4 DEF FreshIn
    <2> QED BY <2>3, <2>5, <2>6
  <1> HIDE DEF Aged
  <1>3. ASSUME NEW t \in Thread
        PROVE  ThreadOK(th'[t]) /\ th'[t].hits = Aged(t) /\ th'[t].pc = th[t].pc
    <2>1. th[t] \in ThreadState /\ ThreadOK(th[t]) /\ th'[t] = [th[t] EXCEPT !.hits = Aged(t)]
      BY <1>1 DEF LimiterInv
    <2> QED BY <1>2, <2>1 DEF ThreadOK, ThreadState
  <1>4. th' \in [Thread -> ThreadState]
    <2>1. \A t \in Thread : th'[t] \in ThreadState
      BY <1>3 DEF ThreadOK
    <2>2. th' = [t \in Thread |-> th'[t]]
      BY <1>1
    <2> QED BY <2>1, <2>2
  <1>5. ASSUME NEW x \in Limiter!Bucket PROVE Balanced(x)'
    <2>1. CASE x = b
      <3>1. \A t \in Thread : FreshIn(th'[t].hits, x) = {}
        BY <1>2, <1>3, <2>1
      <3>2. Open(th', x) = {} /\ Held(th', x) = {}
        BY <3>1 DEF Open, Held
      <3>3. IsFiniteSet({}) /\ Cardinality({}) = 0
        BY FS_EmptySet
      <3>4. count'[x] = 0 /\ passed'[x] = 0 /\ strays'[x] = 0
        BY <1>1, <2>1 DEF LimiterInv
      <3>5. Limiter!Limit(x) \in Nat
        BY DEF LimiterConstants, Limiter!Limit
      <3> QED BY <3>2, <3>3, <3>4, <3>5 DEF Balanced, Limiter!Limit
    <2>2. CASE x # b
      <3>1. \A t \in Thread : FreshIn(th'[t].hits, x) = FreshIn(th[t].hits, x)
        BY <1>2, <1>3, <2>2
      <3>2. Open(th', x) = Open(th, x)
        BY <3>1 DEF Open
      <3>3. Held(th', x) = Held(th, x)
        <4>1. \A p \in Open(th, x) : th'[p[1]].pc = th[p[1]].pc
          BY <1>3 DEF Open
        <4> QED BY <3>2, <4>1 DEF Held
      <3>4. count'[x] = count[x] /\ passed'[x] = passed[x] /\ strays'[x] = strays[x]
        BY <1>1, <2>2 DEF LimiterInv
      <3>5. Balanced(x)
        BY DEF LimiterInv
      <3> QED BY <1>1, <3>2, <3>3, <3>4, <3>5 DEF Balanced, Limiter!Limit
    <2> QED BY <2>1, <2>2
  <1>6. /\ count' \in [Limiter!Bucket -> Nat] /\ passed' \in [Limiter!Bucket -> Nat]
        /\ strays' \in [Limiter!Bucket -> Nat]
    BY <1>1 DEF LimiterInv
  <1> QED BY <1>1, <1>3, <1>4, <1>5, <1>6 DEF LimiterInv

\* No bucket has been charged.
LEMMA LimiterInit ==
    ASSUME LimiterConstants, Limiter!Init
    PROVE  LimiterInv
  <1>1. \A t \in Thread : th[t] = Limiter!Idle
    BY DEF Limiter!Init
  <1>2. th \in [Thread -> ThreadState] /\ \A t \in Thread : ThreadOK(th[t])
    BY <1>1, IdleOK DEF Limiter!Init, ThreadOK
  <1>3. ASSUME NEW b \in Limiter!Bucket PROVE Balanced(b)
    <2>1. \A t \in Thread : FreshIn(th[t].hits, b) = {}
      BY <1>1, IdleOK DEF FreshIn
    <2>2. Open(th, b) = {} /\ Held(th, b) = {}
      BY <2>1 DEF Open, Held
    <2>3. IsFiniteSet({}) /\ Cardinality({}) = 0
      BY FS_EmptySet
    <2>4. Limiter!Limit(b) \in Nat /\ count[b] = 0 /\ passed[b] = 0 /\ strays[b] = 0
      BY DEF LimiterConstants, Limiter!Limit, Limiter!Init
    <2> QED BY <2>2, <2>3, <2>4 DEF Balanced
  <1> QED BY <1>2, <1>3 DEF LimiterInv, Limiter!Init

\* Every step keeps the balance.
LEMMA LimiterNext ==
    ASSUME LimiterConstants, LimiterInv, [Limiter!Next]_Limiter!vars
    PROVE  LimiterInv'
  <1>1. UNCHANGED Limiter!vars => LimiterInv'
    BY DEF Limiter!vars, LimiterInv, Balanced, Limiter!Limit
  <1>2. ASSUME NEW t \in Thread, Limiter!RefuseEarly(t) PROVE LimiterInv'
    BY <1>1, <1>2 DEF Limiter!RefuseEarly
  <1> QED
    BY <1>1, <1>2, BeginKeeps, TestKeeps, HitKeeps, RollbackKeeps, EndWindowKeeps
       DEF Limiter!Next

\* However the tests, hits and rollbacks of any number of threads interleave, and wherever
\* windows end, a window admits its limit and one more for each rollback of another
\* window's charge, and refused requests leave no charge the storage can take back (api/__init__.py,
\* _enforce_control_plane_rate_limit and _rollback_control_plane_hits).
THEOREM BudgetsAreExact ==
    ASSUME LimiterConstants
    PROVE  Spec => []BudgetExact
  <1>1. LimiterInv => BudgetExact
    <2> SUFFICES ASSUME LimiterInv, NEW b \in Limiter!Bucket
                 PROVE  /\ passed[b] <= Limiter!Limit(b) + strays[b]
                        /\ decr /\ (\A t \in Thread : th[t].pc = "idle") => count[b] <= passed[b]
      BY DEF BudgetExact, Limiter!BudgetExact
    <2>1. Balanced(b) /\ Held(th, b) \in SUBSET Open(th, b)
      BY DEF LimiterInv, Held
    <2>2. Cardinality(Held(th, b)) \in Nat
      BY <2>1, FS_Subset, FS_CardinalityType DEF Balanced
    <2>3. count[b] \in Nat /\ passed[b] \in Nat /\ strays[b] \in Nat /\ Limiter!Limit(b) \in Nat
      BY DEF LimiterInv, LimiterConstants, Limiter!Limit
    <2>4. passed[b] <= Limiter!Limit(b) + strays[b]
      BY <2>1, <2>2, <2>3 DEF Balanced
    <2>5. ASSUME decr, \A t \in Thread : th[t].pc = "idle" PROVE count[b] <= passed[b]
      <3>1. \A t \in Thread : th[t].hits = <<>>
        BY <2>5 DEF LimiterInv, ThreadOK
      <3>2. Open(th, b) = {}
        BY <3>1 DEF Open, FreshIn
      <3>3. Cardinality({}) = 0
        BY FS_EmptySet
      <3> QED BY <2>1, <2>3, <2>5, <3>2, <3>3 DEF Balanced
    <2> QED BY <2>4, <2>5
  <1>2. Limiter!Init => LimiterInv
    BY LimiterInit
  <1>3. LimiterInv /\ [Limiter!Next]_Limiter!vars => LimiterInv'
    BY LimiterNext
  <1> QED BY <1>1, <1>2, <1>3, StationsStart, LimiterSteps, PTL DEF Spec

--------------------------------------------------------------------------------
(* ChatStream                                                              *)

\* An answer has a number of chunks and the iterator a number of retries
\* (stream_chat_completion refuses a negative one), and None is not one of the events it
\* ends with.
StreamConstants ==
    Chunks \in Nat /\ MaxRetries \in Nat /\ None \notin {"response", "text", "error"}

EventRecord == [event : {"delta", "chunk", "text"}, n : Nat]
StreamTypeOK ==
    /\ sealing \in BOOLEAN /\ cut \in BOOLEAN
    /\ phase \in {"connect", "reading", "drain", "post", "ended", "closed"}
    /\ attempt \in Nat /\ posts \in Nat
    /\ conn \in [id : Nat, next : Nat \ {0}, keyed : BOOLEAN]
    /\ given \in Seq(EventRecord) /\ cached \in Seq(EventRecord)
    /\ base \in 0 .. Len(given)

\* Until the iterator falls back its cache is what it has yielded.
CacheIsWhole ==
    /\ phase \in {"connect", "reading", "drain"} => cached = given /\ partial = None
    /\ Stream!PartialComplete

\* The iterator has the keys of the connections of the past, and of the present one from
\* its first chunk on.
KeysInStep ==
    /\ \A k \in keys : k \in 1 .. posts
    /\ phase = "reading" => conn.id \in 1 .. posts
    /\ phase = "reading" /\ sealing => (conn.keyed <=> conn.id \in keys)
    /\ unopened = 0

\* The chunks of the present connection are the first ones of the answer.
Numbered(r, n) == [i \in DOMAIN r |-> r[i].n] = [i \in 1 .. n |-> i]
ChunksInOrder ==
    /\ phase = "reading" /\ ~cut => conn.next <= Chunks + 1 /\ Numbered(Stream!Received, conn.next - 1)
    /\ phase = "ended" => told # None \/ cut \/ Numbered(Stream!Received, Chunks)

\* A connection is a retry after the first, and the fallback is one request more.
PostsCounted ==
    /\ attempt <= MaxRetries
    /\ posts <= attempt + (IF phase = "connect" THEN 0 ELSE IF phase \in {"ended", "closed"} THEN 2 ELSE 1)

StreamInv == StreamTypeOK /\ CacheIsWhole /\ KeysInStep /\ ChunksInOrder /\ PostsCounted

\* The instance's list operators are the ones ListFilter_proofs is about.
LEMMA StreamEntries ==
    ASSUME NEW s, NEW K
    PROVE  Stream!EntriesAt(s, K) = EntriesAt(s, K)
  <1>1. \A S : Stream!Cardinality(S) = Cardinality(S)
    BY DEF Stream!Cardinality, Cardinality
  <1>2. \A i : Stream!Rank(K, i) = Rank(K, i)
    BY <1>1 DEF Stream!Rank, Rank
  <1>3. ASSUME NEW j
        PROVE  (CHOOSE i \in K : Stream!Rank(K, i) = j) = (CHOOSE i \in K : Rank(K, i) = j)
    BY <1>2
  <1> DEFINE Slot(j) == CHOOSE i \in K : Rank(K, i) = j
             SlotOf(j) == CHOOSE i \in K : Stream!Rank(K, i) = j
  <1>4. \A j : SlotOf(j) = Slot(j)
    BY <1>3
  <1>5. /\ Stream!EntriesAt(s, K) = [j \in 1 .. Stream!Cardinality(K) |-> s[SlotOf(j)]]
        /\ EntriesAt(s, K) = [j \in 1 .. Cardinality(K) |-> s[Slot(j)]]
    BY DEF Stream!EntriesAt, EntriesAt
  <1> HIDE DEF Slot, SlotOf
  <1> QED BY <1>1, <1>4, <1>5

\* The chunks among the events after the first b.
ChunksAt(g, b) == {i \in b + 1 .. Len(g) : g[i].n # 0}
ReceivedOf(g, b) == EntriesAt(g, ChunksAt(g, b))

\* Nothing is received before the connection's first event, and an event adds itself if it
\* is a chunk.
LEMMA ReceivedGrows ==
    ASSUME NEW g \in Seq(EventRecord), NEW b \in 0 .. Len(g)
    PROVE  /\ ReceivedOf(g, b) \in Seq(EventRecord)
           /\ b = Len(g) => ReceivedOf(g, b) = <<>>
           /\ \A e \in EventRecord :
                ReceivedOf(Append(g, e), b) =
                    IF e.n = 0 THEN ReceivedOf(g, b) ELSE Append(ReceivedOf(g, b), e)
  <1> DEFINE K == ChunksAt(g, b)
  <1>1. Len(g) \in Nat /\ K \in SUBSET DOMAIN g
    BY DEF ChunksAt
  <1>2. EntriesAt(g, K) \in Seq(EventRecord)
    BY <1>1, EntriesAtFacts
  <1>3. b = Len(g) => EntriesAt(g, K) = <<>>
    <2> SUFFICES ASSUME b = Len(g) PROVE EntriesAt(g, K) = <<>>
      OBVIOUS
    <2>1. K = {}
      BY <1>1 DEF ChunksAt
    <2>2. Cardinality({}) = 0
      BY FS_EmptySet
    <2>3. DOMAIN EntriesAt(g, {}) = 1 .. Cardinality({})
      BY DEF EntriesAt
    <2>4. \A z \in Seq(EventRecord) : DOMAIN z = 1 .. 0 => z = <<>>
      OBVIOUS
    <2> QED BY <1>2, <2>1, <2>2, <2>3, <2>4
  <1>5. ASSUME NEW e \in EventRecord
        PROVE  /\ EntriesAt(Append(g, e), K) = EntriesAt(g, K)
               /\ EntriesAt(Append(g, e), K \cup {Len(g) + 1}) = Append(EntriesAt(g, K), e)
    <2>1. K \in SUBSET DOMAIN g
      BY <1>1
    <2> HIDE DEF K
    <2> DEFINE S == EventRecord
    <2>2. g \in Seq(S) /\ e \in S
      OBVIOUS
    <2> HIDE DEF S
    <2>3. /\ EntriesAt(Longer(g, e), K) = EntriesAt(g, K)
          /\ EntriesAt(Longer(g, e), K \cup {Len(g) + 1}) = Longer(EntriesAt(g, K), e)
      BY <2>1, <2>2, EntriesAppend
    <2> QED BY <2>3 DEF Longer
  <1>4. ASSUME NEW e \in EventRecord
        PROVE  ReceivedOf(Append(g, e), b) =
                   IF e.n = 0 THEN ReceivedOf(g, b) ELSE Append(ReceivedOf(g, b), e)
    <2>1. /\ Len(Append(g, e)) = Len(g) + 1
          /\ \A i \in 1 .. Len(g) : Append(g, e)[i] = g[i]
          /\ Append(g, e)[Len(g) + 1] = e
      BY AppendProperties
    <2>2. CASE e.n = 0
      <3>1. ChunksAt(Append(g, e), b) = K
        BY <1>1, <2>1, <2>2 DEF ChunksAt
      <3> QED BY <1>5, <2>2, <3>1 DEF ReceivedOf
    <2>3. CASE e.n # 0
      <3>1. ChunksAt(Append(g, e), b) = K \cup {Len(g) + 1}
        BY <1>1, <2>1, <2>3 DEF ChunksAt
      <3> QED BY <1>5, <2>3, <3>1 DEF ReceivedOf
    <2> QED BY <2>2, <2>3
  <1> QED BY <1>2, <1>3, <1>4 DEF ReceivedOf

\* One more chunk of the answer.
LEMMA NumberedGrows ==
    ASSUME NEW r \in Seq(EventRecord), NEW n \in Nat, Numbered(r, n), NEW e \in EventRecord, e.n = n + 1
    PROVE  Numbered(Append(r, e), n + 1)
  <1>1. DOMAIN r = 1 .. n /\ \A i \in 1 .. n : r[i].n = i
    BY DEF Numbered
  <1>2. Len(r) \in Nat /\ Len(r) = n
    BY <1>1
  <1>3. /\ DOMAIN Append(r, e) = 1 .. n + 1
        /\ \A i \in 1 .. n : Append(r, e)[i] = r[i]
        /\ Append(r, e)[n + 1] = e
    BY <1>2, AppendProperties
  <1>4. \A i \in 1 .. n + 1 : Append(r, e)[i].n = i
    BY <1>1, <1>3
  <1> QED BY <1>3, <1>4 DEF Numbered

\* The iterator starts with nothing received and nothing asked.
LEMMA StreamInit ==
    ASSUME StreamConstants, Stream!Init
    PROVE  StreamInv
  <1>1. given \in Seq(EventRecord) /\ Len(given) = 0
    BY EmptySeq DEF Stream!Init
  <1>2. StreamTypeOK
    <2>1. conn \in [id : Nat, next : Nat \ {0}, keyed : BOOLEAN]
      BY DEF Stream!Init
    <2>2. cached \in Seq(EventRecord)
      BY EmptySeq DEF Stream!Init
    <2>3. base \in 0 .. Len(given)
      BY <1>1 DEF Stream!Init
    <2>4. /\ sealing \in BOOLEAN /\ cut \in BOOLEAN /\ attempt \in Nat /\ posts \in Nat
          /\ phase = "connect"
      BY DEF Stream!Init
    <2> QED BY <1>1, <2>1, <2>2, <2>3, <2>4 DEF StreamTypeOK
  <1>3. CacheIsWhole /\ KeysInStep /\ ChunksInOrder
    BY DEF Stream!Init, CacheIsWhole, Stream!PartialComplete, KeysInStep, ChunksInOrder
  <1>4. PostsCounted
    BY DEF StreamConstants, Stream!Init, PostsCounted
  <1> QED BY <1>2, <1>3, <1>4 DEF StreamInv

\* A response that is not streamed is an outcome.
LEMMA EmitTells ==
    ASSUME StreamConstants, NEW body \in {"json", "text", ""}, Stream!Emit(body)
    PROVE  told' # None
  BY DEF StreamConstants, Stream!Emit

\* A connection that fails or breaks is tried again or given up; either way nothing the
\* iterator has is lost, and every request made has been a try.
LEMMA InterruptedKeeps ==
    ASSUME StreamConstants, StreamInv, Stream!Interrupted, phase \in {"connect", "reading"},
           UNCHANGED <<sealing, conn, keys, given, base, partial, told, unopened>>,
           cut' \in BOOLEAN, posts' \in Nat, posts <= posts', posts' <= attempt + 1
    PROVE  StreamInv'
  <1>1. CASE Stream!Reconnect
    <2>1. StreamTypeOK'
      BY <1>1 DEF StreamInv, StreamTypeOK, Stream!Reconnect
    <2>2. CacheIsWhole'
      BY <1>1 DEF StreamInv, CacheIsWhole, Stream!PartialComplete, Stream!Reconnect
    <2>3. KeysInStep'
      BY <1>1 DEF StreamInv, StreamTypeOK, KeysInStep, Stream!Reconnect
    <2>4. ChunksInOrder'
      BY <1>1 DEF ChunksInOrder, Stream!Reconnect
    <2>5. PostsCounted'
      BY <1>1 DEF StreamConstants, StreamInv, StreamTypeOK, PostsCounted, Stream!Reconnect
    <2> QED BY <2>1, <2>2, <2>3, <2>4, <2>5 DEF StreamInv
  <1>2. CASE Stream!GiveUpStreaming
    <2>1. StreamTypeOK'
      BY <1>2 DEF StreamInv, StreamTypeOK, Stream!GiveUpStreaming
    <2>2. CacheIsWhole'
      BY <1>2 DEF StreamInv, CacheIsWhole, Stream!PartialComplete, Stream!GiveUpStreaming
    <2>3. KeysInStep'
      BY <1>2 DEF StreamInv, StreamTypeOK, KeysInStep, Stream!GiveUpStreaming
    <2>4. ChunksInOrder'
      BY <1>2 DEF ChunksInOrder, Stream!GiveUpStreaming
    <2>5. PostsCounted'
      BY <1>2 DEF StreamConstants, StreamInv, StreamTypeOK, PostsCounted, Stream!GiveUpStreaming
    <2> QED BY <2>1, <2>2, <2>3, <2>4, <2>5 DEF StreamInv
  <1> QED BY <1>1, <1>2 DEF Stream!Interrupted

\* A step that yields nothing and leaves the connection alone.
LEMMA SilentStep ==
    ASSUME StreamConstants, StreamInv, phase' \in {"drain", "post", "ended", "closed"},
           UNCHANGED <<sealing, conn, attempt, given, base, unopened>>,
           keys' \in {keys, {}}, cut' \in BOOLEAN, posts' \in Nat, posts <= posts',
           cached' \in Seq(EventRecord), CacheIsWhole', PostsCounted',
           phase' = "ended" => told' # None \/ cut' \/ Numbered(Stream!Received, Chunks)
    PROVE  StreamInv'
  <1>1. StreamTypeOK'
    BY DEF StreamInv, StreamTypeOK
  <1>2. KeysInStep'
    BY DEF StreamInv, StreamTypeOK, KeysInStep
  <1>3. Stream!Received' = Stream!Received
    BY DEF Stream!Received
  <1>4. ChunksInOrder'
    BY <1>3 DEF ChunksInOrder
  <1> QED BY <1>1, <1>2, <1>4 DEF StreamInv

\* A step that yields an event, or none, while the connection stays.
LEMMA EventStep ==
    ASSUME StreamConstants, StreamInv, phase = "reading", NEW e \in EventRecord, Stream!Yield(e),
           UNCHANGED <<sealing, phase, attempt, posts, base, partial, told>>,
           cut' \in BOOLEAN, conn' \in [id : Nat, next : Nat \ {0}, keyed : BOOLEAN], KeysInStep',
           ~cut' => /\ ~cut /\ conn'.next <= Chunks + 1
                    /\ \/ e.n = 0 /\ conn'.next = conn.next
                       \/ e.n = conn.next /\ conn'.next = conn.next + 1
    PROVE  StreamInv'
  <1>1. /\ given \in Seq(EventRecord) /\ cached \in Seq(EventRecord) /\ base \in 0 .. Len(given)
        /\ conn.next \in Nat \ {0}
    BY DEF StreamInv, StreamTypeOK
  <1>2. given' = Append(given, e) /\ cached' = Append(cached, e)
    BY DEF Stream!Yield
  <1>3. given' \in Seq(EventRecord) /\ cached' \in Seq(EventRecord) /\ Len(given') = Len(given) + 1
    BY <1>1, <1>2, AppendProperties
  <1>4. StreamTypeOK'
    BY <1>1, <1>3 DEF StreamInv, StreamTypeOK
  <1>5. CacheIsWhole'
    BY <1>2 DEF StreamInv, CacheIsWhole, Stream!PartialComplete
  <1>6. PostsCounted'
    BY DEF StreamInv, PostsCounted
  <1>7. ChunksInOrder'
    <2> SUFFICES ASSUME ~cut' PROVE Numbered(Stream!Received', conn'.next - 1)
      BY DEF ChunksInOrder
    <2>1. Numbered(Stream!Received, conn.next - 1)
      BY DEF StreamInv, ChunksInOrder
    <2>2. /\ Stream!Received = ReceivedOf(given, base)
          /\ Stream!Received' = ReceivedOf(Append(given, e), base)
      BY <1>2, StreamEntries DEF Stream!Received, ReceivedOf, ChunksAt
    <2>3. /\ Stream!Received \in Seq(EventRecord)
          /\ Stream!Received' = IF e.n = 0 THEN Stream!Received ELSE Append(Stream!Received, e)
      BY <1>1, <2>2, ReceivedGrows
    <2>4. CASE e.n = 0 /\ conn'.next = conn.next
      BY <2>1, <2>3, <2>4
    <2>5. CASE e.n = conn.next /\ conn'.next = conn.next + 1
      <3>1. e.n # 0 /\ conn.next - 1 \in Nat /\ e.n = (conn.next - 1) + 1
        BY <1>1, <2>5
      <3>2. Numbered(Append(Stream!Received, e), (conn.next - 1) + 1)
        BY <2>1, <2>3, <3>1, NumberedGrows
      <3>3. (conn.next - 1) + 1 = conn'.next - 1
        BY <1>1, <2>5
      <3> QED BY <2>3, <3>1, <3>2, <3>3
    <2> QED BY <2>4, <2>5
  <1> QED BY <1>4, <1>5, <1>6, <1>7 DEF StreamInv

\* Every step of the iterator and of the endpoint keeps the invariant.
LEMMA StreamNext ==
    ASSUME StreamConstants, StreamInv, [Stream!Next]_(Stream!vars)
    PROVE  StreamInv'
  <1>0. /\ posts \in Nat /\ posts + 1 \in Nat /\ attempt \in Nat /\ posts <= posts + 1
        /\ cached \in Seq(EventRecord) /\ given \in Seq(EventRecord) /\ cut \in BOOLEAN
    BY DEF StreamInv, StreamTypeOK
  <1>1. CASE Stream!ConnectRaises
    <2>1. posts' <= attempt + 1
      BY <1>0, <1>1 DEF StreamInv, PostsCounted, Stream!ConnectRaises
    <2> QED BY <1>0, <1>1, <2>1, InterruptedKeeps DEF Stream!ConnectRaises
  <1>2. CASE Stream!ConnectRefused
    <2>1. CacheIsWhole'
      BY <1>2 DEF StreamInv, CacheIsWhole, Stream!PartialComplete, Stream!ConnectRefused,
         Stream!client
    <2>2. PostsCounted'
      BY <1>0, <1>2 DEF StreamInv, PostsCounted, Stream!ConnectRefused, Stream!client
    <2> QED BY <1>0, <1>2, <2>1, <2>2, SilentStep DEF Stream!ConnectRefused, Stream!client
  <1>3. CASE \E body \in {"json", "text", ""} : Stream!ConnectWhole(body)
    <2>1. /\ phase = "connect" /\ phase' = "ended" /\ posts' = posts + 1 /\ keys' = {}
          /\ UNCHANGED <<sealing, conn, attempt, cached, given, base, partial, cut, unopened>>
          /\ told' # None
      <3> PICK body \in {"json", "text", ""} : Stream!ConnectWhole(body)
        BY <1>3
      <3>1. told' # None
        BY EmitTells DEF Stream!ConnectWhole
      <3> QED BY <3>1 DEF Stream!ConnectWhole
    <2>2. CacheIsWhole'
      BY <2>1 DEF StreamInv, CacheIsWhole, Stream!PartialComplete
    <2>3. PostsCounted'
      BY <1>0, <2>1 DEF StreamInv, PostsCounted
    <2> QED BY <1>0, <2>1, <2>2, <2>3, SilentStep
  <1>4. CASE Stream!ConnectStreams
    <2>1. StreamTypeOK'
      BY <1>0, <1>4 DEF StreamInv, StreamTypeOK, Stream!ConnectStreams
    <2>2. CacheIsWhole'
      BY <1>4 DEF StreamInv, CacheIsWhole, Stream!PartialComplete, Stream!ConnectStreams
    <2>3. KeysInStep'
      BY <1>0, <1>4 DEF StreamInv, KeysInStep, Stream!ConnectStreams
    <2>4. PostsCounted'
      BY <1>0, <1>4 DEF StreamInv, PostsCounted, Stream!ConnectStreams
    <2>5. ChunksInOrder'
      <3>1. Stream!Received' = ReceivedOf(given, Len(given))
        BY <1>4, StreamEntries DEF Stream!Received, ReceivedOf, ChunksAt, Stream!ConnectStreams
      <3>2. Len(given) \in 0 .. Len(given)
        BY <1>0
      <3>3. Stream!Received' = <<>>
        BY <1>0, <3>1, <3>2, ReceivedGrows
      <3>4. Numbered(<<>>, 0)
        BY DEF Numbered
      <3> QED BY <1>4, <3>3, <3>4 DEF ChunksInOrder, StreamConstants, Stream!ConnectStreams
    <2> QED BY <2>1, <2>2, <2>3, <2>4, <2>5 DEF StreamInv
  <1>5. CASE Stream!ReadChunk
    <2>1. /\ conn \in [id : Nat, next : Nat \ {0}, keyed : BOOLEAN] /\ sealing \in BOOLEAN
          /\ conn.next <= Chunks
      BY <1>5 DEF StreamInv, StreamTypeOK, Stream!ReadChunk, Stream!More
    <2>2. /\ conn' = [id |-> conn.id, next |-> conn.next + 1, keyed |-> conn.keyed \/ sealing]
          /\ conn' \in [id : Nat, next : Nat \ {0}, keyed : BOOLEAN]
      <3>1. conn' = [conn EXCEPT !.next = conn.next + 1, !.keyed = conn.keyed \/ sealing]
        BY <1>5 DEF Stream!ReadChunk
      <3>2. conn' = [id |-> conn.id, next |-> conn.next + 1, keyed |-> conn.keyed \/ sealing]
        BY <2>1, <3>1
      <3>3. conn.next + 1 \in Nat \ {0} /\ conn.id \in Nat /\ (conn.keyed \/ sealing) \in BOOLEAN
        BY <2>1
      <3> QED BY <3>2, <3>3
    <2>3. CASE sealing
      <3>1. Stream!SealedChunk.session = conn.id /\ Stream!SealedChunk.cipherkey = ~conn.keyed
        BY DEF Stream!SealedChunk
      <3>2. Stream!Opens(Stream!SealedChunk)
        BY <1>5, <2>1, <2>3, <3>1 DEF StreamInv, KeysInStep, Stream!Opens, Stream!ReadChunk
      <3>3. /\ keys' = keys \cup {conn.id} /\ Stream!Yield(Stream!Event("delta", conn.next))
            /\ unopened' = unopened
        BY <1>5, <2>3, <3>1, <3>2 DEF Stream!Unseal, Stream!ReadChunk
      <3>4. KeysInStep'
        BY <1>0, <1>5, <2>2, <2>3, <3>3 DEF StreamInv, KeysInStep, Stream!ReadChunk
      <3>5. Stream!Event("delta", conn.next) \in EventRecord /\ Stream!Event("delta", conn.next).n = conn.next
        BY <2>1 DEF Stream!Event, EventRecord
      <3> QED BY <1>0, <1>5, <2>1, <2>2, <3>3, <3>4, <3>5, EventStep DEF Stream!ReadChunk,
         StreamConstants
    <2>4. CASE ~sealing
      <3>1. Stream!Yield(Stream!Event("chunk", conn.next)) /\ UNCHANGED <<keys, unopened>>
        BY <1>5, <2>4 DEF Stream!ReadChunk
      <3>2. KeysInStep'
        BY <1>0, <1>5, <2>2, <2>4, <3>1 DEF StreamInv, KeysInStep, Stream!ReadChunk
      <3>3. Stream!Event("chunk", conn.next) \in EventRecord /\ Stream!Event("chunk", conn.next).n = conn.next
        BY <2>1 DEF Stream!Event, EventRecord
      <3> QED BY <1>0, <1>5, <2>1, <2>2, <3>1, <3>2, <3>3, EventStep DEF Stream!ReadChunk,
         StreamConstants
    <2> QED BY <2>1, <2>3, <2>4
  <1>6. CASE Stream!ReadNoise
    <2>1. CASE Stream!Yield(Stream!Event("text", 0))
      <3>1. KeysInStep'
        BY <1>6 DEF StreamInv, KeysInStep, Stream!ReadNoise
      <3>2. Stream!Event("text", 0) \in EventRecord /\ Stream!Event("text", 0).n = 0
        BY DEF Stream!Event, EventRecord
      <3>3. conn' = conn /\ conn \in [id : Nat, next : Nat \ {0}, keyed : BOOLEAN]
        BY <1>6 DEF StreamInv, StreamTypeOK, Stream!ReadNoise
      <3>4. ~cut => conn.next <= Chunks + 1
        BY <1>6 DEF StreamInv, ChunksInOrder, Stream!ReadNoise
      <3> QED BY <1>0, <1>6, <2>1, <3>1, <3>2, <3>3, <3>4, EventStep DEF Stream!ReadNoise
    <2>2. CASE UNCHANGED <<cached, given>>
      <3>1. Stream!Received' = Stream!Received
        BY <1>6, <2>2 DEF Stream!Received, Stream!ReadNoise
      <3> QED BY <1>6, <2>2, <3>1
            DEF StreamInv, StreamTypeOK, CacheIsWhole, Stream!PartialComplete, KeysInStep, ChunksInOrder,
                PostsCounted, Stream!ReadNoise
    <2> QED BY <1>6, <2>1, <2>2 DEF Stream!ReadNoise
  <1>7. CASE Stream!EndpointFails
    <2>1. KeysInStep'
      BY <1>7 DEF StreamInv, KeysInStep, Stream!EndpointFails
    <2>2. Stream!Event("chunk", 0) \in EventRecord
      BY DEF Stream!Event, EventRecord
    <2>3. conn' = conn /\ conn \in [id : Nat, next : Nat \ {0}, keyed : BOOLEAN] /\ cut' = TRUE
      BY <1>7 DEF StreamInv, StreamTypeOK, Stream!EndpointFails
    <2> QED BY <1>7, <2>1, <2>2, <2>3, EventStep DEF Stream!EndpointFails
  <1>8. CASE Stream!ReadEnd
    <2>1. CacheIsWhole'
      BY <1>8 DEF StreamInv, CacheIsWhole, Stream!PartialComplete, Stream!ReadEnd
    <2>2. PostsCounted'
      BY <1>0, <1>8 DEF StreamInv, PostsCounted, Stream!ReadEnd
    <2>3. conn.next \in Nat
      BY DEF StreamInv, StreamTypeOK
    <2>4. cut' \/ Numbered(Stream!Received, Chunks)
      <3> SUFFICES ASSUME ~cut' PROVE Numbered(Stream!Received, Chunks)
        OBVIOUS
      <3>1. ~cut /\ ~(conn.next <= Chunks)
        BY <1>8 DEF Stream!ReadEnd, Stream!More
      <3>2. conn.next <= Chunks + 1 /\ Numbered(Stream!Received, conn.next - 1)
        BY <1>8, <3>1 DEF StreamInv, ChunksInOrder, Stream!ReadEnd
      <3>3. conn.next - 1 = Chunks
        BY <2>3, <3>1, <3>2 DEF StreamConstants
      <3> QED BY <3>2, <3>3
    <2>5. cut' \in BOOLEAN
      BY <1>0, <1>8 DEF Stream!ReadEnd, Stream!More
    <2> QED BY <1>0, <1>8, <2>1, <2>2, <2>4, <2>5, SilentStep DEF Stream!ReadEnd
  <1>9. CASE Stream!ConnectionLost
    <2>1. posts <= attempt + 1
      BY <1>0, <1>9 DEF StreamInv, PostsCounted, Stream!ConnectionLost
    <2>2. /\ Stream!Interrupted /\ phase \in {"connect", "reading"} /\ cut' \in BOOLEAN
          /\ posts' = posts /\ posts <= posts
          /\ UNCHANGED <<sealing, conn, keys, given, base, partial, told, unopened>>
      <3>1. posts' = posts /\ posts <= posts
        BY <1>0, <1>9 DEF Stream!ConnectionLost
      <3> QED BY <1>9, <3>1 DEF Stream!ConnectionLost
    <2> QED BY <1>0, <2>1, <2>2, InterruptedKeeps
  <1>10. CASE Stream!DrainPartial
    <2>1. CacheIsWhole'
      BY <1>10 DEF StreamInv, CacheIsWhole, Stream!PartialComplete, Stream!DrainPartial
    <2>2. PostsCounted'
      BY <1>0, <1>10 DEF StreamInv, PostsCounted, Stream!DrainPartial
    <2>3. cached' \in Seq(EventRecord)
      BY <1>10 DEF Stream!DrainPartial
    <2> QED BY <1>0, <1>10, <2>1, <2>2, <2>3, SilentStep DEF Stream!DrainPartial
  <1>11. CASE Stream!PostFallback
    <2>1. CacheIsWhole'
      BY <1>11 DEF StreamInv, CacheIsWhole, Stream!PartialComplete, Stream!PostFallback
    <2>2. PostsCounted'
      <3>1. /\ attempt' = attempt /\ posts' = posts + 1 /\ phase' = "ended"
            /\ attempt <= MaxRetries /\ posts <= attempt + 1
        BY <1>0, <1>11 DEF StreamInv, PostsCounted, Stream!PostFallback
      <3>2. posts' <= attempt' + 2 /\ attempt' <= MaxRetries
        BY <1>0, <3>1 DEF StreamConstants
      <3>3. phase' # "connect" /\ phase' \in {"ended", "closed"}
        BY <3>1
      <3> QED BY <3>2, <3>3 DEF PostsCounted
    <2>3. told' # None
      BY <1>11, EmitTells DEF StreamConstants, Stream!PostFallback
    <2> QED BY <1>0, <1>11, <2>1, <2>2, <2>3, SilentStep DEF Stream!PostFallback
  <1>12. CASE Stream!Close
    <2>1. CacheIsWhole'
      BY <1>12 DEF StreamInv, CacheIsWhole, Stream!PartialComplete, Stream!Close, Stream!client
    <2>2. PostsCounted'
      BY <1>0, <1>12 DEF StreamInv, PostsCounted, Stream!Close, Stream!client
    <2> QED BY <1>0, <1>12, <2>1, <2>2, SilentStep DEF Stream!Close, Stream!client
  <1>13. CASE UNCHANGED Stream!vars
    <2>1. Stream!Received' = Stream!Received
      BY <1>13 DEF Stream!Received, Stream!vars, Stream!client
    <2> QED BY <1>13, <2>1
          DEF StreamInv, StreamTypeOK, CacheIsWhole, Stream!PartialComplete, KeysInStep, ChunksInOrder,
              PostsCounted, Stream!vars, Stream!client
  <1> QED BY <1>1, <1>2, <1>3, <1>4, <1>5, <1>6, <1>7, <1>8, <1>9, <1>10, <1>11, <1>12, <1>13
        DEF Stream!Next

\* The streaming iterator of crypto_helpers.py, for every length of answer, every number of
\* retries and any noise between the chunks: the partial response it falls back with is all
\* it yielded over all connections, no chunk fails for want of its session's key, a run
\* that ends has the whole answer in order, a response or a reason, and a completion is
\* asked for at most MaxRetries + 2 times.
THEOREM StreamsAreSound ==
    ASSUME StreamConstants
    PROVE  Spec => []StreamSound
  <1>1. Stream!Init => StreamInv
    BY StreamInit
  <1>2. StreamInv /\ [Stream!Next]_(Stream!vars) => StreamInv'
    BY StreamNext
  <1>3. StreamInv => StreamSound
    <2> SUFFICES ASSUME StreamInv PROVE Stream!StreamSound
      BY DEF StreamSound
    <2>1. Stream!PartialComplete /\ Stream!SealedStreamOpens
      BY DEF StreamInv, CacheIsWhole, KeysInStep, Stream!SealedStreamOpens
    <2>2. Stream!WholeOrTold
      BY DEF StreamInv, ChunksInOrder, Numbered, Stream!WholeOrTold
    <2>3. Stream!PostsBounded
      BY DEF StreamConstants, StreamInv, StreamTypeOK, PostsCounted, Stream!PostsBounded
    <2> QED BY <2>1, <2>2, <2>3 DEF Stream!StreamSound
  <1> QED BY <1>1, <1>2, <1>3, StationsStart, StreamSteps, PTL DEF Spec
================================================================================
