------------------------ MODULE ControlPlaneLimiter ------------------------
(***************************************************************************)
(* The control-plane rate limiter of api/__init__.py.  A request is        *)
(* charged to a bucket of its client address and, once it has proved who   *)
(* it is, to a bucket of that identity; request threads share the buckets  *)
(* and each bucket access is one step.  Buckets are fixed windows of the   *)
(* limits library (external): test compares, hit increments first and      *)
(* compares then, decr, where the storage has it, takes one away and stops *)
(* at zero, and a window may end at any time.                              *)
(***************************************************************************)
EXTENDS Naturals, Sequences, FiniteSets, SequencesExt

CONSTANTS Thread,      \* request threads
          Key,         \* server and client keys
          IpLimit, IdLimit,
          MaxWindows,  \* bound: windows that end
          None

VARIABLES
    decr,     \* the storage offers decr
    count,    \* counter of each bucket
    th,       \* request threads: pc, buckets in order, position, recorded_hits
    windows,  \* windows ended
    passed,   \* history: admitted requests charged in this window
    strays    \* history: rollbacks in this window of hits made before it

vars == <<decr, count, th, windows, passed, strays>>

Bucket == Key \cup {"ip"}
Limit(b) == IF b = "ip" THEN IpLimit ELSE IdLimit

------------------------------------------------------------------------------
(* The request: route, the key it claims, whether the claim is proved (control credential *)
(* of the owner, well-formed ciphertext envelope), how it stands with the relay tokens.   *)

OwnerRoute == {"control", "progress", "unregister"}
Request == [route : OwnerRoute \cup {"register", "poll", "responses"}, claim : Key \cup {None},
            proved : BOOLEAN, token : {"unset", "match", "mismatch"}, big : BOOLEAN]

\* _control_plane_identity_for_request; None is the client address.
Identity(r) ==
    IF r.route \in OwnerRoute \cup {"responses"} /\ ~r.proved THEN None ELSE r.claim

\* A configured token that matched, or an owner on the control routes.
AllowIdentity(r) ==
    r.token = "match" \/ (r.route \in {"control", "progress"} /\ Identity(r) # None)

\* checks: the address first, then the identity.
Checks(r) ==
    IF AllowIdentity(r) /\ Identity(r) # None THEN <<"ip", Identity(r)>> ELSE <<"ip">>

\* _is_public_api_rate_limit_exempt_path for a control-plane route: no token configured,
\* or the right one; any other request also spends the public quota, which may refuse it.
Exempt(r) == r.token # "mismatch"

\* What an accepted request asks of the buckets: the tests of a request that is neither
\* refused by the public quota nor too large.
Plans == {Checks(r) : r \in {q \in Request : ~(q.route = "progress" /\ q.big)}}
Refusable == \E r \in Request : ~Exempt(r) \/ (r.route = "progress" /\ r.big)

\* Identity buckets are hit before the address.
HitOrder(p) == Reverse(p)

------------------------------------------------------------------------------
Idle == [pc |-> "idle", buckets |-> <<>>, at |-> 1, hits |-> <<>>]

Init ==
    /\ decr \in BOOLEAN
    /\ count = [b \in Bucket |-> 0] /\ th = [t \in Thread |-> Idle]
    /\ windows = 0 /\ passed = [b \in Bucket |-> 0] /\ strays = [b \in Bucket |-> 0]

At(t) == th[t].buckets[th[t].at]
Become(t, state) == th' = [th EXCEPT ![t] = state]
Enter(pc, buckets, hits) == [pc |-> pc, buckets |-> buckets, at |-> 1, hits |-> hits]

\* _enforce_control_plane_rate_limit; a refused request touches no bucket.
Begin(t) ==
    /\ th[t].pc = "idle"
    /\ \E p \in Plans : Become(t, Enter("test", p, <<>>))
    /\ UNCHANGED <<decr, count, windows, passed, strays>>
RefuseEarly(t) == th[t].pc = "idle" /\ Refusable /\ UNCHANGED vars

\* One test: a full bucket ends the request, uncharged.
Test(t) ==
    /\ th[t].pc = "test"
    /\ Become(t, CASE count[At(t)] >= Limit(At(t)) -> Idle
                   [] count[At(t)] < Limit(At(t)) /\ th[t].at < Len(th[t].buckets)
                        -> [th[t] EXCEPT !.at = @ + 1]
                   [] OTHER -> Enter("hit", HitOrder(th[t].buckets), <<>>))
    /\ UNCHANGED <<decr, count, windows, passed, strays>>

\* One hit.  The counter is raised also when that takes it past the limit; the failing
\* hit is recorded like the others and all of them are rolled back, the latest first.
Hit_FailedNotRecorded(t) ==   \* Fault: only the hits that succeeded are rolled back
    /\ th[t].pc = "hit"
    /\ LET b == At(t)
           hits == Append(th[t].hits, [bucket |-> b, fresh |-> TRUE]) IN
       /\ count' = [count EXCEPT ![b] = @ + 1]
       /\ IF count[b] + 1 > Limit(b)
          THEN Become(t, IF th[t].hits = <<>> THEN Idle ELSE Enter("rollback", <<>>, th[t].hits)) /\ UNCHANGED passed
          ELSE IF th[t].at < Len(th[t].buckets)
          THEN Become(t, [th[t] EXCEPT !.at = @ + 1, !.hits = hits]) /\ UNCHANGED passed
          ELSE Become(t, Idle) /\ passed' = [x \in Bucket |->
                   passed[x] + Cardinality({i \in 1..Len(hits) : hits[i].bucket = x /\ hits[i].fresh})]
    /\ UNCHANGED <<decr, windows, strays>>
Hit(t) ==
    /\ th[t].pc = "hit"
    /\ LET b == At(t)
           hits == Append(th[t].hits, [bucket |-> b, fresh |-> TRUE]) IN
       /\ count' = [count EXCEPT ![b] = @ + 1]
       /\ IF count[b] + 1 > Limit(b)
          THEN Become(t, Enter("rollback", <<>>, hits)) /\ UNCHANGED passed
          ELSE IF th[t].at < Len(th[t].buckets)
          THEN Become(t, [th[t] EXCEPT !.at = @ + 1, !.hits = hits]) /\ UNCHANGED passed
          ELSE Become(t, Idle) /\ passed' = [x \in Bucket |->
                   passed[x] + Cardinality({i \in 1..Len(hits) : hits[i].bucket = x /\ hits[i].fresh})]
    /\ UNCHANGED <<decr, windows, strays>>

\* _rollback_control_plane_hits, one hit per step; it does not know about windows.  Over
\* a storage without decr the charge stays.
Rollback(t) ==
    /\ th[t].pc = "rollback"
    /\ LET h == Last(th[t].hits) IN
       /\ count' = [count EXCEPT ![h.bucket] = IF decr /\ @ > 0 THEN @ - 1 ELSE @]
       /\ strays' = IF h.fresh \/ ~decr THEN strays ELSE [strays EXCEPT ![h.bucket] = @ + 1]
       /\ Become(t, IF Len(th[t].hits) = 1 THEN Idle ELSE [th[t] EXCEPT !.hits = Front(@)])
    /\ UNCHANGED <<decr, windows, passed>>

\* Hits once the window of b has ended.
Aged(hits, b) ==
    [i \in 1..Len(hits) |-> [hits[i] EXCEPT !.fresh = @ /\ hits[i].bucket # b]]
\* External: the window of a bucket ends; hits under way belong to the old one.
EndWindow(b) ==
    /\ windows < MaxWindows /\ windows' = windows + 1
    /\ count' = [count EXCEPT ![b] = 0]
    /\ passed' = [passed EXCEPT ![b] = 0] /\ strays' = [strays EXCEPT ![b] = 0]
    /\ th' = [t \in Thread |-> [th[t] EXCEPT !.hits = Aged(th[t].hits, b)]]
    /\ UNCHANGED decr

Next == \/ \E t \in Thread : Begin(t) \/ RefuseEarly(t) \/ Test(t) \/ Hit(t) \/ Rollback(t)
        \/ \E b \in Bucket : EndWindow(b)
Spec == Init /\ [][Next]_vars

------------------------------------------------------------------------------
\* However tests, hits and rollbacks of several threads interleave, a window admits no more
\* than its limit, plus one for each rollback that crossed the start of the window and took
\* a charge it had not made.  If the storage can take a charge back, a request answered 429
\* leaves none behind: with no request under way a bucket counts no more than the requests
\* admitted.  Without decr a refused request keeps its charges until the window ends.
BudgetExact ==
    \A b \in Bucket :
        /\ passed[b] <= Limit(b) + strays[b]
        /\ decr /\ (\A t \in Thread : th[t].pc = "idle") => count[b] <= passed[b]
=============================================================================
