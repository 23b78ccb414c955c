--------------------------- MODULE RelaySelection ---------------------------
(***************************************************************************)
(* How relay.py chooses a node for GET /api/v1/relay/servers/next:         *)
(* registered API v1 nodes in registration order, filtered by health,      *)
(* model, context tier and capacity, the smallest tier that fits, the      *)
(* least loaded of it, and among equals round robin.  There are two        *)
(* cursors: one over all nodes, and one per list of equals, which is never *)
(* forgotten.  A choice reserves nothing: the envelope that follows it     *)
(* arrives later, or not at all, and whoever polls changes the load.       *)
(* Each step holds server_round_robin_lock.                                *)
(***************************************************************************)
EXTENDS Integers, Sequences, FiniteSets, SequencesExt, FiniteSetsExt, ListFilter

CONSTANTS Node,
          Model,
          Tiers,         \* values of CONTEXT_TIER_ORDER
          Capabilities,  \* what a node may announce: models, tier, window, conc
          MaxQueue,      \* _api_v1_max_queue_depth_per_node
          MaxRegistered, \* bound: registrations
          MaxLoad,       \* bound: requests queued or in flight
          MaxChosen      \* bound: choices

VARIABLES
    known,     \* known_servers: API v1 nodes in registration order
    caps,      \* capabilities of the registered nodes
    quiet,     \* nodes whose heartbeat is older than their lease
    queued,    \* queue depth
    flying,    \* in-flight entries with a running lease
    next,      \* server_round_robin_next_index
    position,  \* api_v1_filtered_round_robin_next_positions
    reply,     \* the last reply of servers/next
    registrations, chosen,   \* for the bounds
    served     \* history: choices per list of equals, less what all of them had

load == <<queued, flying>>
cursors == <<next, position>>
vars == <<known, caps, quiet, load, cursors, reply, registrations, chosen, served>>

\* _normalise_api_v1_capabilities refuses a window below the tier it announces.
Valid(c) == c.window >= c.tier

Init ==
    /\ known = <<>> /\ caps = [n \in {} |-> 0] /\ quiet = {}
    /\ queued = [n \in Node |-> 0] /\ flying = [n \in Node |-> 0]
    /\ next = 0 /\ position = [k \in {} |-> 0]
    /\ reply = "none" /\ registrations = 0 /\ chosen = 0
    /\ served = [k \in {} |-> 0]

With(f, k, v) == [x \in DOMAIN f \cup {k} |-> IF x = k THEN v ELSE f[x]]

\* A first registration goes to the end and, if it is the only one, resets the cursor;
\* a heartbeat may change what the node announces.
Register(n, c) ==
    /\ registrations < MaxRegistered /\ Valid(c)
    /\ registrations' = registrations + 1
    /\ caps' = With(caps, n, c)
    /\ quiet' = quiet \ {n}
    /\ IF Contains(known, n) THEN UNCHANGED <<known, next>>
       ELSE known' = Append(known, n) /\ next' = (IF known = <<>> THEN 0 ELSE next)
    /\ UNCHANGED <<load, position, reply, chosen, served>>

IndexOf(s, n) == CHOOSE i \in 1..Len(s) : s[i] = n

\* Fault: the cursor stays where it is when a node in front of it goes.
CursorAfter_Unmoved(s, n) == IF Len(s) = 1 THEN 0 ELSE next % (Len(s) - 1)

\* _remove_known_server
CursorAfter(s, n) ==
    LET current == next % Len(s)
        removed == IndexOf(s, n) - 1
        left == Len(s) - 1 IN
    IF left = 0 THEN 0
    ELSE IF removed < current THEN (current - 1) % left ELSE current % left

\* Unregister or eviction: queue and in-flight entries go with the node.
Unregister(n) ==
    /\ Contains(known, n)
    /\ next' = CursorAfter(known, n)
    /\ known' = Without(known, {n})
    /\ caps' = [x \in DOMAIN caps \ {n} |-> caps[x]]
    /\ quiet' = quiet \ {n}
    /\ queued' = [queued EXCEPT ![n] = 0] /\ flying' = [flying EXCEPT ![n] = 0]
    /\ UNCHANGED <<position, reply, registrations, chosen, served>>

FallsQuiet(n) ==
    /\ Contains(known, n) /\ n \notin quiet
    /\ quiet' = quiet \cup {n}
    /\ UNCHANGED <<known, caps, load, cursors, reply, registrations, chosen, served>>

\* An envelope arrives, a poll takes it, a response ends it.
Enqueue(n) ==
    /\ Contains(known, n) /\ SumFunctionOnSet(queued, Node) + SumFunctionOnSet(flying, Node) < MaxLoad
    /\ queued' = [queued EXCEPT ![n] = @ + 1]
    /\ UNCHANGED <<known, caps, quiet, flying, cursors, reply, registrations, chosen, served>>

Poll(n) ==
    /\ Contains(known, n) /\ queued[n] > 0
    /\ queued' = [queued EXCEPT ![n] = @ - 1] /\ flying' = [flying EXCEPT ![n] = @ + 1]
    /\ quiet' = quiet \ {n}
    /\ UNCHANGED <<known, caps, cursors, reply, registrations, chosen, served>>

Finish(n) ==
    /\ flying[n] > 0
    /\ flying' = [flying EXCEPT ![n] = @ - 1]
    /\ UNCHANGED <<known, caps, quiet, queued, cursors, reply, registrations, chosen, served>>

------------------------------------------------------------------------------
(* GET servers/next, after the eviction of stale nodes *)

\* _api_v1_scheduler_candidate, capacity apart
Fits(n, model, tier) ==
    n \notin quiet /\ model \in caps[n].models /\ caps[n].tier >= tier

\* _api_v1_node_load_snapshot
AtCapacity(n) == flying[n] >= caps[n].conc \/ queued[n] >= MaxQueue
Lighter(n, m) == (queued[n] + flying[n]) * caps[m].conc < (queued[m] + flying[m]) * caps[n].conc

\* _select_best_fit_server_key: the equals, in registration order.
Equals(model, tier) ==
    LET fit == Only(known, {n \in ToSet(known) : Fits(n, model, tier) /\ ~AtCapacity(n)})
        small == Only(fit, {n \in ToSet(fit) : \A m \in ToSet(fit) : caps[n].tier <= caps[m].tier})
    IN  Only(small, {n \in ToSet(small) : \A m \in ToSet(small) : ~Lighter(m, n)})

\* Distance of a node from the cursor over all nodes.
Ahead(n) == (IndexOf(known, n) - 1 + Len(known) - (next % Len(known))) % Len(known)

\* Fault: one cursor serves every list of equals.
StartAt_Shared(equals) ==
    next % Len(equals)

\* Index, from 0, of the choice in the list of equals.
StartAt(equals) ==
    IF equals \in DOMAIN position THEN position[equals] % Len(equals)
    ELSE IndexOf(equals, CHOOSE n \in ToSet(equals) :
                            \A m \in ToSet(equals) : Ahead(n) <= Ahead(m)) - 1

\* Choices so far, one more for n, less what every node of the list had.
Counted(equals, n) ==
    LET before == IF equals \in DOMAIN served THEN served[equals]
                  ELSE [m \in ToSet(equals) |-> 0]
        after == [before EXCEPT ![n] = @ + 1]
        all == Min({after[m] : m \in DOMAIN after})
    IN  [m \in DOMAIN after |-> after[m] - all]

SelectNext(model, tier) ==
    LET equals == Equals(model, tier)
        start == StartAt(equals)
        n == equals[start + 1] IN
    /\ chosen < MaxChosen /\ chosen' = chosen + 1
    /\ \A m \in quiet : flying[m] > 0   \* the others were evicted just before
    /\ IF equals = <<>>
       THEN /\ reply' = CASE known = <<>> -> "no_registered_compute_nodes"
                          [] \E m \in ToSet(known) : Fits(m, model, tier) -> "no_available_capacity"
                          [] OTHER -> "no_matching_compute_node"
            /\ next' = IF known = <<>> THEN 0 ELSE next
            /\ UNCHANGED <<position, served>>
       ELSE /\ reply' = n
            /\ position' = With(position, equals, (start + 1) % Len(equals))
            /\ next' = IndexOf(known, n) % Len(known)
            /\ served' = With(served, equals, Counted(equals, n))
    /\ UNCHANGED <<known, caps, quiet, load, registrations>>

Next ==
    \/ \E n \in Node, c \in Capabilities : Register(n, c)
    \/ \E n \in Node : Unregister(n) \/ FallsQuiet(n) \/ Enqueue(n) \/ Poll(n) \/ Finish(n)
    \/ \E model \in Model, tier \in Tiers : SelectNext(model, tier)

Spec == Init /\ [][Next]_vars

------------------------------------------------------------------------------
(* Properties *)

\* Among nodes that are equally good the choices rotate, however requests for other
\* models and tiers, registrations and load changes come in between: a node of the list
\* is never two choices behind another.
EqualsRotate ==
    \A k \in DOMAIN served : \A n \in DOMAIN served[k] : served[k][n] <= 1

\* Removing a node keeps the place in the rotation: the node whose turn it was is still
\* next, or the one after it if it was the one removed.
TurnKept ==
    \A n \in Node : Contains(known, n) /\ ~Contains(known', n) /\ Len(known) > 1 =>
        LET turn == known[(next % Len(known)) + 1]
            after == known[((next + 1) % Len(known)) + 1]
        IN  known'[(next' % Len(known')) + 1] = IF turn = n THEN after ELSE turn

\* Every removal keeps the turn.
TurnSurvivesRemoval == [][TurnKept]_vars
=============================================================================
