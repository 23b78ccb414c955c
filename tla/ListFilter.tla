----------------------------- MODULE ListFilter -----------------------------
(***************************************************************************)
(* Python's list comprehensions with a condition, which the relay uses on  *)
(* its queues and the relay client on its relay targets.  They are written *)
(* with ranks, without a function as argument, so that they can be         *)
(* reasoned about (ListFilter_proofs).                                     *)
(***************************************************************************)
EXTENDS Integers, Sequences, FiniteSets

Elements(s) == {s[i] : i \in DOMAIN s}

\* The entries of s at the positions K, in order.
Rank(K, i) == Cardinality({k \in K : k <= i})
EntriesAt(s, K) == [j \in 1 .. Cardinality(K) |-> s[CHOOSE i \in K : Rank(K, i) = j]]

\* [x for x in s if x in R] and [x for x in s if x not in R].
Only(s, R) == EntriesAt(s, {i \in DOMAIN s : s[i] \in R})
Without(s, R) == EntriesAt(s, {i \in DOMAIN s : s[i] \notin R})
=============================================================================
