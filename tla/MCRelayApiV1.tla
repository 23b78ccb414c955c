------------------------------ MODULE MCRelayApiV1 ------------------------------
(***************************************************************************)
(* Finite instances of RelayApiV1.                                         *)
(***************************************************************************)
EXTENDS RelayApiV1, TLC

Symmetry == Permutations(Thread) \cup Permutations(Request) \cup Permutations(Node)
================================================================================
