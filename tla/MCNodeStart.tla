----------------------------- MODULE MCNodeStart -----------------------------
(***************************************************************************)
(* NodeStart on two processes that share a model file, one plain and one   *)
(* streaming call of the worker, and two publishers.                       *)
(***************************************************************************)
EXTENDS NodeStart

CONSTANTS p1, p2, c1, s1
=============================================================================
