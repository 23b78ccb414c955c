---------------------------- MODULE MCRequestPath ----------------------------
(***************************************************************************)
(* RequestPath with the environments a chat endpoint is started in and the *)
(* capabilities two kinds of nodes announce.                               *)
(***************************************************************************)
EXTENDS RequestPath

Environment(mode, sources, fallback, timeout) ==
    [mode |-> mode, sources |-> sources, fallback |-> fallback, timeout |-> timeout]
Environments ==
    {Environment("", {}, TRUE, 4), Environment("", {"public", "explicit"}, TRUE, 4),
     Environment("distributed", {}, FALSE, 4),
     Environment("distributed", {"internal", "config"}, TRUE, 1),
     Environment("distributed", {"explicit"}, FALSE, 1),
     Environment("local", {"config"}, TRUE, 4)}

Announced == {[models |-> {"m1"}, tier |-> t, window |-> 64, conc |-> 1] : t \in {8, 64}}
=============================================================================
