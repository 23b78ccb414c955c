--------------------------- MODULE MCModelManager ---------------------------
(* Instances of ModelManager: two requests and a cancellation; a request, or a *)
(* thread that asks for the runtime, and a change of profile; a thread that    *)
(* asks for the runtime and a cancellation.                                    *)
EXTENDS ModelManager
CONSTANTS q1, q2, w1, k1, p1
Absent == {{p1, w1}, {q2, k1, w1}, {q1, q2, k1}, {q1, q2, p1}}
MCInit ==
    /\ llm = None /\ generation = 0 /\ epoch = 0 /\ barrier = None
    /\ lock = None /\ alive = {} /\ usable = {} /\ started = 0 /\ stray = {}
    /\ \E gone \in Absent :
         th = [t \in Threads |-> IF t \in gone THEN [NoThread EXCEPT !.pc = "done"] ELSE NoThread]
MCSpec == MCInit /\ [][Next]_vars /\ \A t \in Threads : WF_vars(ThreadStep(t))
=============================================================================
