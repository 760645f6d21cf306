--------------------------- MODULE MCWebhookInbox ---------------------------
(* Instances of WebhookInbox for TLC. *)
EXTENDS WebhookInbox, TLC

CONSTANTS p1, p2, e1, e2, d1, d2, d3

OneProc       == {p1}
TwoProcs      == {p1, p2}
OneEvent      == {e1}
TwoEvents     == {e1, e2}
TwoDeliveries == {d1, d2}
ThreeDeliveries == {d1, d2, d3}

\* Events, processes and deliveries are interchangeable (safety runs only).
Symmetry == Permutations(Procs) \cup Permutations(Events) \cup Permutations(Deliveries)

\* A liveness property is not checked under SYMMETRY: there, the first process
\* to start is p1 and the first delivery is d1.
InTurn ==
    /\ sent # {d2}
    /\ \A r \in http : r.id = d1 => r.proc = p1
    /\ crashes + faults <= 1

TwoSpec == Init /\ [][Next /\ InTurn']_vars /\ Fairness
=============================================================================
