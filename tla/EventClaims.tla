---------------------------- MODULE EventClaims ----------------------------
(***************************************************************************)
(* What lies between the queue of events and the work on a case: which     *)
(* events wait, and which worker has claimed which.  An event is claimed   *)
(* by one worker at a time, unless it is late; only an event that waits is *)
(* claimed, and only who holds it settles it.                              *)
(*                                                                         *)
(* WebhookInbox implements this, and MultaCase, which takes the queue for  *)
(* granted, implements it too, with no event ever late.                    *)
(***************************************************************************)

CONSTANTS Events, Workers

VARIABLES
    waiting,  \* events received and not settled
    held,     \* claims: pairs of a worker and an event
    late      \* events old enough for their claim to be taken away

vars == <<waiting, held, late>>

Init == waiting = {} /\ held = {} /\ late = {}

Receive(e) ==
    /\ waiting' = waiting \cup {e}
    /\ UNCHANGED <<held, late>>

Claim(w, e) ==
    /\ e \in waiting
    /\ \A x \in Events : <<w, x>> \notin held
    /\ e \in late \/ \A x \in Workers : <<x, e>> \notin held
    /\ held' = held \cup {<<w, e>>}
    /\ UNCHANGED <<waiting, late>>

\* The claim ends with it, or, when the answer of the database is lost, later.
Settle(w, e) ==
    /\ <<w, e>> \in held
    /\ waiting' = waiting \ {e}
    /\ held' \in {held, held \ {<<w, e>>}}
    /\ UNCHANGED late

\* The event is given back, or its worker dies.
Release(w, e) ==
    /\ held' = held \ {<<w, e>>}
    /\ UNCHANGED <<waiting, late>>

\* An event that asks for nothing.
Dismiss(e) ==
    /\ \A w \in Workers : <<w, e>> \notin held
    /\ waiting' = waiting \ {e}
    /\ UNCHANGED <<held, late>>

Outlive(e) ==
    /\ late' = late \cup {e}
    /\ UNCHANGED <<waiting, held>>

Next ==
    \/ \E e \in Events : Receive(e) \/ Dismiss(e) \/ Outlive(e)
    \/ \E w \in Workers, e \in Events : Claim(w, e) \/ Settle(w, e) \/ Release(w, e)

Spec == Init /\ [][Next]_vars
=============================================================================
