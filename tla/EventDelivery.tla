---------------------------- MODULE EventDelivery ----------------------------
(***************************************************************************)
(* What the webhook path promises of each Stripe event, with no queue, no  *)
(* row status and no process in sight: an event is accepted for good       *)
(* before it is acknowledged; its effect is committed only while it is     *)
(* owed, at least once before it is done; done is final.                   *)
(* WebhookInbox implements this while one process runs.                    *)
(***************************************************************************)
EXTENDS Naturals

CONSTANT Events

VARIABLES
    owed,     \* events accepted
    acked,    \* events acknowledged to Stripe
    applied,  \* how many times the effect of each was committed
    done      \* events settled for good

vars == <<owed, acked, applied, done>>

Init ==
    /\ owed = {}
    /\ acked = {}
    /\ applied = [e \in Events |-> 0]
    /\ done = {}

\* The event is accepted, and perhaps acknowledged in the same breath.
Accept(e) ==
    /\ e \notin owed
    /\ owed' = owed \cup {e}
    /\ acked' \in {acked, acked \cup {e}}
    /\ UNCHANGED <<applied, done>>

Acknowledge(e) ==
    /\ e \in owed
    /\ acked' = acked \cup {e}
    /\ UNCHANGED <<owed, applied, done>>

\* At least once, never after the event is done.
Apply(e) ==
    /\ e \in owed \ done
    /\ applied' = [applied EXCEPT ![e] = @ + 1]
    /\ UNCHANGED <<owed, acked, done>>

Complete(e) ==
    /\ applied[e] > 0
    /\ done' = done \cup {e}
    /\ UNCHANGED <<owed, acked, applied>>

Next == \E e \in Events : Accept(e) \/ Acknowledge(e) \/ Apply(e) \/ Complete(e)

Spec == Init /\ [][Next]_vars
=============================================================================
