---------------------------- MODULE CasePromise ----------------------------
(***************************************************************************)
(* What a case promises its customer, with no request, no worker and no    *)
(* webhook in sight: a report is written only after a session of the case  *)
(* was paid, and exists from then on; it is handed over only when it is    *)
(* ready; and the case turns its back on a report only when a request      *)
(* writes over a state it did not read.  MultaCase implements this.        *)
(***************************************************************************)

CONSTANTS Multas, Sessions

VARIABLES
    owner,       \* the case each session pays for, for good
    paid,        \* sessions that were paid
    reported,    \* cases that have a report
    shown,       \* what a case says of it: open, ready, discharged
    overwritten  \* cases a request wrote over without having read them

vars == <<owner, paid, reported, shown, overwritten>>

Init ==
    /\ paid = {}
    /\ reported = {}
    /\ shown = [m \in Multas |-> "open"]
    /\ overwritten = {}

Pay(s) ==
    /\ s \notin paid
    /\ paid' = paid \cup {s}
    /\ UNCHANGED <<owner, reported, shown, overwritten>>

\* The report is written and shown as ready in one step, for the first time or
\* again.
Report(m) ==
    /\ \E s \in paid : owner[s] = m
    /\ reported' = reported \cup {m}
    /\ shown' = [shown EXCEPT ![m] = "ready"]
    /\ UNCHANGED <<owner, paid, overwritten>>

HandOver(m) ==
    /\ shown[m] = "ready"
    /\ shown' = [shown EXCEPT ![m] = "discharged"]
    /\ UNCHANGED <<owner, paid, reported, overwritten>>

\* A late write: it may close the case again, or show as handed over a report
\* there is.
Overwrite(m) ==
    /\ overwritten' = overwritten \cup {m}
    /\ \/ shown' = [shown EXCEPT ![m] = "open"]
       \/ m \in reported /\ shown' = [shown EXCEPT ![m] = "discharged"]
    /\ UNCHANGED <<owner, paid, reported>>

Next ==
    \/ \E s \in Sessions : Pay(s)
    \/ \E m \in Multas : Report(m) \/ HandOver(m) \/ Overwrite(m)

Spec == Init /\ [][Next]_vars
=============================================================================
