---------------------------- MODULE MCMultaCase ----------------------------
(* Instances of MultaCase for TLC.                                         *)
EXTENDS MultaCase

CONSTANTS m1, s1, s2, r1, r2, r3, r4, w1, w2
VARIABLE focus

\* Requests and sessions are interchangeable, but a liveness property is not
\* checked under SYMMETRY; so they are taken in order, and of two sessions of
\* one kind the first is created first.
InTurn == made \in {{}, {r1}, {r1, r2}, {r1, r2, r3}, {r1, r2, r3, r4}}
Owners == {[s \in Sessions |-> m1], [s \in Sessions |-> NoCase],
           [s \in Sessions |-> IF s = s1 THEN m1 ELSE NoCase]}
FirstFirst == (pay[s1] = "unborn" /\ owner[s1] = owner[s2]) => pay'[s2] = "unborn"

\* Of four requests the last one downloads the report or repairs the row.
LastIsLate == \A r \in inFlight' : r.id = r4 => r.next \in {"saveDischarged", "saveError"}

\* A behaviour is about the overlaps of four requests without faults, or about
\* payments: both sessions are of the case and paid at once or not at all, one
\* request analyzes it and two others do what they like but for that.
FirstAnalyzes == \A r \in inFlight' : r.next = "saveAnalysis" <=> r.id = r1

Overlaps == LastIsLate /\ faults' = 0
Payments == /\ FirstAnalyzes /\ r4 \notin made'
            /\ \A s \in Sessions : pay'[s] # "awaiting"

MCInit == /\ Init
          /\ \/ focus = "overlaps" /\ owner \in Owners
             \/ focus = "payments" /\ owner = [s \in Sessions |-> m1]

MCNext == /\ Next /\ UNCHANGED focus
          /\ InTurn' /\ FirstFirst
          /\ IF focus = "overlaps" THEN Overlaps ELSE Payments

MCSpec == MCInit /\ [][MCNext]_<<vars, focus>> /\ Fairness /\ Quiet
=============================================================================
