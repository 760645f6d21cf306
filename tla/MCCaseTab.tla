----------------------------- MODULE MCCaseTab -----------------------------
(* A small instance of the tab for TLC.  Accounts and cases are            *)
(* interchangeable, so the case that exists from the start is c1, of ana.  *)
(* A behaviour either lets a person do anything (focus "any"), or has ana  *)
(* analyze fines and go about home, with one click more (focus "home").    *)
EXTENDS CaseTab

CONSTANTS ana, bea, c1, c2
VARIABLE focus

AtHome ==
  /\ page.at \in Offsite => page'.at \in Home
  /\ clicks' # clicks => page'.at \in Home
  /\ \A x \in calls' : x.kind \notin {"logout", "checkout"}

MCInit == /\ Init /\ owner[c1] = ana
          /\ \/ focus = "any"
             \/ focus = "home" /\ token # bea

MCNext == /\ Next /\ UNCHANGED focus
          /\ IF focus = "home" THEN AtHome ELSE clicks' < MaxClicks

MCSpec == MCInit /\ [][MCNext]_<<vars, focus>> /\ Fairness
=============================================================================
