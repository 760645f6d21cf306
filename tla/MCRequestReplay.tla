-------------------------- MODULE MCRequestReplay --------------------------
(* A small instance of the edge and the orchestrator for TLC.  Offences    *)
(* and replies share no state but the clock, so a behaviour is either      *)
(* about the one (focus "edge") or about the other.                        *)
EXTENDS RequestReplay

CONSTANTS r1, r2, r3, r4, c1, c2, k1
VARIABLE focus

Ask == [client |-> c1, apiKey |-> NoKey, method |-> "POST", probe |-> FALSE,
        listed |-> TRUE, flags |-> 0, shape |-> 0,
        scope |-> "t1", key |-> k1, identity |-> "fine", rest |-> "x"]

EdgeArrivals ==
  { [Ask EXCEPT !.flags = 1],
    [Ask EXCEPT !.shape = 2, !.method = "PUT"],
    [Ask EXCEPT !.flags = 2, !.client = c2],
    [Ask EXCEPT !.listed = FALSE, !.method = "GET"],
    [Ask EXCEPT !.method = "OPTIONS", !.probe = TRUE] }
ReplayArrivals ==
  { Ask,
    [Ask EXCEPT !.client = c2, !.apiKey = "partner"],
    [Ask EXCEPT !.identity = "other"],
    [Ask EXCEPT !.scope = "anonymous"],
    [Ask EXCEPT !.key = NoIdempotencyKey] }
MCArrivals == EdgeArrivals \cup ReplayArrivals

MCLimit == [burst     |-> [window |-> 1, ip |-> 2, key |-> 4],
            sustained |-> [window |-> 3, ip |-> 3, key |-> 4],
            analyze   |-> [window |-> 3, ip |-> 2, key |-> 2]]

MCInit == Init /\ focus \in {"edge", "replay"}
MCNext == /\ Next /\ UNCHANGED focus
          /\ \A r \in Requests : (at[r] = "new" /\ at'[r] # "new") =>
               req'[r] \in IF focus = "edge" THEN EdgeArrivals ELSE ReplayArrivals
          /\ focus = "replay" => now' <= 3 /\ rules' # "default"
MCSpec == MCInit /\ [][MCNext]_<<vars, focus>>

Symmetry == Permutations(Requests)
=============================================================================
