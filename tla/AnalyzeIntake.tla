---------------------------- MODULE AnalyzeIntake ----------------------------
(***************************************************************************)
(* The intake of an authenticated POST /multa/analyze, up to the row it    *)
(* works on: the check of the daily quota, the in-process chain of         *)
(* requests for one content, the serializable transaction that finds or    *)
(* creates the row, and the increment of the daily count after it.         *)
(*                                                                         *)
(* One tenant.  PostgreSQL is modelled from what the code asks of it: a    *)
(* transaction reads a snapshot taken when it begins (its first statement  *)
(* is the one that waits for the advisory lock), does not see a row that   *)
(* others create meanwhile, cannot write a row that others wrote, and may  *)
(* be refused as not serializable once others have committed.              *)
(***************************************************************************)
EXTENDS Naturals, Sequences, FiniteSets

CONSTANTS
    Procs,       \* Node processes
    Users,       \* users of the tenant
    Contents,    \* analyze bodies, by requestHash
    Keys,        \* values of options.idempotencyKey
    NoKey,       \* a row or a request without one
    NoRow,       \* there is no row
    Requests,    \* analyze requests (bound of the model)
    Limit,       \* dailyAnalyzeLimit of the plan
    MaxRetries,  \* MAX_RETRIES of safeTransaction
    Days,        \* bound: UTC days
    MaxFaults    \* bound: failing database calls and process exits

ASSUME IntakeAssumption ==
    /\ NoKey \notin Keys /\ NoRow \notin Keys \cup {NoKey}
    /\ IsFiniteSet(Requests) /\ IsFiniteSet(Users) /\ IsFiniteSet(Contents)
    /\ Limit \in Nat \ {0}
    /\ MaxRetries \in Nat \ {0}
    /\ Days \in Nat \ {0}
    /\ MaxFaults \in Nat

VARIABLES
    row,     \* Multa: the idempotencyKey of the row of each user and content
    usage,   \* UsageDaily.analyzeCount of each day
    day,
    line,    \* multa.concurrency's chain of each process, user and content
    req,     \* where each request is
    alone,   \* no two requests were ever between their check and their count
    faults

vars == <<row, usage, day, line, req, alone, faults>>

Rows  == Users \X Contents
Place == {"new", "check", "join", "line", "tx", "count", "done", "refused", "failed"}
Ended == {"done", "refused", "failed"}

Init ==
    /\ row = [x \in Rows |-> NoRow]
    /\ usage = [d \in 1..Days |-> 0]
    /\ day = 1
    /\ line = [l \in Procs \X Rows |-> <<>>]
    /\ req \in [Requests -> [at : {"new"}, proc : Procs, id : Rows,
                             key : Keys \cup {NoKey}, tries : {0},
                         unseen : {{}}, late : {{}}]]
    /\ alone = TRUE
    /\ faults = 0

Fault == faults < MaxFaults /\ faults' = faults + 1

At(i, place)   == req[i].at = place
Goto(i, place) == req' = [req EXCEPT ![i].at = place]
Line(i)        == <<req[i].proc, req[i].id>>
Mine(i)        == req[i].id

-----------------------------------------------------------------------------
(* Before the chain. *)

Arrive(i) ==
    /\ At(i, "new")
    /\ Goto(i, "check")
    /\ UNCHANGED <<row, usage, day, line, alone, faults>>

\* Requests whose count the quota does not see yet.
Uncounted == {i \in Requests : req[i].at \in {"join", "line", "tx", "count"}}

\* Mutation: one more than the limit.
AllowedAtLimit == usage[day] <= Limit

\* checkAnalyzeQuota
Allowed == usage[day] < Limit

CheckQuota(i) ==
    /\ At(i, "check")
    /\ \/ Allowed /\ Goto(i, "join") /\ alone' = (alone /\ Uncounted = {})
       \/ ~Allowed /\ Goto(i, "refused") /\ UNCHANGED alone
    /\ UNCHANGED <<row, usage, day, line, faults>>

\* analyzeLimiter lets it through (or answers 429), and analyzeAndPersist
\* joins the chain of its user and content
Join(i) ==
    /\ At(i, "join")
    /\ \/ Goto(i, "line") /\ line' = [line EXCEPT ![Line(i)] = Append(@, i)]
       \/ Goto(i, "refused") /\ UNCHANGED line
    /\ UNCHANGED <<row, usage, day, alone, faults>>

-----------------------------------------------------------------------------
(* In the chain: the head runs. *)

HasTurn(i) == line[Line(i)] # <<>> /\ Head(line[Line(i)]) = i

\* Mutation: the chain stops behind a request that failed.
LeaveWhenDone(i, end) == /\ Goto(i, end)
                         /\ line' = IF end = "failed" THEN line
                                    ELSE [line EXCEPT ![Line(i)] = Tail(@)]

\* The request leaves the chain, and its successor runs, whatever its end.
Leave(i, end) == /\ Goto(i, end)
                 /\ line' = [line EXCEPT ![Line(i)] = Tail(@)]

\* Mutation: without the chain.
BeginAtOnce(i) ==
    /\ At(i, "line")
    /\ Goto(i, "tx")
    /\ UNCHANGED <<row, usage, day, line, alone, faults>>

\* safeTransaction opens the transaction.
Begin(i) ==
    /\ At(i, "line") /\ HasTurn(i)
    /\ Goto(i, "tx")
    /\ UNCHANGED <<row, usage, day, line, alone, faults>>

\* The rows of its user with its key that the transaction sees.
SeenByKey(i) == {x \in Rows : /\ row[x] = req[i].key /\ row[x] # NoKey
                              /\ x[1] = Mine(i)[1] /\ x \notin req[i].unseen}

SeenByHash(i) == row[Mine(i)] # NoRow /\ Mine(i) \notin req[i].unseen

\* idempotencyKey is unique in the whole table.
KeyTaken(i) == req[i].key # NoKey /\ \E x \in Rows : row[x] = req[i].key

\* A committed write to row x comes after the snapshots of the other open
\* transactions: a new row is one they do not see.
Written(i, x, new, place) ==
    req' = [j \in Requests |->
               IF j = i THEN [req[i] EXCEPT !.at = place, !.unseen = {}, !.late = {}]
               ELSE IF req[j].at = "tx"
               THEN [req[j] EXCEPT !.late = @ \cup {x}, !.unseen = @ \cup new]
               ELSE req[j]]

\* findFirst by key
FindByKey(i) ==
    /\ At(i, "tx") /\ SeenByKey(i) # {}
    /\ Leave(i, "done")
    /\ UNCHANGED <<row, usage, day, alone, faults>>

\* findUnique by tenant, user and requestHash; the row is touched
Touch(i) ==
    /\ At(i, "tx") /\ SeenByKey(i) = {} /\ SeenByHash(i)
    /\ Mine(i) \notin req[i].late
    /\ Written(i, Mine(i), {}, "done")
    /\ line' = [line EXCEPT ![Line(i)] = Tail(@)]
    /\ UNCHANGED <<row, usage, day, alone, faults>>

\* Mutation: no unique key on tenant, user and requestHash.
Unseen(i) == ~SeenByHash(i)

NoRowYet(i) == row[Mine(i)] = NoRow

\* create: the row is new, and the request will count
Create(i) ==
    /\ At(i, "tx") /\ SeenByKey(i) = {} /\ NoRowYet(i) /\ ~KeyTaken(i)
    /\ row' = [row EXCEPT ![Mine(i)] = req[i].key]
    /\ Written(i, Mine(i), {Mine(i)}, "count")
    /\ UNCHANGED <<usage, day, line, alone, faults>>

\* create is refused by a unique key (P2002), of the row or of its key.  The
\* look-ups that follow run in an aborted transaction: they reject, and
\* nothing retries that.
CreateRefused(i) ==
    /\ At(i, "tx") /\ SeenByKey(i) = {} /\ ~SeenByHash(i)
    /\ ~NoRowYet(i) \/ KeyTaken(i)
    /\ Leave(i, "failed")
    /\ UNCHANGED <<row, usage, day, alone, faults>>

\* A serialization failure (P2034): safeTransaction tries again, five times.
Conflict(i) ==
    /\ At(i, "tx") /\ req[i].late # {}
    /\ \/ /\ req[i].tries + 1 < MaxRetries
          /\ req' = [req EXCEPT ![i].tries = @ + 1, ![i].unseen = {}, ![i].late = {}]
          /\ UNCHANGED line
       \/ req[i].tries + 1 = MaxRetries /\ Leave(i, "failed")
    /\ UNCHANGED <<row, usage, day, alone, faults>>

\* incrementAnalyzeUsageForTenant, on the day it runs
Count(i) ==
    /\ At(i, "count")
    /\ usage' = [usage EXCEPT ![day] = @ + 1]
    /\ Leave(i, "done")
    /\ UNCHANGED <<row, day, alone, faults>>

\* A database call fails (for the increment: five conflicts too): 500.
CallFails(i) ==
    /\ req[i].at \in {"check", "tx", "count"}
    /\ Fault
    /\ \/ At(i, "check") /\ Goto(i, "failed") /\ UNCHANGED line
       \/ ~At(i, "check") /\ Leave(i, "failed")
    /\ UNCHANGED <<row, usage, day, alone>>

\* A process exits with its requests and its chains.
Crash(p) ==
    /\ Fault
    /\ req' = [i \in Requests |->
                  IF req[i].proc = p /\ req[i].at \notin Ended \cup {"new"}
                  THEN [req[i] EXCEPT !.at = "failed"] ELSE req[i]]
    /\ line' = [l \in Procs \X Rows |-> IF l[1] = p THEN <<>> ELSE line[l]]
    /\ UNCHANGED <<row, usage, day, alone>>

Midnight ==
    /\ day < Days
    /\ day' = day + 1
    /\ UNCHANGED <<row, usage, line, req, alone, faults>>

-----------------------------------------------------------------------------
Transaction(i) == \/ FindByKey(i) \/ Touch(i) \/ Create(i)
                  \/ CreateRefused(i) \/ Conflict(i)

Step(i) == CheckQuota(i) \/ Join(i) \/ Begin(i) \/ Transaction(i) \/ Count(i)

Next == \/ \E i \in Requests : Arrive(i) \/ Step(i) \/ CallFails(i)
        \/ \E p \in Procs : Crash(p)
        \/ Midnight

Spec == Init /\ [][Next]_vars

\* The promises a request waits for are settled by the runtime or PostgreSQL.
FairSpec == Spec /\ \A i \in Requests : WF_vars(Step(i))

-----------------------------------------------------------------------------
\* TypeOK: types, and that a request holds its turn from its transaction to its count.
TypeOK ==
    /\ row \in [Rows -> Keys \cup {NoKey, NoRow}]
    /\ usage \in [1..Days -> Nat]
    /\ day \in 1..Days
    /\ line \in [Procs \X Rows -> Seq(Requests)]
    /\ req \in [Requests -> [at : Place, proc : Procs, id : Rows,
                             key : Keys \cup {NoKey}, tries : 0..(MaxRetries - 1),
                             unseen : SUBSET Rows, late : SUBSET Rows]]
    /\ \A i \in Requests : req[i].at \in {"tx", "count"} => HasTurn(i)
    /\ alone \in BOOLEAN
    /\ faults \in Nat

RowsMade == {x \in Rows : row[x] # NoRow}
Owed     == {i \in Requests : req[i].at = "count"}
Counts   == UNION {{d} \X (1..usage[d]) : d \in 1..Days}  \* every increment made

\* CountedOnce: every created row is counted once: whatever overlaps, is retried or found
\* again, the count never passes the rows made, and misses one only if a call
\* or a process failed between the commit and the increment.
CountedOnce ==
    /\ Cardinality(Counts) + Cardinality(Owed) <= Cardinality(RowsMade)
    /\ faults = 0 => Cardinality(Counts) + Cardinality(Owed) = Cardinality(RowsMade)

\* The quota holds as long as requests of the tenant do not overlap, midnight
\* and failures included.
QuotaHoldsAlone == alone => \A d \in 1..Days : usage[d] <= Limit

\* Every request that arrives is answered: no chain stops, whatever fails in it.
Answered == \A i \in Requests : At(i, "check") ~> req[i].at \in Ended
=============================================================================
