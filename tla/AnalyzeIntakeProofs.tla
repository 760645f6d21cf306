------------------------ MODULE AnalyzeIntakeProofs ------------------------
(***************************************************************************)
(* Theorems about AnalyzeIntake, for any number of processes, users,       *)
(* contents, keys, requests, days, retries and faults:                     *)
(*   the types, and that a request holds the turn of its line from its     *)
(*   transaction to its count (multa.concurrency.js);                      *)
(*   the daily quota, as long as requests do not overlap;                  *)
(*   that every row is counted once, and none twice, by keeping the        *)
(*   cardinalities of the rows, the increments and the requests that owe   *)
(*   one in step.                                                          *)
(***************************************************************************)
EXTENDS AnalyzeIntake, SequenceTheorems, FiniteSetTheorems, TLAPS

LEMMA LineGrows ==
    ASSUME NEW q \in Seq(Requests), NEW i \in Requests
    PROVE  /\ Append(q, i) \in Seq(Requests) /\ Append(q, i) # <<>>
           /\ q # <<>> => Head(Append(q, i)) = Head(q)
<1>1. /\ Append(q, i) \in Seq(Requests) /\ Append(q, i) # <<>>
      /\ Len(q) \in Nat /\ Len(Append(q, i)) = Len(q) + 1
      /\ \A k \in 1..Len(q) : Append(q, i)[k] = q[k]
  BY AppendProperties, LenProperties
<1>2. ASSUME q # <<>> PROVE Head(Append(q, i)) = Head(q)
  <2>1. 1 \in 1..Len(q)
    BY <1>1, <1>2, EmptySeq
  <2> QED
    BY <1>1, <1>2, <2>1, HeadTailProperties
<1> QED
  BY <1>1, <1>2

LEMMA LineShrinks ==
    ASSUME NEW q \in Seq(Requests), q # <<>>
    PROVE  Tail(q) \in Seq(Requests)
BY HeadTailProperties

\* A step that changes no line and moves only request i, which had its turn if
\* it is to have it.
LEMMA TurnsStay ==
    ASSUME TypeOK, NEW i \in Requests, UNCHANGED line,
           \A j \in Requests : /\ req'[j].proc = req[j].proc /\ req'[j].id = req[j].id
                               /\ j # i => req'[j].at = req[j].at,
           req'[i].at \in {"tx", "count"} => HasTurn(i)
    PROVE  \A j \in Requests : req'[j].at \in {"tx", "count"} => HasTurn(j)'
BY DEF TypeOK, HasTurn, Line

\* Request i leaves its line: whoever else has a turn has it in another line.
LEMMA TurnsPass ==
    ASSUME TypeOK, NEW i \in Requests, HasTurn(i), req'[i].at \notin {"tx", "count"},
           line' = [line EXCEPT ![Line(i)] = Tail(@)],
           \A j \in Requests : /\ req'[j].proc = req[j].proc /\ req'[j].id = req[j].id
                               /\ j # i => req'[j].at = req[j].at
    PROVE  /\ line' \in [Procs \X Rows -> Seq(Requests)]
           /\ \A j \in Requests : req'[j].at \in {"tx", "count"} => HasTurn(j)'
<1>1. Line(i) \in Procs \X Rows /\ line[Line(i)] \in Seq(Requests) /\ line[Line(i)] # <<>>
  BY DEF TypeOK, Line, HasTurn
<1>2. line' \in [Procs \X Rows -> Seq(Requests)]
  BY <1>1, LineShrinks DEF TypeOK
<1>3. ASSUME NEW j \in Requests, req'[j].at \in {"tx", "count"}
      PROVE  HasTurn(j)'
  <2>1. j # i /\ req[j].at \in {"tx", "count"} /\ Line(j)' = Line(j)
    BY <1>3 DEF Line
  <2>2. HasTurn(j) /\ Line(j) \in Procs \X Rows
    BY <2>1 DEF TypeOK, Line
  <2>3. Line(j) # Line(i)
    BY <2>1, <2>2 DEF HasTurn
  <2>4. line'[Line(j)] = line[Line(j)]
    BY <1>1, <2>2, <2>3 DEF TypeOK
  <2> QED
    BY <2>1, <2>2, <2>4 DEF HasTurn
<1> QED
  BY <1>2, <1>3

\* The fields of the requests after the steps that move one of them.
Fields == [at : Place, proc : Procs, id : Rows, key : Keys \cup {NoKey},
           tries : 0..(MaxRetries - 1), unseen : SUBSET Rows, late : SUBSET Rows]

Moved(i, place) ==
    /\ req' \in [Requests -> Fields]
    /\ req'[i].at = place
    /\ \A j \in Requests : /\ req'[j].proc = req[j].proc /\ req'[j].id = req[j].id
                           /\ j # i => req'[j].at = req[j].at

LEMMA GotoMoves ==
    ASSUME TypeOK, NEW i \in Requests, NEW place \in Place, Goto(i, place)
    PROVE  Moved(i, place)
BY DEF TypeOK, Goto, Moved, Fields

LEMMA WrittenMoves ==
    ASSUME TypeOK, NEW i \in Requests, NEW place \in Place,
           NEW x \in Rows, NEW new \in SUBSET Rows, Written(i, x, new, place)
    PROVE  Moved(i, place)
<1>1. req \in [Requests -> Fields]
  BY DEF TypeOK, Fields
<1>2. [req[i] EXCEPT !.at = place, !.unseen = {}, !.late = {}] \in Fields
  BY <1>1 DEF Fields
<1>3. \A j \in Requests : [req[j] EXCEPT !.late = @ \cup {x}, !.unseen = @ \cup new] \in Fields
  BY <1>1 DEF Fields
<1>4. req' \in [Requests -> Fields]
  BY <1>1, <1>2, <1>3 DEF Written
<1>5. \A j \in Requests : req'[j] = IF j = i THEN [req[i] EXCEPT !.at = place, !.unseen = {}, !.late = {}]
               ELSE IF req[j].at = "tx"
               THEN [req[j] EXCEPT !.late = @ \cup {x}, !.unseen = @ \cup new]
               ELSE req[j]
  BY DEF Written
<1>6. req'[i].at = place
  BY <1>1, <1>5 DEF Fields
<1>7. \A j \in Requests : /\ req'[j].proc = req[j].proc /\ req'[j].id = req[j].id
                          /\ j # i => req'[j].at = req[j].at
  <2> TAKE j \in Requests
  <2>1. req[j] \in Fields
    BY <1>1
  <2>2. CASE j = i
    BY <1>5, <2>1, <2>2 DEF Fields
  <2>3. CASE j # i /\ req[j].at = "tx"
    BY <1>5, <2>1, <2>3 DEF Fields
  <2>4. CASE j # i /\ req[j].at # "tx"
    BY <1>5, <2>4
  <2> QED
    BY <2>2, <2>3, <2>4
<1> QED
  BY <1>4, <1>6, <1>7 DEF Moved

\* Where a request may go in the steps of the chain.
LEMMA TransactionMoves ==
    ASSUME TypeOK, NEW i \in Requests, Transaction(i)
    PROVE  /\ At(i, "tx")
           /\ \/ Moved(i, "tx") /\ UNCHANGED <<line, row>>
              \/ /\ Moved(i, "count") /\ UNCHANGED line
                 /\ row' \in [Rows -> Keys \cup {NoKey, NoRow}]
              \/ /\ Moved(i, "done") \/ Moved(i, "failed")
                 /\ line' = [line EXCEPT ![Line(i)] = Tail(@)] /\ UNCHANGED row
           /\ UNCHANGED <<usage, day, alone, faults>>
<1>1. At(i, "tx") /\ UNCHANGED <<usage, day, alone, faults>>
  BY DEF Transaction, FindByKey, Touch, Create, CreateRefused, Conflict
<1>2. Mine(i) \in Rows /\ req[i].key \in Keys \cup {NoKey}
  BY DEF TypeOK, Mine
<1>3. CASE FindByKey(i)
  BY <1>1, <1>3, GotoMoves DEF FindByKey, Leave, Place
<1>4. CASE Touch(i)
  BY <1>1, <1>2, <1>4, WrittenMoves DEF Touch, Place
<1>5. CASE Create(i)
  <2>1. Moved(i, "count")
    BY <1>2, <1>5, WrittenMoves DEF Create, Place
  <2> QED
    BY <1>1, <1>2, <1>5, <2>1 DEF Create, TypeOK
<1>6. CASE CreateRefused(i)
  BY <1>1, <1>6, GotoMoves DEF CreateRefused, Leave, Place
<1>7. CASE Conflict(i)
  <2>1. CASE Leave(i, "failed") /\ UNCHANGED row
    BY <1>1, <2>1, GotoMoves DEF Leave, Place
  <2>2. CASE /\ req[i].tries + 1 < MaxRetries
             /\ req' = [req EXCEPT ![i].tries = @ + 1, ![i].unseen = {}, ![i].late = {}]
             /\ UNCHANGED <<line, row>>
    <3>1. req[i].tries + 1 \in 0..(MaxRetries - 1)
      BY <2>2, IntakeAssumption DEF TypeOK
    <3>2. req \in [Requests -> Fields]
      BY DEF TypeOK, Fields
    <3>3. [req[i] EXCEPT !.tries = @ + 1, !.unseen = {}, !.late = {}] \in Fields
      BY <3>1, <3>2 DEF Fields
    <3>4. req' = [req EXCEPT ![i] = [req[i] EXCEPT !.tries = @ + 1, !.unseen = {}, !.late = {}]]
      BY <2>2, <3>2
    <3> QED
      BY <1>1, <2>2, <3>2, <3>3, <3>4 DEF Moved, Fields, At
  <2> QED
    BY <1>7, <2>1, <2>2 DEF Conflict
<1> QED
  BY <1>3, <1>4, <1>5, <1>6, <1>7 DEF Transaction

-----------------------------------------------------------------------------
(***************************************************************************)
(* Types, and turns.                                                       *)
(***************************************************************************)

\* What the moves of one request leave to show.
LEMMA MovedKeepsType ==
    ASSUME TypeOK, NEW i \in Requests, NEW place \in Place, Moved(i, place),
           \/ UNCHANGED line /\ (place \in {"tx", "count"} => HasTurn(i))
           \/ /\ HasTurn(i) /\ place \notin {"tx", "count"}
              /\ line' = [line EXCEPT ![Line(i)] = Tail(@)],
           row' \in [Rows -> Keys \cup {NoKey, NoRow}],
           usage' \in [1..Days -> Nat], day' \in 1..Days,
           alone' \in BOOLEAN, faults' \in Nat
    PROVE  TypeOK'
<1>1. /\ line' \in [Procs \X Rows -> Seq(Requests)]
      /\ \A j \in Requests : req'[j].at \in {"tx", "count"} => HasTurn(j)'
  <2>1. CASE UNCHANGED line /\ (place \in {"tx", "count"} => HasTurn(i))
    BY <2>1, TurnsStay DEF TypeOK, Moved
  <2>2. CASE /\ HasTurn(i) /\ place \notin {"tx", "count"}
             /\ line' = [line EXCEPT ![Line(i)] = Tail(@)]
    BY <2>2, TurnsPass DEF Moved
  <2> QED
    BY <2>1, <2>2
<1> QED
  BY <1>1 DEF TypeOK, Moved, Fields

LEMMA JoinKeepsType ==
    ASSUME TypeOK, NEW i \in Requests, At(i, "join"), Goto(i, "line"),
           line' = [line EXCEPT ![Line(i)] = Append(@, i)],
           UNCHANGED <<row, usage, day, alone, faults>>
    PROVE  TypeOK'
<1>1. Moved(i, "line")
  BY GotoMoves DEF Place
<1>2. Line(i) \in Procs \X Rows /\ line[Line(i)] \in Seq(Requests)
  BY DEF TypeOK, Line
<1>3. line' \in [Procs \X Rows -> Seq(Requests)]
  BY <1>2, LineGrows DEF TypeOK
<1>4. ASSUME NEW l \in Procs \X Rows, line[l] # <<>>
      PROVE  line'[l] # <<>> /\ Head(line'[l]) = Head(line[l])
  BY <1>2, <1>4, LineGrows DEF TypeOK
<1>5. ASSUME NEW j \in Requests, req'[j].at \in {"tx", "count"}
      PROVE  HasTurn(j)'
  <2>1. req[j].at \in {"tx", "count"} /\ Line(j)' = Line(j) /\ Line(j) \in Procs \X Rows
    BY <1>1, <1>5 DEF Moved, Line, TypeOK
  <2> QED
    BY <1>4, <2>1 DEF TypeOK, HasTurn
<1> QED
  BY <1>1, <1>3, <1>5 DEF TypeOK, Moved, Fields

LEMMA StepKeepsType ==
    ASSUME TypeOK, NEW i \in Requests, Arrive(i) \/ Step(i)
    PROVE  TypeOK'
<1>1. CASE Arrive(i)
  BY <1>1, GotoMoves, MovedKeepsType DEF Arrive, Place, TypeOK
<1>2. CASE CheckQuota(i)
  <2>1. Moved(i, "join") \/ Moved(i, "refused")
    BY <1>2, GotoMoves DEF CheckQuota, Place
  <2>2. alone' \in BOOLEAN
    BY <1>2 DEF CheckQuota, TypeOK
  <2>3. UNCHANGED <<row, usage, day, line, faults>>
    BY <1>2 DEF CheckQuota
  <2> QED
    BY <2>1, <2>2, <2>3, MovedKeepsType DEF Place, TypeOK
<1>3. CASE Join(i)
  <2>1. UNCHANGED <<row, usage, day, alone, faults>> /\ At(i, "join")
    BY <1>3 DEF Join
  <2>2. CASE Goto(i, "refused") /\ UNCHANGED line
    BY <2>1, <2>2, GotoMoves, MovedKeepsType DEF Place, TypeOK
  <2> QED
    BY <1>3, <2>1, <2>2, JoinKeepsType DEF Join
<1>4. CASE Begin(i)
  BY <1>4, GotoMoves, MovedKeepsType DEF Begin, Place, TypeOK
<1>5. CASE Transaction(i)
  <2>1. HasTurn(i)
    BY <1>5, TransactionMoves DEF TypeOK, At
  <2>2. CASE Moved(i, "tx") /\ UNCHANGED <<line, row>>
    BY <1>5, <2>1, <2>2, TransactionMoves, MovedKeepsType DEF Place, TypeOK
  <2>3. CASE /\ Moved(i, "count") /\ UNCHANGED line
             /\ row' \in [Rows -> Keys \cup {NoKey, NoRow}]
    BY <1>5, <2>1, <2>3, TransactionMoves, MovedKeepsType DEF Place, TypeOK
  <2>4. CASE /\ Moved(i, "done") \/ Moved(i, "failed")
             /\ line' = [line EXCEPT ![Line(i)] = Tail(@)] /\ UNCHANGED row
    BY <1>5, <2>1, <2>4, TransactionMoves, MovedKeepsType DEF Place, TypeOK
  <2> QED
    BY <1>5, <2>2, <2>3, <2>4, TransactionMoves
<1>6. CASE Count(i)
  <2>1. Moved(i, "done") /\ HasTurn(i)
    BY <1>6, GotoMoves DEF Count, Leave, Place, At, TypeOK
  <2>2. usage' \in [1..Days -> Nat]
    <3>1. usage \in [1..Days -> Nat] /\ day \in 1..Days
      BY DEF TypeOK
    <3>2. usage' = [usage EXCEPT ![day] = usage[day] + 1] /\ usage[day] + 1 \in Nat
      BY <1>6, <3>1 DEF Count
    <3> QED
      BY <3>1, <3>2
  <2>3. line' = [line EXCEPT ![Line(i)] = Tail(@)] /\ UNCHANGED <<row, day, alone, faults>>
    BY <1>6 DEF Count, Leave
  <2> QED
    BY <2>1, <2>2, <2>3, MovedKeepsType DEF Place, TypeOK
<1> QED
  BY <1>1, <1>2, <1>3, <1>4, <1>5, <1>6 DEF Step

\* A failing call ends its request; a process ends all of its own.
LEMMA FaultKeepsType ==
    ASSUME TypeOK, NEW i \in Requests, NEW p \in Procs, CallFails(i) \/ Crash(p)
    PROVE  TypeOK'
<1>1. faults' \in Nat /\ UNCHANGED <<row, usage, day, alone>>
  BY DEF CallFails, Crash, Fault, TypeOK
<1>2. CASE CallFails(i)
  <2>1. Moved(i, "failed")
    BY <1>2, GotoMoves DEF CallFails, Leave, Place
  <2>2. \/ UNCHANGED line
        \/ HasTurn(i) /\ line' = [line EXCEPT ![Line(i)] = Tail(@)]
    BY <1>2 DEF CallFails, Leave, At, TypeOK
  <2> QED
    BY <1>1, <2>1, <2>2, MovedKeepsType DEF Place, TypeOK
<1>3. CASE Crash(p)
  <2>1. req' \in [Requests -> Fields]
    <3>1. req \in [Requests -> Fields]
      BY DEF TypeOK, Fields
    <3>2. \A j \in Requests : [req[j] EXCEPT !.at = "failed"] \in Fields
      BY <3>1 DEF Fields, Place
    <3> QED
      BY <1>3, <3>1, <3>2 DEF Crash
  <2>2. \A j \in Requests :
           /\ req'[j].proc = req[j].proc /\ req'[j].id = req[j].id
           /\ req'[j].at \in {"tx", "count"} => req[j].at = req'[j].at /\ req[j].proc # p
    BY <1>3 DEF Crash, TypeOK, Ended
  <2>3. line' \in [Procs \X Rows -> Seq(Requests)]
    BY <1>3, EmptySeq DEF Crash, TypeOK
  <2>4. ASSUME NEW j \in Requests, req'[j].at \in {"tx", "count"}
        PROVE  HasTurn(j)'
    <3>1. HasTurn(j) /\ Line(j)' = Line(j) /\ Line(j) \in Procs \X Rows /\ Line(j)[1] # p
      BY <2>2, <2>4 DEF TypeOK, Line
    <3>2. line'[Line(j)] = line[Line(j)]
      BY <1>3, <3>1 DEF Crash
    <3> QED
      BY <3>1, <3>2 DEF HasTurn
  <2> QED
    BY <1>1, <2>1, <2>3, <2>4 DEF TypeOK, Fields
<1> QED
  BY <1>2, <1>3

LEMMA IntakeTypeNext == TypeOK /\ [Next]_vars => TypeOK'
<1> SUFFICES ASSUME TypeOK, [Next]_vars PROVE TypeOK'
  OBVIOUS
<1>1. ASSUME NEW i \in Requests, CallFails(i) PROVE TypeOK'
  <2>1. req[i].proc \in Procs
    BY DEF TypeOK
  <2> QED
    BY <1>1, <2>1, FaultKeepsType
<1>2. ASSUME NEW p \in Procs, Crash(p) PROVE TypeOK'
  <2>1. CASE Requests = {}
    BY <1>2, <2>1, EmptySeq DEF Crash, Fault, TypeOK
  <2> QED
    BY <1>2, <2>1, FaultKeepsType
<1>3. CASE Midnight
  <2>1. day' \in 1..Days
    BY <1>3, IntakeAssumption DEF Midnight, TypeOK
  <2>2. UNCHANGED <<row, usage, line, req, alone, faults>>
    BY <1>3 DEF Midnight
  <2> QED
    BY <2>1, <2>2 DEF TypeOK, HasTurn, Line
<1>4. CASE UNCHANGED vars
  BY <1>4 DEF vars, TypeOK, HasTurn, Line
<1> QED
  BY <1>1, <1>2, <1>3, <1>4, StepKeepsType DEF Next

LEMMA IntakeTypeInit == Init => TypeOK
<1> SUFFICES ASSUME Init PROVE TypeOK
  OBVIOUS
<1>1. /\ req \in [Requests -> Fields]
      /\ \A i \in Requests : req[i].at = "new"
  BY IntakeAssumption DEF Init, Fields, Place
<1>2. line \in [Procs \X Rows -> Seq(Requests)]
  BY EmptySeq DEF Init
<1> QED
  BY <1>1, <1>2, IntakeAssumption DEF Init, TypeOK, Fields

\* In every run, the state of the intake is well formed, and a request is in
\* its transaction, or about to count, only while it is the first of its line:
\* runWithConcurrencyLock lets no other request of the process for the same
\* user and content pass it (multa.concurrency.js:10-35).
THEOREM IntakeTypeCorrect == Spec => []TypeOK
BY IntakeTypeInit, IntakeTypeNext, PTL DEF Spec

-----------------------------------------------------------------------------
(***************************************************************************)
(* The quota, for requests that do not overlap.                            *)
(***************************************************************************)

\* As long as requests were alone, at most one is on its way to the count, and
\* it found the count of the day below the limit; a new day starts at zero.
QuotaInv ==
    /\ \A d \in 1..Days : d > day => usage[d] = 0
    /\ alone => /\ \A i, j \in Uncounted : i = j
                /\ Uncounted # {} => usage[day] < Limit
                /\ \A d \in 1..Days : usage[d] <= Limit

\* A step after which no more requests are uncounted than before.
LEMMA QuotaQuiet ==
    ASSUME TypeOK, QuotaInv, Uncounted' \subseteq Uncounted,
           UNCHANGED <<usage, day, alone>>
    PROVE  QuotaInv'
BY DEF QuotaInv

LEMMA QuotaNext == TypeOK /\ QuotaInv /\ [Next]_vars => QuotaInv'
<1> SUFFICES ASSUME TypeOK, QuotaInv, [Next]_vars PROVE QuotaInv'
  OBVIOUS
<1>1. \A d \in 1..Days : usage[d] \in Nat /\ day \in 1..Days /\ Days \in Nat /\ Limit \in Nat /\ Limit > 0
  BY IntakeAssumption DEF TypeOK
<1>2. ASSUME NEW i \in Requests, CheckQuota(i) PROVE QuotaInv'
  <2>1. CASE Allowed /\ Goto(i, "join") /\ alone' = (alone /\ Uncounted = {})
    <3>1. Moved(i, "join")
      BY <2>1, GotoMoves DEF Place
    <3>2. Uncounted' = Uncounted \cup {i}
      BY <3>1 DEF Uncounted, Moved
    <3>3. UNCHANGED <<usage, day>>
      BY <1>2 DEF CheckQuota
    <3> QED
      BY <2>1, <3>2, <3>3 DEF QuotaInv, Allowed
  <2>2. CASE Goto(i, "refused") /\ UNCHANGED alone
    <3>1. Moved(i, "refused")
      BY <2>2, GotoMoves DEF Place
    <3>2. Uncounted' \subseteq Uncounted
      BY <3>1 DEF Uncounted, Moved
    <3> QED
      BY <1>2, <2>2, <3>2, QuotaQuiet DEF CheckQuota
  <2> QED
    BY <1>2, <2>1, <2>2 DEF CheckQuota
<1>3. ASSUME NEW i \in Requests, Count(i) PROVE QuotaInv'
  <2>1. Moved(i, "done") /\ At(i, "count")
    BY <1>3, GotoMoves DEF Count, Leave, Place
  <2>2. Uncounted' = Uncounted \ {i} /\ i \in Uncounted
    BY <2>1 DEF Uncounted, Moved, At
  <2>3. /\ UNCHANGED <<day, alone>> /\ usage' = [usage EXCEPT ![day] = @ + 1]
    BY <1>3 DEF Count
  <2>4. \A d \in 1..Days : usage'[d] = IF d = day THEN usage[d] + 1 ELSE usage[d]
    BY <2>3 DEF TypeOK
  <2>5. alone => Uncounted' = {}
    BY <2>2 DEF QuotaInv
  <2> QED
    BY <1>1, <2>2, <2>3, <2>4, <2>5 DEF QuotaInv
<1>4. ASSUME NEW i \in Requests, Arrive(i) \/ Join(i) \/ Begin(i)
      PROVE  QuotaInv'
  <2>1. \E place \in {"check", "line", "tx", "refused"} :
           Moved(i, place) /\ (place \in {"line", "tx"} => i \in Uncounted)
    BY <1>4, GotoMoves DEF Arrive, Join, Begin, Place, Uncounted, At
  <2>2. Uncounted' \subseteq Uncounted
    BY <2>1 DEF Uncounted, Moved
  <2> QED
    BY <1>4, <2>2, QuotaQuiet DEF Arrive, Join, Begin
<1>5. ASSUME NEW i \in Requests, Transaction(i) PROVE QuotaInv'
  <2>1. /\ i \in Uncounted /\ UNCHANGED <<usage, day, alone>>
        /\ \E place \in Place : Moved(i, place)
    BY <1>5, TransactionMoves DEF Uncounted, At, Place
  <2>2. Uncounted' \subseteq Uncounted
    BY <2>1 DEF Uncounted, Moved
  <2> QED
    BY <2>1, <2>2, QuotaQuiet
<1>6. ASSUME NEW i \in Requests, CallFails(i) PROVE QuotaInv'
  <2>1. Moved(i, "failed")
    BY <1>6, GotoMoves DEF CallFails, Leave, Place
  <2>2. Uncounted' \subseteq Uncounted
    BY <2>1 DEF Uncounted, Moved
  <2> QED
    BY <1>6, <2>2, QuotaQuiet DEF CallFails
<1>7. ASSUME NEW p \in Procs, Crash(p) PROVE QuotaInv'
  <2>1. Uncounted' \subseteq Uncounted
    BY <1>7 DEF Crash, Uncounted, TypeOK
  <2> QED
    BY <1>7, <2>1, QuotaQuiet DEF Crash
<1>8. CASE Midnight
  <2>1. Uncounted' = Uncounted /\ UNCHANGED <<usage, alone>> /\ day' = day + 1 /\ day' \in 1..Days
    BY <1>1, <1>8 DEF Midnight, Uncounted, TypeOK
  <2>2. usage[day'] = 0
    BY <1>1, <2>1 DEF QuotaInv, TypeOK
  <2> QED
    BY <1>1, <2>1, <2>2 DEF QuotaInv
<1>9. CASE UNCHANGED vars
  BY <1>9 DEF vars, QuotaInv, Uncounted
<1> QED
  BY <1>2, <1>3, <1>4, <1>5, <1>6, <1>7, <1>8, <1>9 DEF Next, Step

\* In every run, the count of no day passes the limit of the plan as long as no
\* two requests of the tenant were between their check and their count at the
\* same time, across midnights, retries, failing calls and exits
\* (usage.service.js:35-60, multa.persistence.js:149).
THEOREM QuotaHolds == Spec => []QuotaHoldsAlone
<1>1. Init => QuotaInv
  BY IntakeAssumption DEF Init, QuotaInv, Uncounted
<1>2. QuotaInv => QuotaHoldsAlone
  BY DEF QuotaInv, QuotaHoldsAlone
<1> QED
  BY <1>1, <1>2, IntakeTypeCorrect, QuotaNext, PTL DEF Spec

-----------------------------------------------------------------------------
(***************************************************************************)
(* Rows and increments.                                                    *)
(***************************************************************************)

\* CountedOnce is inductive by itself, for counts that are finite.
CountInv == IsFiniteSet(Counts) /\ CountedOnce

LEMMA RowsAndDebtsAreFinite == IsFiniteSet(RowsMade) /\ IsFiniteSet(Owed)
<1>1. IsFiniteSet(Rows)
  BY IntakeAssumption, FS_Product DEF Rows
<1>2. RowsMade \subseteq Rows /\ Owed \subseteq Requests
  BY DEF RowsMade, Owed
<1> QED
  BY <1>1, <1>2, IntakeAssumption, FS_Subset

LEMMA CountsOfDays ==
    ASSUME NEW n
    PROVE  n \in Counts <=> \E d \in 1..Days : \E k \in 1..usage[d] : n = <<d, k>>
BY DEF Counts

\* A step that makes no row and no increment, and after which no more requests
\* owe one; fewer do only after a fault.
LEMMA CountQuiet ==
    ASSUME CountInv, UNCHANGED <<row, usage>>, Owed' \subseteq Owed,
           faults' \in Nat, faults \in Nat, faults' = 0 => faults = 0 /\ Owed' = Owed
    PROVE  CountInv'
<1>1. Counts' = Counts /\ RowsMade' = RowsMade
  BY DEF Counts, RowsMade
<1>2. /\ Cardinality(Owed') <= Cardinality(Owed) /\ Cardinality(Owed') \in Nat
      /\ Cardinality(Owed) \in Nat /\ Cardinality(Counts) \in Nat
      /\ Cardinality(RowsMade) \in Nat
  <2>1. IsFiniteSet(Owed')
    BY RowsAndDebtsAreFinite, FS_Subset
  <2> QED
    BY <2>1, RowsAndDebtsAreFinite, FS_Subset, FS_CardinalityType DEF CountInv
<1> QED
  BY <1>1, <1>2 DEF CountInv, CountedOnce

LEMMA CreateCounts ==
    ASSUME TypeOK, CountInv, NEW i \in Requests, Create(i)
    PROVE  CountInv'
<1>1. /\ At(i, "tx") /\ Mine(i) \in Rows /\ row[Mine(i)] = NoRow
      /\ row' = [row EXCEPT ![Mine(i)] = req[i].key] /\ req[i].key # NoRow
      /\ UNCHANGED <<usage, faults>>
  BY IntakeAssumption DEF Create, NoRowYet, TypeOK, Mine
<1>2. Moved(i, "count")
  BY <1>1, WrittenMoves DEF Create, Place
<1>3. Owed' = Owed \cup {i} /\ i \notin Owed
  BY <1>1, <1>2 DEF Owed, Moved, At
<1>4. RowsMade' = RowsMade \cup {Mine(i)} /\ Mine(i) \notin RowsMade
  BY <1>1 DEF RowsMade, TypeOK
<1>5. Counts' = Counts
  BY <1>1 DEF Counts
<1>6. /\ Cardinality(Owed') = Cardinality(Owed) + 1
      /\ Cardinality(RowsMade') = Cardinality(RowsMade) + 1
      /\ Cardinality(Owed) \in Nat /\ Cardinality(RowsMade) \in Nat /\ Cardinality(Counts) \in Nat
  BY <1>3, <1>4, RowsAndDebtsAreFinite, FS_AddElement, FS_CardinalityType DEF CountInv
<1> QED
  BY <1>1, <1>5, <1>6 DEF CountInv, CountedOnce

LEMMA CountCounts ==
    ASSUME TypeOK, CountInv, NEW i \in Requests, Count(i)
    PROVE  CountInv'
<1>1. At(i, "count") /\ usage' = [usage EXCEPT ![day] = @ + 1] /\ UNCHANGED <<row, faults>>
  BY DEF Count
<1>2. Moved(i, "done")
  BY GotoMoves DEF Count, Leave, Place
<1>3. Owed = Owed' \cup {i} /\ i \notin Owed' /\ Owed' \subseteq Owed
  BY <1>1, <1>2 DEF Owed, Moved, At
<1>4. day \in 1..Days /\ usage \in [1..Days -> Nat]
  BY DEF TypeOK
<1> DEFINE n == <<day, usage[day] + 1>>
<1>5. n \notin Counts
  BY <1>4, CountsOfDays
<1>6. Counts' = Counts \cup {n}
  <2>1. \A d \in 1..Days : usage'[d] = IF d = day THEN usage[d] + 1 ELSE usage[d]
    BY <1>1, <1>4
  <2>2. Counts' = UNION {{d} \X (1..usage'[d]) : d \in 1..Days}
    BY DEF Counts
  <2>3. ASSUME NEW d \in 1..Days, NEW k PROVE k \in 1..usage'[d] <=> k \in 1..usage[d] \/ <<d, k>> = n
    <3>1. usage[d] \in Nat
      BY <1>4
    <3>2. CASE d = day
      BY <2>1, <3>1, <3>2
    <3>3. CASE d # day
      BY <2>1, <3>1, <3>3
    <3> QED
      BY <3>2, <3>3
  <2>4. ASSUME NEW m PROVE m \in Counts' <=> \E d \in 1..Days : \E k \in 1..usage'[d] : m = <<d, k>>
    BY <2>2
  <2>5. n \in Counts'
    BY <1>4, <2>3, <2>4
  <2>6. ASSUME NEW m \in Counts PROVE m \in Counts'
    BY <2>3, <2>4, CountsOfDays
  <2>7. ASSUME NEW m \in Counts' PROVE m \in Counts \/ m = n
    <3>0. PICK d \in 1..Days : \E k \in 1..usage'[d] : m = <<d, k>>
      BY <2>4, <2>7
    <3>1. PICK k \in 1..usage'[d] : m = <<d, k>>
      BY <3>0
    <3>2. k \in 1..usage[d] \/ <<d, k>> = n
      BY <2>3, <3>1
    <3> HIDE DEF n
    <3> QED
      BY <3>1, <3>2, CountsOfDays
  <2> HIDE DEF n
  <2> QED
    BY <2>5, <2>6, <2>7
<1>7. RowsMade' = RowsMade
  BY <1>1 DEF RowsMade
<1> HIDE DEF n
<1>8. /\ IsFiniteSet(Counts') /\ Cardinality(Counts') = Cardinality(Counts) + 1
      /\ Cardinality(Counts) \in Nat /\ Cardinality(RowsMade) \in Nat
  BY <1>5, <1>6, RowsAndDebtsAreFinite, FS_AddElement, FS_CardinalityType DEF CountInv
<1>9. Cardinality(Owed) = Cardinality(Owed') + 1 /\ Cardinality(Owed') \in Nat
  <2>1. IsFiniteSet(Owed')
    BY <1>3, RowsAndDebtsAreFinite, FS_Subset
  <2> QED
    BY <1>3, <2>1, FS_AddElement, FS_CardinalityType
<1> QED
  BY <1>1, <1>7, <1>8, <1>9 DEF CountInv, CountedOnce

LEMMA CountNext == TypeOK /\ CountInv /\ [Next]_vars => CountInv'
<1> SUFFICES ASSUME TypeOK, CountInv, [Next]_vars PROVE CountInv'
  OBVIOUS
<1>1. faults \in Nat
  BY DEF TypeOK
<1>2. ASSUME NEW i \in Requests, NEW place \in Place \ {"count"}, Moved(i, place),
             ~At(i, "count"), UNCHANGED <<row, usage, faults>>
      PROVE  CountInv'
  <2>1. Owed' = Owed
    BY <1>2 DEF Owed, Moved, At
  <2> QED
    BY <1>1, <1>2, <2>1, CountQuiet
<1>3. ASSUME NEW i \in Requests, Arrive(i) \/ CheckQuota(i) \/ Join(i) \/ Begin(i)
      PROVE  CountInv'
  <2>1. /\ UNCHANGED <<row, usage, faults>> /\ ~At(i, "count")
        /\ \E place \in Place \ {"count"} : Moved(i, place)
    BY <1>3, GotoMoves DEF Arrive, CheckQuota, Join, Begin, At, Place
  <2> QED
    BY <1>2, <2>1
<1>4. ASSUME NEW i \in Requests, Transaction(i) PROVE CountInv'
  <2>1. CASE Create(i)
    BY <2>1, CreateCounts
  <2>2. CASE ~Create(i)
    <3>1. UNCHANGED row
      BY <1>4, <2>2 DEF Transaction, FindByKey, Touch, CreateRefused, Conflict
    <3>2. \E place \in {"tx", "done", "failed"} : Moved(i, place)
      <4>1. Mine(i) \in Rows
        BY DEF TypeOK, Mine
      <4>2. CASE FindByKey(i) \/ CreateRefused(i)
        BY <4>2, GotoMoves DEF FindByKey, CreateRefused, Leave, Place
      <4>3. CASE Touch(i)
        BY <4>1, <4>3, WrittenMoves DEF Touch, Place
      <4>4. CASE Conflict(i)
        <5>1. CASE Leave(i, "failed")
          BY <5>1, GotoMoves DEF Leave, Place
        <5>2. CASE req' = [req EXCEPT ![i].tries = @ + 1, ![i].unseen = {}, ![i].late = {}]
          <6>1. req'[i].at = "tx"
            BY <4>4, <5>2 DEF Conflict, At, TypeOK
          <6> QED
            BY <1>4, <6>1, TransactionMoves DEF Moved
        <5> QED
          BY <4>4, <5>1, <5>2 DEF Conflict
      <4> QED
        BY <1>4, <2>2, <4>2, <4>3, <4>4 DEF Transaction
    <3>3. At(i, "tx") /\ UNCHANGED <<usage, faults>>
      BY <1>4, TransactionMoves
    <3> QED
      BY <1>2, <3>1, <3>2, <3>3 DEF At, Place
  <2> QED
    BY <2>1, <2>2
<1>5. ASSUME NEW i \in Requests, CallFails(i) PROVE CountInv'
  <2>1. Moved(i, "failed")
    BY <1>5, GotoMoves DEF CallFails, Leave, Place
  <2>2. Owed' \subseteq Owed
    BY <2>1 DEF Owed, Moved
  <2>3. faults' \in Nat /\ faults' # 0 /\ UNCHANGED <<row, usage>>
    BY <1>1, <1>5 DEF CallFails, Fault
  <2> QED
    BY <1>1, <2>2, <2>3, CountQuiet
<1>6. ASSUME NEW p \in Procs, Crash(p) PROVE CountInv'
  <2>1. Owed' \subseteq Owed
    BY <1>6 DEF Crash, Owed, TypeOK
  <2>2. faults' \in Nat /\ faults' # 0 /\ UNCHANGED <<row, usage>>
    BY <1>1, <1>6 DEF Crash, Fault
  <2> QED
    BY <1>1, <2>1, <2>2, CountQuiet
<1>7. CASE Midnight \/ UNCHANGED vars
  <2>1. UNCHANGED <<row, usage, faults, req>>
    BY <1>7 DEF Midnight, vars
  <2>2. Owed' = Owed
    BY <2>1 DEF Owed
  <2> QED
    BY <1>1, <2>1, <2>2, CountQuiet
<1> QED
  BY <1>3, <1>4, <1>5, <1>6, <1>7, CountCounts DEF Next, Step

LEMMA CountInit == Init => CountInv
<1> SUFFICES ASSUME Init PROVE CountInv
  OBVIOUS
<1>1. Counts = {}
  <2>1. \A d \in 1..Days : 1..usage[d] = {}
    BY DEF Init
  <2> QED
    BY <2>1, CountsOfDays
<1>2. RowsMade = {} /\ Owed = {}
  BY DEF Init, RowsMade, Owed
<1> QED
  BY <1>1, <1>2, FS_EmptySet DEF CountInv, CountedOnce

\* In every run, for any number of requests, retries and days: the increments
\* made and owed are never more than the rows, and exactly as many as long as
\* no call failed and no process exited (multa.persistence.js:94-151).
THEOREM RowsAreCountedOnce == Spec => []CountedOnce
<1>1. CountInv => CountedOnce
  BY DEF CountInv
<1> QED
  BY <1>1, CountInit, IntakeTypeCorrect, CountNext, PTL DEF Spec
=============================================================================
