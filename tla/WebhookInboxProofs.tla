------------------------- MODULE WebhookInboxProofs -------------------------
(***************************************************************************)
(* Theorems about WebhookInbox, for every number of processes, events,     *)
(* deliveries, attempts, crashes and faults: first the types, then the     *)
(* safety properties, then who owns an event (which is where nothing is    *)
(* lost), each part on the invariants of the one before.                   *)
(***************************************************************************)
EXTENDS WebhookInbox, SequenceTheorems, FiniteSetTheorems, TLAPS

(***************************************************************************)
(* Lemmas about the queue of a process.                                    *)
(***************************************************************************)

\* The items recovery appends form a sequence of items.
LEMMA ListedItems ==
    ASSUME NEW n \in Nat, NEW es \in [1..n -> Events]
    PROVE  [i \in 1..n |-> NewItem(es[i])] \in Seq(Item)
<1>1. \A i \in 1..n : NewItem(es[i]) \in Item
  BY DEF NewItem, Item
<1>2. [i \in 1..n |-> NewItem(es[i])] \in [1..n -> Item]
  BY <1>1
<1> QED
  BY <1>2

\* Taking the head off a non-empty queue leaves a queue.
LEMMA TailOfQueue ==
    ASSUME NEW q \in Seq(Item), q # <<>>
    PROVE  /\ Tail(q) \in Seq(Item)
           /\ Head(q) \in Item
           /\ Head(q).event \in Events /\ Head(q).attempts \in Nat
<1>1. Tail(q) \in Seq(Item) /\ Head(q) \in Item
  BY HeadTailProperties
<1> QED
  BY <1>1 DEF Item

\* Counting an attempt replaces the head by an item of the same event.
LEMMA AttemptOfHead ==
    ASSUME NEW q \in Seq(Item), q # <<>>,
           NEW item \in Item
    PROVE  /\ <<item>> \o Tail(q) \in Seq(Item)
           /\ <<item>> \o Tail(q) # <<>>
<1>1. <<item>> \in Seq(Item) /\ Len(<<item>>) = 1
  OBVIOUS
<1>2. Tail(q) \in Seq(Item) /\ Len(Tail(q)) \in Nat
  BY HeadTailProperties, LenProperties
<1>3. <<item>> \o Tail(q) \in Seq(Item) /\ Len(<<item>> \o Tail(q)) = 1 + Len(Tail(q))
  BY <1>1, <1>2, ConcatProperties
<1> QED
  BY <1>2, <1>3, EmptySeq

\* Appending to a queue keeps it a queue, and keeps the head of a busy worker.
LEMMA QueueGrows ==
    ASSUME NEW q \in Seq(Item), NEW s \in Seq(Item)
    PROVE  /\ q \o s \in Seq(Item)
           /\ q # <<>> => q \o s # <<>> /\ Head(q \o s) = Head(q)
<1>1. /\ q \o s \in Seq(Item)
      /\ Len(q \o s) = Len(q) + Len(s)
      /\ \A i \in 1..(Len(q) + Len(s)) :
            (q \o s)[i] = IF i <= Len(q) THEN q[i] ELSE s[i - Len(q)]
  BY ConcatProperties
<1>2. ASSUME q # <<>> PROVE q \o s # <<>> /\ Head(q \o s) = Head(q)
  <2>1. Len(q) \in Nat /\ Len(q) # 0 /\ Len(s) \in Nat
    BY <1>2, EmptySeq, LenProperties
  <2>2. q \o s # <<>>
    BY <1>1, <2>1, EmptySeq
  <2>3. Head(q \o s) = (q \o s)[1] /\ Head(q) = q[1]
    BY <1>1, <1>2, <2>2, HeadTailProperties
  <2> QED
    BY <1>1, <2>1, <2>2, <2>3
<1> QED
  BY <1>1, <1>2

LEMMA QueueAppends ==
    ASSUME NEW q \in Seq(Item), NEW x \in Item
    PROVE  /\ Append(q, x) \in Seq(Item)
           /\ Append(q, x) # <<>>
           /\ q # <<>> => Head(Append(q, x)) = Head(q)
<1>1. /\ Append(q, x) \in Seq(Item)
      /\ Len(Append(q, x)) = Len(q) + 1
      /\ \A i \in 1..Len(q) : Append(q, x)[i] = q[i]
  BY AppendProperties
<1>2. Append(q, x) # <<>>
  BY <1>1, EmptySeq, LenProperties
<1>3. ASSUME q # <<>> PROVE Head(Append(q, x)) = Head(q)
  <2>1. Head(Append(q, x)) = Append(q, x)[1] /\ Head(q) = q[1]
    BY <1>1, <1>2, <1>3, HeadTailProperties
  <2>2. 1 \in 1..Len(q)
    BY <1>3, EmptySeq, LenProperties
  <2> QED
    BY <1>1, <2>1, <2>2
<1> QED
  BY <1>1, <1>2, <1>3

\* The queue a drain step leaves, whether it drops the head or counts an attempt.
LEMMA DropType ==
    ASSUME TypeOK, NEW p \in Procs, job[p] # "idle" \/ queue[p] # <<>>,
           Drop(p)
    PROVE  /\ queue' \in [Procs -> Seq(Item)]
           /\ job' \in [Procs -> JobState]
           /\ \A x \in Procs : job'[x] # "idle" => queue'[x] # <<>>
           /\ \A x \in Procs : up[x] = "down" => queue'[x] = <<>>
<1>1. queue[p] # <<>> /\ queue[p] \in Seq(Item)
  BY DEF TypeOK
<1>2. Tail(queue[p]) \in Seq(Item)
  BY <1>1, TailOfQueue
<1>3. up[p] # "down"
  BY <1>1 DEF TypeOK
<1> QED
  BY <1>2, <1>3 DEF TypeOK, Drop, JobState

LEMMA AfterFailureType ==
    ASSUME TypeOK, NEW p \in Procs, job[p] \in {"failRetry", "failFatal"},
           AfterFailure(p)
    PROVE  /\ queue' \in [Procs -> Seq(Item)]
           /\ job' \in [Procs -> JobState]
           /\ \A x \in Procs : job'[x] # "idle" => queue'[x] # <<>>
           /\ \A x \in Procs : up[x] = "down" => queue'[x] = <<>>
           /\ dead' \subseteq Events
<1> DEFINE tried == Head(queue[p]).attempts + 1
           item  == [event |-> Current(p), attempts |-> tried]
<1>1. queue[p] # <<>> /\ queue[p] \in Seq(Item) /\ up[p] # "down"
  BY DEF TypeOK
<1>2. Current(p) \in Events /\ tried \in Nat
  BY <1>1, TailOfQueue DEF Current
<1>3. item \in Item
  BY <1>2 DEF Item
<1>4. CASE Abandon(p)
  BY <1>1, <1>2, <1>4, DropType DEF Abandon, TypeOK
<1>5. CASE /\ queue' = [queue EXCEPT ![p] = <<item>> \o Tail(@)]
           /\ job' = [job EXCEPT ![p] = "wait"]
           /\ UNCHANGED dead
  <2>1. <<item>> \o Tail(queue[p]) \in Seq(Item)
        /\ <<item>> \o Tail(queue[p]) # <<>>
    BY <1>1, <1>3, AttemptOfHead
  <2> HIDE DEF item
  <2> QED
    BY <1>1, <1>5, <2>1 DEF TypeOK, JobState
<1> QED
  BY <1>4, <1>5 DEF AfterFailure

\* A row is created with the next place in the order of arrival.
LEMMA InsertRowType ==
    ASSUME TypeOK, NEW e \in Events, InsertRow(e)
    PROVE  status' \in [Events -> Status] /\ receivedAt' \in [Events -> Nat]
<1>1. Cardinality({x \in Events : HasRow(x)}) \in Nat
  BY BoundsAssumption, FS_Subset, FS_CardinalityType
<1> QED
  BY <1>1 DEF TypeOK, InsertRow, Status

(***************************************************************************)
(* Type correctness.  Each kind of step keeps TypeOK.                      *)
(***************************************************************************)

LEMMA HttpKeepsType ==
    ASSUME TypeOK, NEW r \in http, HttpStep(r) \/ HttpFault(r)
    PROVE  TypeOK'
<1>1. r \in Request /\ r.event \in Events /\ r.proc \in Procs /\ up[r.proc] # "down"
  BY DEF TypeOK, Request
<1>2. ASSUME NEW pc \in HttpPc, GoTo(r, pc), up' = up
      PROVE  http' \subseteq Request /\ \A x \in http' : up'[x.proc] # "down"
  <2>1. [r EXCEPT !.at = pc] \in Request /\ [r EXCEPT !.at = pc].proc = r.proc
    BY <1>1 DEF Request
  <2> QED
    BY <1>1, <1>2, <2>1 DEF TypeOK, GoTo
<1>3. CASE HttpFind(r)
  <2>1. CASE r.event \in marker /\ AckDuplicate(r)
    BY <1>1, <1>3, <2>1 DEF TypeOK, HttpFind, AckDuplicate, Ack, db, env
  <2>2. CASE GoTo(r, "lookup") /\ UNCHANGED acked
    BY <1>2, <1>3, <2>2 DEF TypeOK, HttpFind, HttpPc, db, env
  <2> QED
    BY <1>3, <2>1, <2>2 DEF HttpFind
<1>4. CASE HttpLookup(r)
  <2>1. CASE AckDuplicate(r)
    BY <1>1, <1>4, <2>1 DEF TypeOK, HttpLookup, AckDuplicate, Ack, db, env
  <2>2. CASE AckAndQueue(r)
    BY <1>1, <1>2, <1>4, <2>2 DEF TypeOK, HttpLookup, AckAndQueue, Ack, HttpPc, db, env
  <2>3. CASE GoTo(r, "create") /\ UNCHANGED acked
    BY <1>2, <1>4, <2>3 DEF TypeOK, HttpLookup, HttpPc, db, env
  <2> QED
    BY <1>4, <2>1, <2>2, <2>3 DEF HttpLookup
<1>5. CASE HttpCreate(r)
  <2>1. CASE InsertRow(r.event) /\ AckAndQueue(r)
    BY <1>1, <1>2, <1>5, <2>1, InsertRowType
       DEF TypeOK, HttpCreate, AckAndQueue, Ack, HttpPc, db, env
  <2>2. CASE GoTo(r, "reread") /\ UNCHANGED <<status, receivedAt, acked>>
    BY <1>2, <1>5, <2>2 DEF TypeOK, HttpCreate, HttpPc, db, env
  <2> QED
    BY <1>5, <2>1, <2>2 DEF HttpCreate
<1>6. CASE HttpFault(r)
  <2>1. status' \in [Events -> Status] /\ receivedAt' \in [Events -> Nat]
    BY <1>1, <1>6, InsertRowType DEF TypeOK, HttpFault
  <2> QED
    BY <1>6, <2>1 DEF TypeOK, HttpFault, Fault
<1>7. CASE Enqueue(r)
  <2> DEFINE q == queue[r.proc]
  <2>1. NewItem(r.event) \in Item /\ q \in Seq(Item)
    BY <1>1 DEF TypeOK, NewItem, Item
  <2>2. Append(q, NewItem(r.event)) \in Seq(Item) /\ Append(q, NewItem(r.event)) # <<>>
    BY <2>1, QueueAppends
  <2> QED
    BY <1>1, <1>7, <2>2 DEF TypeOK, Enqueue, db, env
<1> QED
  BY <1>3, <1>4, <1>5, <1>6, <1>7 DEF HttpStep

LEMMA SetStatusType ==
    ASSUME TypeOK, NEW e \in Events, SetProcessing(e) \/ SetFailed(e) \/ MarkInDb(e)
    PROVE  status' \in [Events -> Status]
BY DEF TypeOK, SetProcessing, SetFailed, MarkInDb, Status

LEMMA WorkerKeepsType ==
    ASSUME TypeOK, NEW p \in Procs,
           \/ WorkerStep(p) \/ MarkProcessedFault(p)
           \/ MarkFailedFault(p) \/ ClaimFault(p)
    PROVE  TypeOK'
<1>1. queue[p] # <<>> => Current(p) \in Events
  BY TailOfQueue DEF TypeOK, Current
<1>2. CASE StartJob(p)
  <2>1. CASE Drop(p)
    BY <1>2, <2>1, DropType DEF TypeOK, StartJob, db, env
  <2>2. CASE job' = [job EXCEPT ![p] = "claim"] /\ UNCHANGED queue
    BY <1>2, <2>2 DEF TypeOK, StartJob, JobState, db, env
  <2> QED
    BY <1>2, <2>1, <2>2 DEF StartJob
<1>3. CASE Claim(p)
  <2>1. queue[p] # <<>>
    BY <1>3 DEF TypeOK, Claim
  <2>2. CASE Drop(p) /\ UNCHANGED status
    BY <1>3, <2>1, <2>2, DropType DEF TypeOK, Claim, env
  <2>3. CASE /\ SetProcessing(Current(p))
             /\ job' = [job EXCEPT ![p] = "body"]
             /\ UNCHANGED queue
    BY <1>1, <1>3, <2>1, <2>3, SetStatusType DEF TypeOK, Claim, JobState, env
  <2> QED
    BY <1>3, <2>2, <2>3 DEF Claim
<1>4. CASE Body(p)
  <2>0. job[p] = "body" /\ effects \in [Events -> Nat] /\ queue[p] # <<>>
    BY <1>4 DEF TypeOK, Body
  <2>4. Current(p) \in Events
    BY <1>1, <2>0
  <2>1. effects' \in [Events -> Nat]
    BY <1>4, <2>0, <2>4 DEF Body, Committed
  <2>2. job' \in [Procs -> JobState]
    BY <1>4 DEF TypeOK, Body, JobState
  <2>3. \A x \in Procs : job'[x] # "idle" => queue'[x] # <<>>
    BY <1>4 DEF TypeOK, Body
  <2> QED
    BY <1>4, <2>1, <2>2, <2>3 DEF TypeOK, Body, db, env
<1>5. CASE MarkProcessed(p)
  <2>1. Current(p) \in Events /\ queue[p] # <<>>
    BY <1>1, <1>5 DEF TypeOK, MarkProcessed
  <2> QED
    BY <1>5, <2>1, DropType, SetStatusType DEF TypeOK, MarkProcessed, MarkInDb, env
<1>6. CASE MarkProcessedFault(p)
  <2>1. Current(p) \in Events /\ queue[p] # <<>>
    BY <1>1, <1>6 DEF TypeOK, MarkProcessedFault
  <2>2. status' \in [Events -> Status] /\ marker' \subseteq Events
    BY <1>6, <2>1, SetStatusType DEF TypeOK, MarkProcessedFault, MarkInDb
  <2> QED
    BY <1>6, <2>1, <2>2 DEF TypeOK, MarkProcessedFault, Fault, JobState
<1>7. CASE MarkFailed(p)
  <2>1. Current(p) \in Events
    BY <1>1, <1>7 DEF TypeOK, MarkFailed
  <2>2. status' \in [Events -> Status]
    BY <1>7, <2>1, SetStatusType DEF MarkFailed
  <2> QED
    BY <1>7, <2>2, AfterFailureType DEF TypeOK, MarkFailed, env
<1>8. CASE MarkFailedFault(p)
  BY <1>8, AfterFailureType DEF TypeOK, MarkFailedFault, Fault, db
<1>9. CASE RetryTimer(p)
  BY <1>9 DEF TypeOK, RetryTimer, JobState, db, env
<1>10. CASE ClaimFault(p)
  <2>1. Current(p) \in Events /\ Drop(p) /\ dead' \subseteq Events
    BY <1>1, <1>10 DEF TypeOK, ClaimFault, Abandon
  <2>2. status' \in [Events -> Status]
    BY <1>10, <2>1, SetStatusType DEF TypeOK, ClaimFault
  <2> QED
    BY <1>10, <2>1, <2>2, DropType DEF TypeOK, ClaimFault, Fault
<1> QED
  BY <1>2, <1>3, <1>4, <1>5, <1>6, <1>7, <1>8, <1>9, <1>10 DEF WorkerStep

\* What a process lists at its boot is a sequence of recoverable events.
LEMMA RecoverListAppends ==
    ASSUME TypeOK, NEW p \in Procs, RecoverList(p)
    PROVE  \E s \in Seq(Item) : /\ queue' = [queue EXCEPT ![p] = @ \o s]
                                /\ \A i \in DOMAIN s : s[i].event \in Recoverable
<1>1. PICK n \in 0..RecoverLimit : \E es \in [1..n -> Recoverable] :
          queue' = [queue EXCEPT ![p] = @ \o [i \in 1..n |-> NewItem(es[i])]]
  BY DEF RecoverList
<1>2. PICK es \in [1..n -> Recoverable] :
          queue' = [queue EXCEPT ![p] = @ \o [i \in 1..n |-> NewItem(es[i])]]
  BY <1>1
<1>3. n \in Nat /\ es \in [1..n -> Events]
  BY <1>2, BoundsAssumption DEF Recoverable
<1>4. \A i \in 1..n : NewItem(es[i]).event \in Recoverable
  BY <1>2 DEF NewItem
<1> QED
  BY <1>2, <1>3, <1>4, ListedItems

LEMMA ProcessKeepsType ==
    ASSUME TypeOK, NEW p \in Procs,
           RecoverStep(p) \/ RecoverFault(p) \/ Start(p) \/ Crash(p)
    PROVE  TypeOK'
<1>1. CASE RecoverReset(p)
  <2>1. status' \in [Events -> Status]
    BY <1>1 DEF TypeOK, RecoverReset, Status
  <2>2. leftOut' \subseteq Events
    BY <1>1 DEF RecoverReset, FreshClaims
  <2> QED
    BY <1>1, <2>1, <2>2 DEF TypeOK, RecoverReset, env
<1>2. CASE RecoverList(p)
  <2>1. PICK s \in Seq(Item) : queue' = [queue EXCEPT ![p] = @ \o s]
    BY <1>2, RecoverListAppends
  <2>2. queue[p] \in Seq(Item)
    BY DEF TypeOK
  <2>3. queue[p] \o s \in Seq(Item) /\ (queue[p] # <<>> => queue[p] \o s # <<>>)
    BY <2>2, QueueGrows
  <2>4. /\ up[p] = "list" /\ up' = [up EXCEPT ![p] = "ready"]
        /\ UNCHANGED <<db, job, http, acked, effects, dead, env>>
    BY <1>2 DEF RecoverList
  <2>5. /\ queue' \in [Procs -> Seq(Item)]
        /\ \A x \in Procs : queue[x] # <<>> => queue'[x] # <<>>
        /\ \A x \in Procs : x # p => queue'[x] = queue[x]
    BY <2>1, <2>3 DEF TypeOK
  <2>6. /\ up' \in [Procs -> {"down", "reset", "list", "ready"}]
        /\ \A x \in Procs : up'[x] = "down" => up[x] = "down" /\ x # p
    BY <2>4 DEF TypeOK
  <2>7. UNCHANGED <<status, receivedAt, aged, marker, job, http, acked, effects,
                    dead, sent, crashes, faults>>
    BY <2>4 DEF db, env
  <2>10. leftOut' \subseteq Events
    BY <1>2 DEF TypeOK, RecoverList, PastTheLimit, Recoverable
  <2>8. /\ \A x \in Procs : job'[x] # "idle" => queue'[x] # <<>>
        /\ \A x \in Procs : up'[x] = "down" => queue'[x] = <<>>
    BY <2>5, <2>6, <2>7 DEF TypeOK
  <2>9. \A r \in http' : up'[r.proc] # "down"
    BY <2>6, <2>7 DEF TypeOK, Request
  <2> QED
    BY <2>5, <2>6, <2>7, <2>8, <2>9, <2>10 DEF TypeOK
<1>3. CASE RecoverFault(p)
  BY <1>3 DEF TypeOK, RecoverFault, Fault, db
<1>4. CASE Start(p)
  BY <1>4 DEF TypeOK, Start, db, env
<1>5. CASE Crash(p)
  BY <1>5 DEF TypeOK, Crash, JobState, db
<1> QED
  BY <1>1, <1>2, <1>3, <1>4, <1>5 DEF RecoverStep

LEMMA TypeInit == Init => TypeOK
BY DEF Init, TypeOK, Status, JobState

LEMMA TypeNext == TypeOK /\ [Next]_vars => TypeOK'
<1> SUFFICES ASSUME TypeOK, [Next]_vars PROVE TypeOK'
  OBVIOUS
<1>1. ASSUME NEW d \in Deliveries, NEW e \in Events, NEW p \in Procs, Deliver(d, e, p)
      PROVE  TypeOK'
  <2>1. [id |-> d, event |-> e, proc |-> p, at |-> "find"] \in Request
    BY DEF Request, HttpPc
  <2> QED
    BY <1>1, <2>1 DEF TypeOK, Deliver, db
<1>2. ASSUME NEW e \in Events, Age(e) PROVE TypeOK'
  BY <1>2 DEF TypeOK, Age, env
<1>3. CASE UNCHANGED vars
  BY <1>3 DEF TypeOK, vars
<1> QED
  BY <1>1, <1>2, <1>3, HttpKeepsType, WorkerKeepsType, ProcessKeepsType
     DEF Next, FaultStep

\* Whatever the deliveries, crashes and failing calls, no field of a process or
\* a row leaves its domain, and a worker past the look-up always has the item
\* it dereferences.
THEOREM TypeCorrect == Spec => []TypeOK
BY TypeInit, TypeNext, PTL DEF Spec

-----------------------------------------------------------------------------
(***************************************************************************)
(* The safety properties of WebhookInbox, proved from three inductive      *)
(* invariants:                                                             *)
(*   RowInv    a row exists for whatever was acknowledged, queued or       *)
(*             marked (and no step ever removes a row);                    *)
(*   DoneInv   the order body, marker, status within an attempt;           *)
(*   ClaimInv  a worker on an event that no boot could have reset finds    *)
(*             the claim of everybody else refused.                        *)
(* The lemmas of the first part say which workers a step leaves alone.     *)
(***************************************************************************)

\* The events of the items of a queue.
EventsOf(q) == {q[i].event : i \in DOMAIN q}

LEMMA EventsOfType ==
    ASSUME NEW q \in Seq(Item)
    PROVE  EventsOf(q) \subseteq Events
<1>1. \A i \in DOMAIN q : q[i] \in Item
  BY LenProperties, ElementOfSeq
<1> QED
  BY <1>1 DEF EventsOf, Item

LEMMA EventsOfTail ==
    ASSUME NEW q \in Seq(Item), q # <<>>
    PROVE  /\ EventsOf(Tail(q)) \subseteq EventsOf(q)
           /\ Head(q).event \in EventsOf(q)
<1>1. /\ Len(Tail(q)) = Len(q) - 1 /\ Len(q) \in Nat /\ Len(q) # 0
      /\ DOMAIN q = 1..Len(q) /\ DOMAIN Tail(q) = 1..Len(Tail(q))
      /\ \A i \in 1..Len(Tail(q)) : Tail(q)[i] = q[i + 1]
  BY HeadTailProperties, LenProperties, EmptySeq
<1>2. \A i \in DOMAIN Tail(q) : i + 1 \in DOMAIN q /\ Tail(q)[i] = q[i + 1]
  BY <1>1
<1>3. Head(q) = q[1] /\ 1 \in DOMAIN q
  BY <1>1
<1> QED
  BY <1>2, <1>3 DEF EventsOf

LEMMA EventsOfConcat ==
    ASSUME NEW q \in Seq(Item), NEW s \in Seq(Item)
    PROVE  EventsOf(q \o s) = EventsOf(q) \cup EventsOf(s)
<1>1. /\ Len(q) \in Nat /\ Len(s) \in Nat
      /\ DOMAIN q = 1..Len(q) /\ DOMAIN s = 1..Len(s)
      /\ DOMAIN (q \o s) = 1..(Len(q) + Len(s))
      /\ \A i \in 1..(Len(q) + Len(s)) :
            (q \o s)[i] = IF i <= Len(q) THEN q[i] ELSE s[i - Len(q)]
  BY ConcatProperties, LenProperties
<1>2. \A i \in DOMAIN (q \o s) :
         \/ i \in DOMAIN q /\ (q \o s)[i] = q[i]
         \/ i - Len(q) \in DOMAIN s /\ (q \o s)[i] = s[i - Len(q)]
  BY <1>1
<1>3. \A i \in DOMAIN q : i \in DOMAIN (q \o s) /\ (q \o s)[i] = q[i]
  BY <1>1
<1>4. \A i \in DOMAIN s : i + Len(q) \in DOMAIN (q \o s) /\ (q \o s)[i + Len(q)] = s[i]
  BY <1>1
<1>5. EventsOf(q \o s) \subseteq EventsOf(q) \cup EventsOf(s)
  BY <1>2 DEF EventsOf
<1>6. EventsOf(q) \cup EventsOf(s) \subseteq EventsOf(q \o s)
  BY <1>3, <1>4 DEF EventsOf
<1> QED
  BY <1>5, <1>6

LEMMA EventsOfAppend ==
    ASSUME NEW q \in Seq(Item), NEW x \in Item
    PROVE  EventsOf(Append(q, x)) = EventsOf(q) \cup {x.event}
<1>1. /\ Len(q) \in Nat /\ DOMAIN q = 1..Len(q)
      /\ DOMAIN Append(q, x) = 1..(Len(q) + 1)
      /\ \A i \in 1..Len(q) : Append(q, x)[i] = q[i]
      /\ Append(q, x)[Len(q) + 1] = x
  BY AppendProperties, LenProperties
<1>2. \A i \in DOMAIN Append(q, x) : i \in DOMAIN q \/ i = Len(q) + 1
  BY <1>1
<1>3. /\ \A i \in DOMAIN q : i \in DOMAIN Append(q, x)
      /\ Len(q) + 1 \in DOMAIN Append(q, x)
  BY <1>1
<1> QED
  BY <1>1, <1>2, <1>3 DEF EventsOf

\* Counting an attempt keeps the events of the queue.
LEMMA EventsOfAttempt ==
    ASSUME NEW q \in Seq(Item), q # <<>>,
           NEW x \in Item, x.event = Head(q).event
    PROVE  EventsOf(<<x>> \o Tail(q)) = EventsOf(q)
<1>1. /\ Len(Tail(q)) = Len(q) - 1 /\ Len(q) \in Nat /\ Len(q) # 0
      /\ DOMAIN q = 1..Len(q) /\ Head(q) = q[1] /\ Tail(q) \in Seq(Item)
      /\ DOMAIN Tail(q) = 1..Len(Tail(q))
      /\ \A i \in 1..Len(Tail(q)) : Tail(q)[i] = q[i + 1]
  BY HeadTailProperties, LenProperties, EmptySeq
<1>2. <<x>> \in Seq(Item) /\ EventsOf(<<x>>) = {x.event}
  BY DEF EventsOf
<1>3. EventsOf(<<x>> \o Tail(q)) = {q[1].event} \cup EventsOf(Tail(q))
  <2>1. Tail(q) \in Seq(Item) /\ x.event = q[1].event
    BY <1>1
  <2>2. EventsOf(<<x>> \o Tail(q)) = EventsOf(<<x>>) \cup EventsOf(Tail(q))
    BY <1>2, <2>1, EventsOfConcat, Zenon
  <2> QED
    BY <1>2, <2>1, <2>2, Zenon
<1>4. \A i \in DOMAIN q : i = 1 \/ (i - 1 \in DOMAIN Tail(q) /\ Tail(q)[i - 1] = q[i])
  BY <1>1
<1>5. \A i \in DOMAIN Tail(q) : i + 1 \in DOMAIN q /\ Tail(q)[i] = q[i + 1]
  BY <1>1
<1>6. {q[1].event} \cup EventsOf(Tail(q)) \subseteq EventsOf(q)
  BY <1>1, <1>5 DEF EventsOf
<1>7. EventsOf(q) \subseteq {q[1].event} \cup EventsOf(Tail(q))
  BY <1>4 DEF EventsOf
<1> QED
  BY <1>3, <1>6, <1>7

-----------------------------------------------------------------------------
(***************************************************************************)
(* What a step does to the workers.                                        *)
(***************************************************************************)

\* The worker of x goes on with the item it had.
Steady(x) ==
    /\ job'[x] = job[x]
    /\ queue[x] # <<>> => queue'[x] # <<>> /\ Head(queue'[x]) = Head(queue[x])

\* A request leaves every worker alone.
LEMMA HttpSteady ==
    ASSUME TypeOK, NEW r \in http, HttpStep(r) \/ HttpFault(r)
    PROVE  \A x \in Procs : Steady(x)
<1>1. CASE Enqueue(r)
  <2>1. r.event \in Events /\ r.proc \in Procs
    BY DEF TypeOK, Request
  <2>2. NewItem(r.event) \in Item /\ queue[r.proc] \in Seq(Item)
    BY <2>1 DEF TypeOK, NewItem, Item
  <2>3. LET q == queue[r.proc] IN
          /\ Append(q, NewItem(r.event)) # <<>>
          /\ q # <<>> => Head(Append(q, NewItem(r.event))) = Head(q)
    BY <2>2, QueueAppends
  <2> QED
    BY <1>1, <2>1, <2>3 DEF TypeOK, Enqueue, Steady
<1>2. CASE UNCHANGED <<queue, job>>
  BY <1>2 DEF Steady
<1> QED
  BY <1>1, <1>2 DEF HttpStep, HttpFind, HttpLookup, HttpCreate, HttpFault

\* A worker leaves the others alone.
LEMMA WorkerSteady ==
    ASSUME TypeOK, NEW p \in Procs,
           \/ WorkerStep(p) \/ MarkProcessedFault(p)
           \/ MarkFailedFault(p) \/ ClaimFault(p)
    PROVE  \A x \in Procs \ {p} : Steady(x)
<1>1. ASSUME NEW x \in Procs \ {p}
      PROVE  queue'[x] = queue[x] /\ job'[x] = job[x]
  BY DEF TypeOK, WorkerStep, StartJob, Claim, Body, MarkProcessed, MarkFailed, RetryTimer,
         MarkProcessedFault, MarkFailedFault, ClaimFault, AfterFailure, Abandon, Drop
<1> QED
  BY <1>1 DEF Steady

\* A boot appends behind the item of a worker.
LEMMA RecoverSteady ==
    ASSUME TypeOK, NEW p \in Procs, RecoverStep(p) \/ RecoverFault(p) \/ Start(p)
    PROVE  \A x \in Procs : Steady(x)
<1>1. CASE RecoverList(p)
  <2>1. PICK s \in Seq(Item) : queue' = [queue EXCEPT ![p] = @ \o s]
    BY <1>1, RecoverListAppends
  <2>2. queue[p] \in Seq(Item)
    BY DEF TypeOK
  <2>3. queue[p] # <<>> => /\ queue[p] \o s # <<>>
                           /\ Head(queue[p] \o s) = Head(queue[p])
    BY <2>2, QueueGrows
  <2>4. job' = job
    BY <1>1 DEF RecoverList
  <2> QED
    BY <2>1, <2>3, <2>4 DEF TypeOK, Steady
<1>2. CASE UNCHANGED <<queue, job>>
  BY <1>2 DEF Steady
<1> QED
  BY <1>1, <1>2 DEF RecoverStep, RecoverReset, RecoverFault, Start

LEMMA CrashSteady ==
    ASSUME TypeOK, NEW p \in Procs, Crash(p)
    PROVE  /\ \A x \in Procs \ {p} : Steady(x)
           /\ job'[p] = "idle" /\ queue'[p] = <<>>
BY DEF TypeOK, Crash, Steady

-----------------------------------------------------------------------------
(***************************************************************************)
(* Rows: what was acknowledged, queued or marked has one.                  *)
(***************************************************************************)

RowInv ==
    /\ \A e \in acked \cup marker : HasRow(e)
    /\ \A p \in Procs : \A e \in EventsOf(queue[p]) : HasRow(e)
    /\ \A r \in http : r.at = "enqueue" => HasRow(r.event)

\* A worker that is not idle works on an event with a row.
LEMMA CurrentHasRow ==
    ASSUME TypeOK, RowInv, NEW p \in Procs, queue[p] # <<>>
    PROVE  Current(p) \in Events /\ HasRow(Current(p))
BY TailOfQueue, EventsOfTail DEF TypeOK, RowInv, Current

\* No step deletes a row.
LEMMA RowsStay ==
    ASSUME TypeOK, [Next]_vars
    PROVE  \A e \in Events : HasRow(e) => HasRow(e)'
<1>1. ASSUME NEW r \in http, HttpStep(r) \/ HttpFault(r)
      PROVE  \A e \in Events : HasRow(e) => HasRow(e)'
  BY <1>1 DEF TypeOK, HasRow, HttpStep, HttpFind, HttpLookup, HttpCreate, HttpFault, Enqueue,
              InsertRow, db
<1>2. ASSUME NEW p \in Procs, WorkerStep(p) \/ FaultStep(p)
      PROVE  \A e \in Events : HasRow(e) => HasRow(e)'
  BY <1>2 DEF TypeOK, HasRow, WorkerStep, StartJob, Claim, Body, MarkProcessed, MarkFailed,
              RetryTimer, FaultStep, MarkProcessedFault, MarkFailedFault, ClaimFault, RecoverFault,
              SetProcessing, SetFailed, MarkInDb, db
<1>3. ASSUME NEW p \in Procs, RecoverStep(p) \/ Start(p) \/ Crash(p)
      PROVE  \A e \in Events : HasRow(e) => HasRow(e)'
  BY <1>3 DEF TypeOK, HasRow, RecoverStep, RecoverReset, RecoverList, Start, Crash, db
<1>4. ASSUME NEW d \in Deliveries, NEW e \in Events, NEW p \in Procs,
             Deliver(d, e, p) \/ Age(e) \/ UNCHANGED vars
      PROVE  UNCHANGED status
  BY <1>4 DEF Deliver, Age, db, vars
<1>5. CASE UNCHANGED vars
  BY <1>5 DEF vars, HasRow
<1>6. ASSUME NEW e \in Events, Age(e) PROVE UNCHANGED status
  BY <1>6 DEF Age
<1> QED
  BY <1>1, <1>2, <1>3, <1>4, <1>5, <1>6 DEF Next, HasRow

LEMMA RowInit == Init => RowInv
BY EmptySeq DEF Init, RowInv, EventsOf

LEMMA HttpKeepsRows ==
    ASSUME TypeOK, RowInv, NEW r \in http, HttpStep(r) \/ HttpFault(r)
    PROVE  RowInv'
<1>1. r.event \in Events /\ r.proc \in Procs /\ acked \subseteq Events /\ marker \subseteq Events
  BY DEF TypeOK, Request
<1>2. \A e \in Events : HasRow(e) => HasRow(e)'
  BY RowsStay DEF Next
<1>3. ASSUME NEW pc \in HttpPc, GoTo(r, pc), pc = "enqueue" => HasRow(r.event)'
      PROVE  \A x \in http' : x.at = "enqueue" => HasRow(x.event)'
  <2>1. [r EXCEPT !.at = pc].event = r.event /\ [r EXCEPT !.at = pc].at = pc
    BY DEF TypeOK, Request
  <2> QED
    BY <1>2, <1>3, <2>1 DEF GoTo, RowInv, TypeOK, Request
<1>4. ASSUME UNCHANGED queue
      PROVE  \A p \in Procs : \A e \in EventsOf(queue'[p]) : HasRow(e)'
  <2>1. \A p \in Procs : EventsOf(queue[p]) \subseteq Events
    BY EventsOfType DEF TypeOK
  <2> QED
    BY <1>2, <1>4, <2>1 DEF RowInv
<1>5. ASSUME UNCHANGED marker, acked' = acked \/ (Ack(r) /\ HasRow(r.event)')
      PROVE  \A e \in acked' \cup marker' : HasRow(e)'
  BY <1>1, <1>2, <1>5 DEF RowInv, Ack
<1>6. ASSUME http' = http \ {r}
      PROVE  \A x \in http' : x.at = "enqueue" => HasRow(x.event)'
  BY <1>2, <1>6 DEF RowInv, TypeOK, Request
<1>7. CASE HttpFind(r)
  <2>1. UNCHANGED <<marker, queue>>
    BY <1>7 DEF HttpFind, db
  <2>2. acked' = acked \/ (Ack(r) /\ HasRow(r.event)')
    BY <1>1, <1>2, <1>7 DEF HttpFind, AckDuplicate, RowInv
  <2>3. http' = http \ {r} \/ GoTo(r, "lookup")
    BY <1>7 DEF HttpFind, AckDuplicate
  <2> QED
    BY <1>3, <1>4, <1>5, <1>6, <2>1, <2>2, <2>3 DEF RowInv, HttpPc
<1>8. CASE HttpLookup(r)
  <2>1. UNCHANGED <<marker, queue>>
    BY <1>8 DEF HttpLookup, db
  <2>2. acked' = acked \/ (Ack(r) /\ HasRow(r.event)')
    BY <1>1, <1>2, <1>8 DEF HttpLookup, AckDuplicate, AckAndQueue, HasRow
  <2>3. \/ http' = http \ {r}
        \/ GoTo(r, "create")
        \/ GoTo(r, "enqueue") /\ HasRow(r.event)'
    BY <1>1, <1>2, <1>8 DEF HttpLookup, AckDuplicate, AckAndQueue, HasRow
  <2> QED
    BY <1>3, <1>4, <1>5, <1>6, <2>1, <2>2, <2>3 DEF RowInv, HttpPc
<1>9. CASE HttpCreate(r)
  <2>1. UNCHANGED <<marker, queue>>
    BY <1>9 DEF HttpCreate
  <2>2. InsertRow(r.event) => HasRow(r.event)'
    BY <1>1 DEF TypeOK, InsertRow, HasRow
  <2>3. acked' = acked \/ (Ack(r) /\ HasRow(r.event)')
    BY <1>9, <2>2 DEF HttpCreate, AckAndQueue
  <2>4. \/ GoTo(r, "reread")
        \/ GoTo(r, "enqueue") /\ HasRow(r.event)'
    BY <1>9, <2>2 DEF HttpCreate, AckAndQueue
  <2> QED
    BY <1>3, <1>4, <1>5, <2>1, <2>3, <2>4 DEF RowInv, HttpPc
<1>10. CASE HttpFault(r)
  <2>1. UNCHANGED <<marker, queue, acked>> /\ http' = http \ {r}
    BY <1>10 DEF HttpFault
  <2> QED
    BY <1>4, <1>5, <1>6, <2>1 DEF RowInv
<1>11. CASE Enqueue(r)
  <2>1. UNCHANGED <<marker, acked>> /\ http' = http \ {r} /\ HasRow(r.event)'
    BY <1>1, <1>2, <1>11 DEF Enqueue, RowInv, db
  <2>2. NewItem(r.event) \in Item /\ NewItem(r.event).event = r.event
    BY <1>1 DEF NewItem, Item
  <2>3. ASSUME NEW p \in Procs PROVE EventsOf(queue'[p]) \subseteq EventsOf(queue[p]) \cup {r.event}
    <3>1. queue[p] \in Seq(Item)
      BY DEF TypeOK
    <3>2. queue'[p] = IF p = r.proc THEN Append(queue[p], NewItem(r.event)) ELSE queue[p]
      BY <1>11 DEF TypeOK, Enqueue
    <3>3. CASE p = r.proc
      BY <2>2, <3>1, <3>2, <3>3, EventsOfAppend
    <3>4. CASE p # r.proc
      BY <3>2, <3>4
    <3> QED
      BY <3>3, <3>4
  <2>4. \A p \in Procs : EventsOf(queue[p]) \subseteq Events
    BY EventsOfType DEF TypeOK
  <2>5. \A p \in Procs : \A e \in EventsOf(queue'[p]) : HasRow(e)'
    BY <1>2, <2>1, <2>3, <2>4 DEF RowInv
  <2> QED
    BY <1>5, <1>6, <2>1, <2>5 DEF RowInv
<1> QED
  BY <1>7, <1>8, <1>9, <1>10, <1>11 DEF HttpStep

\* A worker drops its head or puts it back; it never finds another event.
LEMMA WorkerEvents ==
    ASSUME TypeOK, NEW p \in Procs,
           \/ WorkerStep(p) \/ MarkProcessedFault(p)
           \/ MarkFailedFault(p) \/ ClaimFault(p)
    PROVE  /\ \A x \in Procs : EventsOf(queue'[x]) \subseteq EventsOf(queue[x])
           /\ UNCHANGED <<acked, http>>
<1>1. queue[p] \in Seq(Item)
  BY DEF TypeOK
<1>2. ASSUME queue[p] # <<>>, Drop(p)
      PROVE  \A x \in Procs : EventsOf(queue'[x]) \subseteq EventsOf(queue[x])
  BY <1>1, <1>2, EventsOfTail DEF TypeOK, Drop
<1>3. ASSUME queue[p] # <<>>, AfterFailure(p)
      PROVE  \A x \in Procs : EventsOf(queue'[x]) \subseteq EventsOf(queue[x])
  <2> DEFINE item == [event |-> Current(p), attempts |-> Head(queue[p]).attempts + 1]
  <2>1. Head(queue[p]).event \in Events /\ Head(queue[p]).attempts + 1 \in Nat
    BY <1>1, <1>3, TailOfQueue
  <2>2. item \in Item /\ item.event = Head(queue[p]).event
    BY <2>1 DEF Item, Current
  <2> HIDE DEF item
  <2>3. EventsOf(<<item>> \o Tail(queue[p])) = EventsOf(queue[p])
    BY <1>1, <1>3, <2>2, EventsOfAttempt
  <2>4. CASE Abandon(p)
    BY <1>2, <1>3, <2>4 DEF Abandon
  <2>5. CASE queue' = [queue EXCEPT ![p] = <<item>> \o Tail(@)]
    BY <2>3, <2>5 DEF TypeOK
  <2> QED
    BY <1>3, <2>4, <2>5 DEF AfterFailure, item
<1>4. UNCHANGED queue \/ (queue[p] # <<>> /\ (Drop(p) \/ AfterFailure(p)))
  BY DEF TypeOK, WorkerStep, StartJob, Claim, Body, MarkProcessed, MarkFailed, RetryTimer,
         MarkProcessedFault, MarkFailedFault, ClaimFault, Abandon
<1>5. \A x \in Procs : EventsOf(queue'[x]) \subseteq EventsOf(queue[x])
  BY <1>2, <1>3, <1>4
<1>6. UNCHANGED <<acked, http>>
  BY DEF WorkerStep, StartJob, Claim, Body, MarkProcessed, MarkFailed, RetryTimer,
         MarkProcessedFault, MarkFailedFault, ClaimFault
<1> QED
  BY <1>5, <1>6

\* A worker marks only an event it holds.
LEMMA WorkerMarks ==
    ASSUME TypeOK, NEW p \in Procs,
           \/ WorkerStep(p) \/ MarkProcessedFault(p)
           \/ MarkFailedFault(p) \/ ClaimFault(p)
    PROVE  \/ UNCHANGED marker
           \/ job[p] = "mark" /\ queue[p] # <<>> /\ MarkInDb(Current(p))
BY DEF TypeOK, WorkerStep, StartJob, Claim, Body, MarkProcessed, MarkFailed, RetryTimer,
       MarkProcessedFault, MarkFailedFault, ClaimFault, db

LEMMA WorkerKeepsRows ==
    ASSUME TypeOK, RowInv, NEW p \in Procs,
           \/ WorkerStep(p) \/ MarkProcessedFault(p)
           \/ MarkFailedFault(p) \/ ClaimFault(p)
    PROVE  RowInv'
<1>1. \A e \in Events : HasRow(e) => HasRow(e)'
  BY RowsStay DEF Next, FaultStep
<1>2. /\ \A x \in Procs : EventsOf(queue'[x]) \subseteq EventsOf(queue[x])
      /\ UNCHANGED <<acked, http>>
  BY WorkerEvents
<1>3. \A x \in Procs : EventsOf(queue[x]) \subseteq Events
  BY EventsOfType DEF TypeOK
<1>4. marker' \subseteq marker \cup {e \in Events : HasRow(e)}
  BY WorkerMarks, CurrentHasRow DEF MarkInDb
<1>5. acked \subseteq Events /\ marker \subseteq Events /\ \A r \in http : r.event \in Events
  BY DEF TypeOK, Request
<1> QED
  BY <1>1, <1>2, <1>3, <1>4, <1>5 DEF RowInv

LEMMA ProcessKeepsRows ==
    ASSUME TypeOK, RowInv, NEW p \in Procs,
           RecoverStep(p) \/ RecoverFault(p) \/ Start(p) \/ Crash(p)
    PROVE  RowInv'
<1>1. \A e \in Events : HasRow(e) => HasRow(e)'
  BY RowsStay DEF Next, FaultStep
<1>2. \A x \in Procs : EventsOf(queue[x]) \subseteq Events
  BY EventsOfType DEF TypeOK
<1>3. /\ UNCHANGED <<acked, marker>> /\ http' \subseteq http
  BY DEF RecoverStep, RecoverReset, RecoverList, RecoverFault, Start, Crash, db
<1>4. \A x \in Procs : \A e \in EventsOf(queue'[x]) : HasRow(e)'
  <2>1. CASE RecoverList(p)
    <3>1. PICK s \in Seq(Item) : /\ queue' = [queue EXCEPT ![p] = @ \o s]
                                 /\ \A i \in DOMAIN s : s[i].event \in Recoverable
      BY <2>1, RecoverListAppends
    <3>2. \A e \in EventsOf(s) : e \in Events /\ HasRow(e)
      BY <3>1 DEF EventsOf, Recoverable, HasRow
    <3>3. queue[p] \in Seq(Item)
      BY DEF TypeOK
    <3>4. EventsOf(queue[p] \o s) = EventsOf(queue[p]) \cup EventsOf(s)
      BY <3>3, EventsOfConcat
    <3> QED
      BY <1>1, <1>2, <3>1, <3>2, <3>4 DEF RowInv, TypeOK
  <2>2. CASE Crash(p)
    <3>1. EventsOf(<<>>) = {}
      BY EmptySeq DEF EventsOf
    <3> QED
      BY <1>1, <1>2, <2>2, <3>1 DEF Crash, RowInv, TypeOK
  <2>3. CASE UNCHANGED queue
    BY <1>1, <1>2, <2>3 DEF RowInv
  <2> QED
    BY <2>1, <2>2, <2>3 DEF RecoverStep, RecoverReset, RecoverFault, Start
<1>5. acked \subseteq Events /\ marker \subseteq Events /\ \A r \in http : r.event \in Events
  BY DEF TypeOK, Request
<1> QED
  BY <1>1, <1>3, <1>4, <1>5 DEF RowInv

LEMMA RowNext == TypeOK /\ RowInv /\ [Next]_vars => RowInv'
<1> SUFFICES ASSUME TypeOK, RowInv, [Next]_vars PROVE RowInv'
  OBVIOUS
<1>1. ASSUME NEW d \in Deliveries, NEW e \in Events, NEW p \in Procs, Deliver(d, e, p)
      PROVE  RowInv'
  BY <1>1 DEF Deliver, db, RowInv, HasRow
<1>2. ASSUME NEW e \in Events, Age(e) PROVE RowInv'
  BY <1>2 DEF Age, RowInv, HasRow
<1>3. CASE UNCHANGED vars
  BY <1>3 DEF vars, RowInv, HasRow
<1> QED
  BY <1>1, <1>2, <1>3, HttpKeepsRows, WorkerKeepsRows, ProcessKeepsRows
     DEF Next, FaultStep

THEOREM RowsHold == Spec => [](TypeOK /\ RowInv)
BY TypeInit, TypeNext, RowInit, RowNext, PTL DEF Spec

LEMMA RowsAreDurable == RowInv => DurableBeforeAck
BY DEF RowInv, DurableBeforeAck, Queued, EventsOf

\* In every run, an event answered 200 and an event waiting in memory has its
\* row: stripeWebhookHandler persists before it acknowledges, and nothing ever
\* removes a row (schema.prisma:138).
THEOREM EventsAreDurable == Spec => []DurableBeforeAck
BY RowsHold, RowsAreDurable, PTL

-----------------------------------------------------------------------------
(***************************************************************************)
(* Body, then marker and status: the order within an attempt.              *)
(***************************************************************************)

DoneInv ==
    /\ \A e \in Events : status[e] = "processed" => e \in marker
    /\ \A e \in marker : effects[e] > 0
    /\ \A p \in Procs : job[p] = "mark" => effects[Current(p)] > 0

\* No step takes an effect back.
LEMMA EffectsGrow ==
    ASSUME TypeOK, [Next]_vars
    PROVE  \A e \in Events : effects[e] > 0 => effects'[e] > 0
<1>1. ASSUME NEW e \in Events, Committed(e)
      PROVE  \A x \in Events : effects[x] > 0 => effects'[x] > 0
  BY <1>1 DEF TypeOK, Committed
<1>2. ASSUME NEW p \in Procs, Body(p)
      PROVE  \A x \in Events : effects[x] > 0 => effects'[x] > 0
  <2>1. Current(p) \in Events
    BY <1>2, TailOfQueue DEF TypeOK, Body, Current
  <2> QED
    BY <1>1, <1>2, <2>1 DEF Body
<1>3. ASSUME NEW p \in Procs, WorkerStep(p) \/ FaultStep(p) \/ RecoverStep(p) \/ Start(p) \/ Crash(p)
      PROVE  UNCHANGED effects \/ Body(p)
  BY <1>3 DEF WorkerStep, StartJob, Claim, MarkProcessed, MarkFailed, RetryTimer, FaultStep,
       MarkProcessedFault, MarkFailedFault, ClaimFault, RecoverFault, RecoverStep, RecoverReset,
       RecoverList, Start, Crash
<1>4. ASSUME NEW r \in http, HttpStep(r) \/ HttpFault(r)
      PROVE  UNCHANGED effects
  BY <1>4 DEF HttpStep, HttpFind, HttpLookup, HttpCreate, Enqueue, HttpFault
<1>5. ASSUME NEW d \in Deliveries, NEW e \in Events, NEW p \in Procs, Deliver(d, e, p)
      PROVE  UNCHANGED effects
  BY <1>5 DEF Deliver
<1>6. ASSUME NEW e \in Events, Age(e) PROVE UNCHANGED effects
  BY <1>6 DEF Age
<1>7. CASE UNCHANGED vars
  BY <1>7 DEF vars
<1> QED
  BY <1>2, <1>3, <1>4, <1>5, <1>6, <1>7 DEF Next

LEMMA DoneInit == Init => DoneInv
BY DEF Init, DoneInv

\* The marks of a step that leaves the marker, and that writes no "processed".
LEMMA DoneUnmarked ==
    ASSUME TypeOK, RowInv, DoneInv, [Next]_vars,
           \A x \in Procs : job'[x] = "mark" => Steady(x),
           UNCHANGED marker,
           \A e \in Events : status'[e] = "processed" => status[e] = "processed"
    PROVE  DoneInv'
<1>1. \A e \in Events : effects[e] > 0 => effects'[e] > 0
  BY EffectsGrow
<1>2. ASSUME NEW x \in Procs, job'[x] = "mark"
      PROVE  effects'[Current(x)'] > 0
  <2>1. job[x] = "mark" /\ queue[x] # <<>> /\ Current(x)' = Current(x)
    BY <1>2 DEF TypeOK, Steady, Current
  <2> QED
    BY <1>1, <2>1, CurrentHasRow DEF DoneInv
<1> QED
  BY <1>1, <1>2 DEF DoneInv, TypeOK

LEMMA WorkerKeepsDone ==
    ASSUME TypeOK, RowInv, DoneInv, NEW p \in Procs,
           \/ WorkerStep(p) \/ MarkProcessedFault(p)
           \/ MarkFailedFault(p) \/ ClaimFault(p)
    PROVE  DoneInv'
<1>1. \A x \in Procs \ {p} : Steady(x)
  BY WorkerSteady
<1>2. [Next]_vars
  BY DEF Next, FaultStep
<1>3. \A e \in Events : effects[e] > 0 => effects'[e] > 0
  BY <1>2, EffectsGrow
<1>4. \A x \in Procs : queue[x] # <<>> => Current(x) \in Events
  BY CurrentHasRow
<1>5. ASSUME NEW x \in Procs \ {p}, job'[x] = "mark"
      PROVE  effects'[Current(x)'] > 0
  <2>1. job[x] = "mark" /\ queue[x] # <<>> /\ Current(x)' = Current(x)
    BY <1>1, <1>5 DEF TypeOK, Steady, Current
  <2> QED
    BY <1>3, <1>4, <2>1 DEF DoneInv
<1>6. CASE Body(p)
  <2>1. UNCHANGED <<status, marker>>
    BY <1>6 DEF Body, db
  <2>2. job'[p] = "mark" => effects'[Current(p)'] > 0
    BY <1>4, <1>6 DEF TypeOK, Body, Committed, Current
  <2> QED
    BY <1>3, <1>5, <2>1, <2>2 DEF DoneInv, TypeOK
<1>7. CASE MarkProcessed(p) \/ MarkProcessedFault(p)
  <2>1. job'[p] # "mark"
    BY <1>7 DEF TypeOK, MarkProcessed, MarkProcessedFault, Drop
  <2>2. effects[Current(p)] > 0 /\ Current(p) \in Events
    BY <1>4, <1>7 DEF TypeOK, MarkProcessed, MarkProcessedFault, DoneInv
  <2>3. MarkInDb(Current(p)) \/ UNCHANGED <<status, marker>>
    BY <1>7 DEF MarkProcessed, MarkProcessedFault
  <2> QED
    BY <1>3, <1>5, <2>1, <2>2, <2>3 DEF DoneInv, TypeOK, MarkInDb
<1>8. CASE \/ StartJob(p) \/ Claim(p) \/ MarkFailed(p) \/ RetryTimer(p)
           \/ MarkFailedFault(p) \/ ClaimFault(p)
  <2>1. job'[p] # "mark"
    BY <1>8 DEF TypeOK, StartJob, Claim, MarkFailed, RetryTimer, MarkFailedFault, ClaimFault,
                AfterFailure, Abandon, Drop
  <2>2. UNCHANGED marker
    BY <1>8 DEF StartJob, Claim, MarkFailed, RetryTimer, MarkFailedFault, ClaimFault, db
  <2>3. \A e \in Events : status'[e] = "processed" => status[e] = "processed"
    BY <1>8 DEF TypeOK, StartJob, Claim, MarkFailed, RetryTimer, MarkFailedFault, ClaimFault,
                SetProcessing, SetFailed, db
  <2> QED
    BY <1>1, <1>2, <2>1, <2>2, <2>3, DoneUnmarked
<1> QED
  BY <1>6, <1>7, <1>8 DEF WorkerStep

LEMMA DoneNext == TypeOK /\ RowInv /\ DoneInv /\ [Next]_vars => DoneInv'
<1> SUFFICES ASSUME TypeOK, RowInv, DoneInv, [Next]_vars PROVE DoneInv'
  OBVIOUS
<1>1. ASSUME NEW r \in http, HttpStep(r) \/ HttpFault(r)
      PROVE  DoneInv'
  <2>1. \A x \in Procs : Steady(x)
    BY <1>1, HttpSteady
  <2>2. UNCHANGED marker
    BY <1>1 DEF HttpStep, HttpFind, HttpLookup, HttpCreate, Enqueue, HttpFault, db
  <2>3. \A e \in Events : status'[e] = "processed" => status[e] = "processed"
    BY <1>1 DEF TypeOK, HttpStep, HttpFind, HttpLookup, HttpCreate, Enqueue, HttpFault,
                InsertRow, db
  <2> QED
    BY <2>1, <2>2, <2>3, DoneUnmarked
<1>2. ASSUME NEW p \in Procs, RecoverStep(p) \/ RecoverFault(p) \/ Start(p) \/ Crash(p)
      PROVE  DoneInv'
  <2>1. \A x \in Procs : job'[x] = "mark" => Steady(x)
    BY <1>2, RecoverSteady, CrashSteady
  <2>2. UNCHANGED marker
    BY <1>2 DEF RecoverStep, RecoverReset, RecoverList, RecoverFault, Start, Crash, db
  <2>3. \A e \in Events : status'[e] = "processed" => status[e] = "processed"
    BY <1>2 DEF TypeOK, RecoverStep, RecoverReset, RecoverList, RecoverFault, Start, Crash, db
  <2> QED
    BY <2>1, <2>2, <2>3, DoneUnmarked
<1>3. ASSUME NEW d \in Deliveries, NEW e \in Events, NEW p \in Procs, Deliver(d, e, p)
      PROVE  DoneInv'
  BY <1>3 DEF Deliver, DoneInv, Current, db
<1>4. ASSUME NEW e \in Events, Age(e) PROVE DoneInv'
  BY <1>4 DEF Age, DoneInv, Current
<1>5. CASE UNCHANGED vars
  BY <1>5 DEF vars, DoneInv, Current
<1> QED
  BY <1>1, <1>2, <1>3, <1>4, <1>5, WorkerKeepsDone DEF Next, FaultStep

\* In every run, an event with the status "processed" has its marker, and one
\* with a marker had its body committed: no order of crashes, retries, refused
\* claims and failed marks settles an event that had no effect
\* (webhook.processor.js:195-196).
THEOREM ProcessedEventsWereApplied == Spec => []ProcessedMeansApplied
<1>1. DoneInv => ProcessedMeansApplied
  BY DEF DoneInv, ProcessedMeansApplied
<1>2. Spec => []DoneInv
  BY RowsHold, DoneInit, DoneNext, PTL DEF Spec
<1> QED
  BY <1>1, <1>2, PTL

-----------------------------------------------------------------------------
(***************************************************************************)
(* The claim: who may work on an event.                                    *)
(***************************************************************************)

Working == {"body", "mark", "failRetry", "failFatal"}

ClaimInv ==
    /\ \A p \in Procs : (job[p] \in Working /\ Current(p) \notin aged) =>
          Refused(Current(p))
    /\ \A p \in Procs : (job[p] = "body" /\ Current(p) \notin aged) =>
          Current(p) \notin marker
    /\ \A p, q \in Procs :
          (/\ job[p] \in Working /\ job[q] \in Working /\ p # q
           /\ Current(p) = Current(q)) => Current(p) \in aged

LEMMA ClaimInit == Init => ClaimInv
BY DEF Init, ClaimInv, Working

\* A step that starts no attempt and ends none by a mark keeps ClaimInv, if it
\* keeps refusing the events that are being worked on.
LEMMA ClaimQuiet ==
    ASSUME TypeOK, ClaimInv,
           aged \subseteq aged',
           \A x \in Procs : job'[x] \in Working => Steady(x),
           \A e \in Events : (Refused(e) /\ e \notin aged
                                /\ \E x \in Procs : job'[x] \in Working /\ Current(x) = e)
                             => Refused(e)',
           UNCHANGED marker
    PROVE  ClaimInv'
<1>1. ASSUME NEW x \in Procs, job'[x] \in Working
      PROVE  /\ job[x] = job'[x] /\ Current(x)' = Current(x)
             /\ queue[x] # <<>> /\ Current(x) \in Events
  <2>1. job[x] = job'[x] /\ queue[x] # <<>> /\ queue[x] \in Seq(Item)
    BY <1>1 DEF TypeOK, Steady, Working
  <2>2. Current(x) \in Events
    BY <2>1, TailOfQueue DEF Current
  <2> QED
    BY <1>1, <2>1, <2>2 DEF Steady, Current
<1>2. ASSUME NEW x \in Procs, job'[x] \in Working, Current(x)' \notin aged'
      PROVE  Refused(Current(x))'
  <2>1. PICK e \in Events : e = Current(x)
    BY <1>1, <1>2
  <2>2. e = Current(x)' /\ e \notin aged /\ Refused(e)
    BY <1>1, <1>2, <2>1 DEF ClaimInv
  <2>3. Refused(e)'
    BY <1>2, <2>1, <2>2
  <2>4. e \in marker' \/ status'[e] \in {"processed", "processing"}
    BY <2>3 DEF Refused
  <2> QED
    BY <2>2, <2>4 DEF Refused
<1>3. ASSUME NEW x \in Procs, job'[x] = "body", Current(x)' \notin aged'
      PROVE  Current(x)' \notin marker'
  BY <1>1, <1>3 DEF ClaimInv, Working
<1>4. ASSUME NEW x \in Procs, NEW y \in Procs, job'[x] \in Working, job'[y] \in Working,
             x # y, Current(x)' = Current(y)'
      PROVE  Current(x)' \in aged'
  BY <1>1, <1>4 DEF ClaimInv
<1> QED
  BY <1>2, <1>3, <1>4 DEF ClaimInv, Working

LEMMA HttpKeepsClaim ==
    ASSUME TypeOK, ClaimInv, NEW r \in http, HttpStep(r) \/ HttpFault(r)
    PROVE  ClaimInv'
<1>1. \A x \in Procs : Steady(x)
  BY HttpSteady
<1>2. UNCHANGED <<marker, aged>>
  BY DEF HttpStep, HttpFind, HttpLookup, HttpCreate, Enqueue, HttpFault, db
<1>3. \A e \in Events : status[e] # "none" => status'[e] = status[e]
  BY DEF TypeOK, HttpStep, HttpFind, HttpLookup, HttpCreate, Enqueue, HttpFault,
         InsertRow, HasRow, db
<1>4. \A e \in Events : Refused(e) => Refused(e)'
  BY <1>2, <1>3 DEF Refused
<1> QED
  BY <1>1, <1>2, <1>4, ClaimQuiet

LEMMA ProcessKeepsClaim ==
    ASSUME TypeOK, ClaimInv, NEW p \in Procs,
           RecoverStep(p) \/ RecoverFault(p) \/ Start(p) \/ Crash(p)
    PROVE  ClaimInv'
<1>1. \A x \in Procs : job'[x] \in Working => Steady(x)
  BY RecoverSteady, CrashSteady DEF Working
<1>2. UNCHANGED <<marker, aged>>
  BY DEF RecoverStep, RecoverReset, RecoverList, RecoverFault, Start, Crash, db
<1>3. \A e \in Events : e \notin aged => status'[e] = status[e]
  BY DEF TypeOK, RecoverStep, RecoverReset, RecoverList, RecoverFault, Start, Crash, Stale, db
<1>4. \A e \in Events : Refused(e) /\ e \notin aged => Refused(e)'
  BY <1>2, <1>3 DEF Refused
<1> QED
  BY <1>1, <1>2, <1>4, ClaimQuiet

\* The claim itself: the row exists, so it is "processing" afterwards, and no
\* worker had it unless it is old.
LEMMA ClaimKeepsClaim ==
    ASSUME TypeOK, RowInv, ClaimInv, NEW p \in Procs,
           job[p] = "claim", ~Refused(Current(p)), SetProcessing(Current(p)),
           job' = [job EXCEPT ![p] = "body"], UNCHANGED <<queue, marker, aged>>
    PROVE  ClaimInv'
<1>1. PICK e \in Events : e = Current(p) /\ HasRow(e)
  BY CurrentHasRow DEF TypeOK
<1>2. status' = [status EXCEPT ![e] = "processing"]
  BY <1>1 DEF SetProcessing
<1>3. \A x \in Procs : /\ Current(x)' = Current(x)
                       /\ x # p => job'[x] = job[x]
  BY DEF TypeOK, Current
<1>4. \A x \in Procs : (job[x] \in Working /\ Current(x) = e) => e \in aged
  BY <1>1 DEF ClaimInv
<1>5. \A x \in Procs : job[x] \in Working => Current(x) \in Events
  BY CurrentHasRow DEF TypeOK, Working
<1>6. \A x \in Procs \ {p} : (job'[x] \in Working /\ Current(x) \notin aged) =>
          Current(x) \in marker \/ status'[Current(x)] \in {"processed", "processing"}
  BY <1>2, <1>3, <1>5 DEF ClaimInv, Refused, TypeOK
<1>7. status'[Current(p)] = "processing"
  BY <1>1, <1>2 DEF TypeOK
<1>8. \A x \in Procs : (job'[x] \in Working /\ Current(x)' \notin aged') =>
          Refused(Current(x))'
  BY <1>3, <1>6, <1>7 DEF Refused
<1>9. \A x \in Procs : (job'[x] = "body" /\ Current(x)' \notin aged') =>
          Current(x)' \notin marker'
  BY <1>3 DEF ClaimInv, Refused
<1>10. \A x, y \in Procs :
          (/\ job'[x] \in Working /\ job'[y] \in Working /\ x # y
           /\ Current(x)' = Current(y)') => Current(x)' \in aged'
  BY <1>1, <1>3, <1>4 DEF ClaimInv
<1> QED
  BY <1>8, <1>9, <1>10 DEF ClaimInv

\* A mark refuses the event to everybody else for good.
LEMMA MarkKeepsClaim ==
    ASSUME TypeOK, RowInv, ClaimInv, NEW p \in Procs,
           MarkProcessed(p) \/ MarkProcessedFault(p)
    PROVE  ClaimInv'
<1>1. PICK e \in Events : e = Current(p)
  BY CurrentHasRow DEF TypeOK, MarkProcessed, MarkProcessedFault
<1>2. /\ job[p] = "mark" /\ UNCHANGED aged
      /\ MarkInDb(e) \/ UNCHANGED <<status, marker>>
  BY <1>1 DEF MarkProcessed, MarkProcessedFault
<1>3. \A x \in Procs \ {p} : job'[x] = job[x] /\ Current(x)' = Current(x)
  BY DEF TypeOK, MarkProcessed, MarkProcessedFault, Drop, Current
<1>4. /\ job'[p] \in {"idle", "failFatal"}
      /\ job'[p] = "failFatal" => Current(p)' = Current(p)
  BY DEF TypeOK, MarkProcessed, MarkProcessedFault, Drop, Current
<1>5. \A x \in Procs : job[x] \in Working => Current(x) \in Events
  BY CurrentHasRow DEF TypeOK, Working
<1>6. \A y \in Events : Refused(y) =>
          y \in marker' \/ status'[y] \in {"processed", "processing"}
  BY <1>2 DEF Refused, MarkInDb, TypeOK
<1>7. \A x \in Procs : job'[x] \in Working =>
          /\ job[x] \in Working /\ Current(x)' = Current(x)
          /\ job'[x] = "body" => job[x] = "body" /\ x # p
  BY <1>2, <1>3, <1>4 DEF Working
<1>8. \A x \in Procs : (job'[x] \in Working /\ Current(x)' \notin aged') =>
          Refused(Current(x))'
  <2>1. \A x \in Procs : (job'[x] \in Working /\ Current(x) \notin aged) =>
          Current(x) \in marker' \/ status'[Current(x)] \in {"processed", "processing"}
    BY <1>5, <1>6, <1>7 DEF ClaimInv
  <2> QED
    BY <1>2, <1>7, <2>1 DEF Refused
<1>9. \A x \in Procs : (job'[x] = "body" /\ Current(x)' \notin aged') =>
          Current(x)' \notin marker'
  <2>1. marker' \subseteq marker \cup {e}
    BY <1>2 DEF MarkInDb
  <2>2. \A x \in Procs \ {p} : (job[x] \in Working /\ Current(x) = e) => e \in aged
    BY <1>1, <1>2 DEF ClaimInv, Working
  <2> QED
    BY <1>2, <1>7, <2>1, <2>2 DEF ClaimInv, Working
<1>10. \A x, y \in Procs :
          (/\ job'[x] \in Working /\ job'[y] \in Working /\ x # y
           /\ Current(x)' = Current(y)') => Current(x)' \in aged'
  BY <1>2, <1>7 DEF ClaimInv
<1> QED
  BY <1>8, <1>9, <1>10 DEF ClaimInv

LEMMA BodyKeepsClaim ==
    ASSUME TypeOK, ClaimInv, NEW p \in Procs, Body(p)
    PROVE  ClaimInv'
<1>1. /\ UNCHANGED <<status, marker, aged, queue>>
      /\ job[p] = "body" /\ job'[p] \in Working \ {"body"}
      /\ \A x \in Procs \ {p} : job'[x] = job[x]
  BY DEF TypeOK, Body, db, Working
<1>2. \A x \in Procs : /\ Current(x)' = Current(x)
                       /\ job'[x] \in Working => job[x] \in Working
                       /\ job'[x] = "body" => job[x] = "body"
  BY <1>1 DEF Current, Working
<1>3. \A x \in Procs : Refused(Current(x)) => Refused(Current(x))'
  BY <1>1 DEF Current, Refused
<1> QED
  BY <1>1, <1>2, <1>3 DEF ClaimInv

LEMMA WorkerKeepsClaim ==
    ASSUME TypeOK, RowInv, ClaimInv, NEW p \in Procs,
           \/ WorkerStep(p) \/ MarkProcessedFault(p)
           \/ MarkFailedFault(p) \/ ClaimFault(p)
    PROVE  ClaimInv'
<1>1. \A x \in Procs \ {p} : Steady(x)
  BY WorkerSteady
<1>2. CASE MarkProcessed(p) \/ MarkProcessedFault(p)
  BY <1>2, MarkKeepsClaim
<1>3. CASE Body(p)
  BY <1>3, BodyKeepsClaim
<1>4. CASE Claim(p) /\ ~Refused(Current(p))
  BY <1>4, ClaimKeepsClaim DEF Claim
<1>5. CASE \/ StartJob(p) \/ (Claim(p) /\ Refused(Current(p))) \/ MarkFailed(p)
           \/ RetryTimer(p) \/ MarkFailedFault(p) \/ ClaimFault(p)
  <2>1. job'[p] \notin Working
    BY <1>5 DEF TypeOK, StartJob, Claim, MarkFailed, RetryTimer, MarkFailedFault, ClaimFault,
                AfterFailure, Abandon, Drop, Working
  <2>2. UNCHANGED <<marker, aged>>
    BY <1>5 DEF StartJob, Claim, MarkFailed, RetryTimer, MarkFailedFault, ClaimFault, db
  <2>3. \/ UNCHANGED status
        \/ job[p] \in Working /\ SetFailed(Current(p))
        \/ ~Refused(Current(p)) /\ SetProcessing(Current(p))
    BY <1>5 DEF StartJob, Claim, MarkFailed, RetryTimer, MarkFailedFault, ClaimFault, Working, db
  <2>4. ASSUME NEW e \in Events, Refused(e), e \notin aged,
               NEW x \in Procs, job'[x] \in Working, Current(x) = e
        PROVE  Refused(e)'
    <3>1. x # p /\ job[x] \in Working
      BY <1>1, <2>1, <2>4 DEF Steady
    <3>2. job[p] \in Working => Current(p) # e
      BY <2>4, <3>1 DEF ClaimInv
    <3>3. Current(p) # e => status'[e] = status[e]
      BY <2>3 DEF TypeOK, SetFailed, SetProcessing
    <3>4. ~Refused(Current(p)) => Current(p) # e
      BY <2>4
    <3>5. status'[e] = status[e]
      BY <2>3, <3>2, <3>3, <3>4
    <3> QED
      BY <2>2, <2>4, <3>5 DEF Refused
  <2> QED
    BY <1>1, <2>1, <2>2, <2>4, ClaimQuiet
<1> QED
  BY <1>2, <1>3, <1>4, <1>5 DEF WorkerStep

LEMMA ClaimNext == TypeOK /\ RowInv /\ ClaimInv /\ [Next]_vars => ClaimInv'
<1> SUFFICES ASSUME TypeOK, RowInv, ClaimInv, [Next]_vars PROVE ClaimInv'
  OBVIOUS
<1>1. ASSUME NEW d \in Deliveries, NEW e \in Events, NEW p \in Procs, Deliver(d, e, p)
      PROVE  ClaimInv'
  BY <1>1 DEF Deliver, ClaimInv, Current, Refused, db
<1>2. ASSUME NEW e \in Events, Age(e) PROVE ClaimInv'
  BY <1>2 DEF Age, ClaimInv, Current, Refused
<1>3. CASE UNCHANGED vars
  BY <1>3 DEF vars, ClaimInv, Current, Refused
<1> QED
  BY <1>1, <1>2, <1>3, HttpKeepsClaim, WorkerKeepsClaim, ProcessKeepsClaim DEF Next, FaultStep

LEMMA ClaimHolds == Spec => []ClaimInv
BY RowsHold, ClaimInit, ClaimNext, PTL DEF Spec

\* In every run and for any number of processes, two workers are on one event
\* only if a starting process may have reset its row: the transaction of
\* claimWebhookInboxForProcessing excludes everybody else.
THEOREM ClaimsAreExclusive == Spec => []ClaimIsExclusive
<1>1. ClaimInv => ClaimIsExclusive
  BY DEF ClaimInv, ClaimIsExclusive, Holds, Working
<1> QED
  BY <1>1, ClaimHolds, PTL

\* In every run, the body of a processed event is committed again only if its
\* row is old enough to be reset: no redelivery, retry or boot repeats it.
THEOREM ProcessedEventsAreNotRepeated == Spec => NoEffectAfterProcessed
<1> DEFINE A == \A e \in Events :
                  (effects'[e] # effects[e] /\ e \notin aged) => e \notin marker
<1>1. TypeOK /\ RowInv /\ ClaimInv /\ [Next]_vars => [A]_vars
  <2> SUFFICES ASSUME TypeOK, RowInv, ClaimInv, Next PROVE A
    BY DEF vars
  <2>1. ASSUME NEW p \in Procs, Body(p) PROVE A
    <3>1. job[p] = "body" /\ Current(p) \in Events
      BY <2>1, CurrentHasRow DEF TypeOK, Body
    <3>2. \A e \in Events : effects'[e] # effects[e] => e = Current(p)
      BY <2>1, <3>1 DEF TypeOK, Body, Committed
    <3> QED
      BY <3>1, <3>2 DEF ClaimInv
  <2>2. UNCHANGED effects \/ \E p \in Procs : Body(p)
    BY DEF Next, Deliver, Age, HttpStep, HttpFind, HttpLookup, HttpCreate, Enqueue, HttpFault,
           WorkerStep, StartJob, Claim, MarkProcessed, MarkFailed, RetryTimer, FaultStep,
           MarkProcessedFault, MarkFailedFault, ClaimFault, RecoverFault, RecoverStep,
           RecoverReset, RecoverList, Start, Crash
  <2> QED
    BY <2>1, <2>2
<1> QED
  BY <1>1, RowsHold, ClaimHolds, PTL DEF Spec, NoEffectAfterProcessed

-----------------------------------------------------------------------------
(***************************************************************************)
(* Nothing that Stripe handed over is lost, as long as no database call    *)
(* fails: a row in "processing" has a worker as long as no process died    *)
(* (ProcessingHasOwner), and after every boot an acknowledged event is     *)
(* settled, queued, or one recovery cannot take over (NothingForgotten).   *)
(* Both are inductive once RowInv and DoneInv are known; the second also   *)
(* needs ClaimsLeft, what a reset leaves behind, and what a boot lists:    *)
(* every recoverable row but those past the limit.                         *)
(***************************************************************************)

\* A step that takes no worker off its item takes no event off its worker.
LEMMA OwnerStays ==
    ASSUME TypeOK, \A x \in Procs : job[x] \in Working => Steady(x),
           NEW e \in Events, \E x \in Procs : Holds(x, e)
    PROVE  \E x \in Procs : Holds(x, e)'
<1>1. PICK x \in Procs : Holds(x, e)
  OBVIOUS
<1>2. job[x] \in Working /\ queue[x] # <<>> /\ Head(queue[x]).event = e
  BY <1>1 DEF Holds, Working, TypeOK, Current
<1>3. job'[x] = job[x] /\ Head(queue'[x]).event = e
  BY <1>2 DEF Steady
<1> QED
  BY <1>2, <1>3 DEF Holds, Working, Current

\* The steps of a worker: a row found in "processing" after one has a worker,
\* unless it was there before without one.
LEMMA WorkerKeepsOwner ==
    ASSUME TypeOK, RowInv, NEW p \in Procs, WorkerStep(p),
           NEW e \in Events, status'[e] = "processing",
           status[e] = "processing" => \E x \in Procs : Holds(x, e)
    PROVE  \E x \in Procs : Holds(x, e)'
<1>1. \A x \in Procs \ {p} : Steady(x)
  BY WorkerSteady
\* another worker goes on with what it holds
<1>3. ASSUME NEW x \in Procs \ {p}, Holds(x, e)
      PROVE  Holds(x, e)'
  <2>1. job[x] \in Working /\ queue[x] # <<>> /\ Head(queue[x]).event = e
    BY <1>3 DEF Holds, Working, TypeOK, Current
  <2>2. job'[x] = job[x] /\ Head(queue'[x]).event = e
    BY <1>1, <2>1 DEF Steady
  <2> QED
    BY <2>1, <2>2 DEF Holds, Working, Current
<1>4. CASE StartJob(p) \/ RetryTimer(p) \/ (Claim(p) /\ Refused(Current(p)))
  <2>1. status' = status /\ job[p] \notin Working
    BY <1>4 DEF StartJob, RetryTimer, Claim, Working, db
  <2>2. PICK x \in Procs : Holds(x, e)
    BY <2>1
  <2>3. x # p
    BY <2>1, <2>2 DEF Holds, Working
  <2> QED
    BY <1>3, <2>2, <2>3
<1>5. CASE Claim(p) /\ ~Refused(Current(p))
  <2>1. SetProcessing(Current(p)) /\ job' = [job EXCEPT ![p] = "body"] /\ UNCHANGED queue
        /\ job[p] = "claim"
    BY <1>5 DEF Claim
  <2>2. CASE e = Current(p)
    BY <2>1, <2>2 DEF Holds, Current, TypeOK
  <2>3. CASE e # Current(p)
    <3>1. status[e] = "processing"
      BY <2>1, <2>3 DEF SetProcessing, TypeOK
    <3>2. PICK x \in Procs : Holds(x, e)
      BY <3>1
    <3>3. x # p
      BY <2>1, <3>2 DEF Holds
    <3> QED
      BY <1>3, <3>2, <3>3
  <2> QED
    BY <2>2, <2>3
<1>6. CASE Body(p)
  <2>1. status' = status /\ UNCHANGED queue
    BY <1>6 DEF Body, db
  <2>2. PICK x \in Procs : Holds(x, e)
    BY <2>1
  <2>3. CASE x = p
    <3>1. job'[p] \in {"mark", "failRetry", "failFatal"}
      BY <1>6 DEF Body, TypeOK
    <3> QED
      BY <2>1, <2>2, <2>3, <3>1 DEF Holds, Current
  <2> QED
    BY <1>3, <2>2, <2>3
<1>7. CASE MarkProcessed(p) \/ MarkFailed(p)
  <2>1. queue[p] # <<>>
    BY <1>7 DEF MarkProcessed, MarkFailed, TypeOK
  <2>2. Current(p) \in Events /\ HasRow(Current(p))
    BY <2>1, CurrentHasRow
  <2>3. e # Current(p) /\ status[e] = "processing"
    BY <1>7, <2>2 DEF MarkProcessed, MarkFailed, MarkInDb, SetFailed, TypeOK
  <2>4. PICK x \in Procs : Holds(x, e)
    BY <2>3
  <2>5. x # p
    BY <2>3, <2>4 DEF Holds
  <2> QED
    BY <1>3, <2>4, <2>5
<1> QED
  BY <1>4, <1>5, <1>6, <1>7 DEF WorkerStep

LEMMA OwnersNext == TypeOK /\ RowInv /\ ProcessingHasOwner /\ [Next]_vars => ProcessingHasOwner'
<1> SUFFICES ASSUME TypeOK, RowInv, ProcessingHasOwner, [Next]_vars PROVE ProcessingHasOwner'
  OBVIOUS
\* a failing call and an exit leave nothing to show
<1>1. ASSUME NEW p \in Procs, FaultStep(p) \/ Crash(p)
      PROVE  ProcessingHasOwner'
  <2>1. crashes' # 0 \/ faults' # 0
    BY <1>1 DEF FaultStep, MarkProcessedFault, MarkFailedFault, ClaimFault, RecoverFault, Fault,
                Crash, TypeOK
  <2> QED
    BY <2>1 DEF ProcessingHasOwner
<1>2. ASSUME NEW r \in http, HttpFault(r) PROVE ProcessingHasOwner'
  BY <1>2 DEF HttpFault, Fault, TypeOK, ProcessingHasOwner
<1>3. ASSUME NEW r \in http, HttpStep(r) PROVE ProcessingHasOwner'
  <2>1. \A x \in Procs : Steady(x)
    BY <1>3, HttpSteady
  <2>2. \A e \in Events : status'[e] = "processing" => status[e] = "processing"
    BY <1>3 DEF TypeOK, HttpStep, HttpFind, HttpLookup, HttpCreate, Enqueue, InsertRow, db
  <2>3. UNCHANGED <<crashes, faults>>
    BY <1>3 DEF HttpStep, HttpFind, HttpLookup, HttpCreate, Enqueue, env
  <2> QED
    BY <2>1, <2>2, <2>3, OwnerStays DEF ProcessingHasOwner
<1>4. ASSUME NEW p \in Procs, RecoverStep(p) \/ Start(p) PROVE ProcessingHasOwner'
  <2>1. \A x \in Procs : Steady(x)
    BY <1>4, RecoverSteady
  <2>2. \A e \in Events : status'[e] = "processing" => status[e] = "processing"
    BY <1>4 DEF TypeOK, RecoverStep, RecoverReset, RecoverList, Start, db
  <2>3. UNCHANGED <<crashes, faults>>
    BY <1>4 DEF RecoverStep, RecoverReset, RecoverList, Start, env
  <2> QED
    BY <2>1, <2>2, <2>3, OwnerStays DEF ProcessingHasOwner
<1>5. ASSUME NEW d \in Deliveries, NEW e \in Events, NEW p \in Procs, Deliver(d, e, p)
      PROVE  ProcessingHasOwner'
  BY <1>5 DEF Deliver, ProcessingHasOwner, Holds, Current, db
<1>6. ASSUME NEW e \in Events, Age(e) PROVE ProcessingHasOwner'
  BY <1>6 DEF Age, ProcessingHasOwner, Holds, Current, env
<1>7. CASE UNCHANGED vars
  BY <1>7 DEF vars, ProcessingHasOwner, Holds, Current
<1>8. ASSUME NEW p \in Procs, WorkerStep(p) PROVE ProcessingHasOwner'
  <2>1. UNCHANGED <<crashes, faults>>
    BY <1>8 DEF WorkerStep, StartJob, Claim, Body, MarkProcessed, MarkFailed, RetryTimer, env
  <2> QED
    BY <1>8, <2>1, WorkerKeepsOwner DEF ProcessingHasOwner
<1> QED
  BY <1>1, <1>2, <1>3, <1>4, <1>5, <1>6, <1>7, <1>8 DEF Next

\* As long as no process exits and no database call fails, a row that says
\* "processing" has a worker between its claim and its end: in no order of
\* deliveries, boots, refusals and retries is a claim left behind
\* (webhook.processor.js:164-225).
THEOREM ClaimsHaveOwners == Spec => []ProcessingHasOwner
<1>1. Init => ProcessingHasOwner
  BY DEF Init, ProcessingHasOwner
<1> QED
  BY <1>1, RowsHold, OwnersNext, PTL DEF Spec

-----------------------------------------------------------------------------
(***************************************************************************)
(* A boot finds every row again.                                           *)
(***************************************************************************)

\* Once every process that is up has released the stale claims, a row in
\* "processing" has its worker, or is one of the claims that were left.
ClaimsLeft ==
    (faults = 0 /\ \A p \in Procs : up[p] \in {"list", "ready"}) =>
        \A e \in Events : status[e] = "processing" =>
            e \in leftOut \/ \E p \in Procs : Holds(p, e)

LEMMA ClaimsLeftNext == TypeOK /\ RowInv /\ ClaimsLeft /\ [Next]_vars => ClaimsLeft'
<1> SUFFICES ASSUME TypeOK, RowInv, ClaimsLeft, [Next]_vars,
                    faults' = 0, \A p \in Procs : up'[p] \in {"list", "ready"},
                    NEW e \in Events, status'[e] = "processing"
             PROVE  e \in leftOut' \/ \E p \in Procs : Holds(p, e)'
  BY DEF ClaimsLeft
<1>1. ASSUME NEW p \in Procs, FaultStep(p) \/ Start(p) \/ Crash(p)
      PROVE  FALSE
  BY <1>1 DEF FaultStep, MarkProcessedFault, MarkFailedFault, ClaimFault, RecoverFault, Fault,
              Start, Crash, TypeOK
<1>2. ASSUME NEW r \in http, HttpFault(r) PROVE FALSE
  BY <1>2 DEF HttpFault, Fault, TypeOK
\* a reset looks at every claim
<1>3. ASSUME NEW p \in Procs, RecoverReset(p)
      PROVE  e \in leftOut'
  BY <1>3 DEF RecoverReset, FreshClaims, Stale, TypeOK
\* the other steps leave the claims they do not own as they found them
<1>4. ASSUME UNCHANGED faults, \A p \in Procs : up[p] \in {"list", "ready"},
             status[e] = "processing"
      PROVE  e \in leftOut \/ \E p \in Procs : Holds(p, e)
  BY <1>4 DEF ClaimsLeft
<1>5. ASSUME NEW r \in http, HttpStep(r) PROVE e \in leftOut' \/ \E p \in Procs : Holds(p, e)'
  <2>1. \A x \in Procs : Steady(x)
    BY <1>5, HttpSteady
  <2>2. status[e] = "processing" /\ UNCHANGED <<faults, up>>
    BY <1>5 DEF TypeOK, HttpStep, HttpFind, HttpLookup, HttpCreate, Enqueue, InsertRow, db, env
  <2>3. e \in leftOut => e \in leftOut'
    BY <1>5, <2>2 DEF HttpStep, HttpFind, HttpLookup, HttpCreate, Enqueue
  <2> QED
    BY <1>4, <2>1, <2>2, <2>3, OwnerStays
<1>6. ASSUME NEW p \in Procs, RecoverList(p)
      PROVE  e \in leftOut' \/ \E x \in Procs : Holds(x, e)'
  <2>1. \A x \in Procs : Steady(x)
    BY <1>6, RecoverSteady DEF RecoverStep
  <2>2. status[e] = "processing" /\ UNCHANGED faults /\ \A x \in Procs : up[x] \in {"list", "ready"}
    BY <1>6 DEF TypeOK, RecoverList, db, env
  <2>3. e \in leftOut => e \in leftOut'
    BY <1>6, <2>2 DEF RecoverList
  <2> QED
    BY <1>4, <2>1, <2>2, <2>3, OwnerStays
<1>7. ASSUME NEW p \in Procs, WorkerStep(p)
      PROVE  e \in leftOut' \/ \E x \in Procs : Holds(x, e)'
  <2>1. UNCHANGED <<up, faults, leftOut>>
    BY <1>7 DEF WorkerStep, StartJob, Claim, Body, MarkProcessed, MarkFailed, RetryTimer, env
  <2> QED
    BY <1>4, <1>7, <2>1, WorkerKeepsOwner
<1>8. ASSUME NEW d \in Deliveries, NEW x \in Events, NEW p \in Procs, Deliver(d, x, p)
      PROVE  e \in leftOut' \/ \E q \in Procs : Holds(q, e)'
  BY <1>4, <1>8 DEF Deliver, Holds, Current, db
<1>9. ASSUME NEW x \in Events, Age(x)
      PROVE  e \in leftOut' \/ \E q \in Procs : Holds(q, e)'
  BY <1>4, <1>9 DEF Age, Holds, Current, env
<1>10. CASE UNCHANGED vars
  BY <1>4, <1>10 DEF vars, Holds, Current
<1> QED
  BY <1>1, <1>2, <1>3, <1>5, <1>6, <1>7, <1>8, <1>9, <1>10 DEF Next, RecoverStep

\* A queue that holds e.
LEMMA QueuedInQueues ==
    ASSUME NEW e
    PROVE  Queued(e) <=> \/ \E p \in Procs : e \in EventsOf(queue[p])
                         \/ \E r \in http : r.event = e /\ r.at = "enqueue"
BY DEF Queued, EventsOf

\* A listing misses no row but those with as many older ones as the limit: the
\* rows it has in the place of such a row are all different, and all older.
LEMMA ListingIsComplete ==
    ASSUME TypeOK,
           NEW n \in 0..RecoverLimit, NEW es \in [1..n -> Recoverable], Listing(es)
    PROVE  \A e \in Recoverable \ PastTheLimit : \E i \in 1..n : es[i] = e
<1> SUFFICES ASSUME NEW e \in Recoverable, \A i \in 1..n : es[i] # e
             PROVE  e \in PastTheLimit
  OBVIOUS
<1> DEFINE older == {x \in Recoverable : receivedAt[x] < receivedAt[e]}
<1>1. DOMAIN es = 1..n /\ n \in Nat /\ RecoverLimit \in Nat
  BY BoundsAssumption
<1>2. Len(es) = n
  <2>1. es \in Seq(Recoverable)
    BY <1>1
  <2>2. Len(es) \in Nat /\ DOMAIN es = 1..Len(es)
    BY <2>1, LenProperties
  <2> QED
    BY <1>1, <2>2
<1>3. Len(es) = RecoverLimit /\ \A i \in 1..n : receivedAt[es[i]] < receivedAt[e]
  BY <1>1 DEF Listing
<1>4. \A i, j \in 1..n : i < j => receivedAt[es[i]] < receivedAt[es[j]]
  BY <1>1 DEF Listing
<1>5. e \in Events /\ Recoverable \subseteq Events
  BY DEF Recoverable
<1>6. \A x \in Events : receivedAt[x] \in Nat
  BY DEF TypeOK
<1>7. \A i, j \in 1..n : es[i] = es[j] => i = j
  BY <1>1, <1>4, <1>5, <1>6
<1>8. es \in Injection(1..n, older)
  BY <1>3, <1>7 DEF Injection, IsInjective
<1>9. IsFiniteSet(older) /\ Cardinality(older) \in Nat
  <2>1. older \subseteq Events
    BY <1>5
  <2> QED
    BY <2>1, BoundsAssumption, FS_Subset, FS_CardinalityType
<1>10. Cardinality(1..n) = n
  BY <1>1, FS_Interval
<1>11. Cardinality(1..n) <= Cardinality(older)
  BY <1>8, <1>9, FS_Injection
<1>12. Cardinality(older) >= RecoverLimit
  <2> HIDE DEF older
  <2> QED
    BY <1>1, <1>2, <1>3, <1>9, <1>10, <1>11
<1> QED
  BY <1>12 DEF PastTheLimit

\* The head of a queue, or behind it.
LEMMA EventsOfHead ==
    ASSUME NEW q \in Seq(Item), q # <<>>
    PROVE  \A e \in EventsOf(q) : e = Head(q).event \/ e \in EventsOf(Tail(q))
<1>1. /\ Len(Tail(q)) = Len(q) - 1 /\ Len(q) \in Nat /\ Len(q) # 0
      /\ DOMAIN q = 1..Len(q) /\ DOMAIN Tail(q) = 1..Len(Tail(q))
      /\ \A i \in 1..Len(Tail(q)) : Tail(q)[i] = q[i + 1]
  BY HeadTailProperties, LenProperties, EmptySeq
<1>2. Head(q) = q[1]
  BY HeadTailProperties
<1>3. \A i \in DOMAIN q : i = 1 \/ (i - 1 \in DOMAIN Tail(q) /\ Tail(q)[i - 1] = q[i])
  BY <1>1
<1> QED
  BY <1>2, <1>3 DEF EventsOf

\* What became of an event.
Kept(e) == e \in marker \/ e \in dead \/ Queued(e) \/ e \in leftOut

\* The event a worker is on is still at the head of its queue.
LEMMA HeldIsQueued ==
    ASSUME TypeOK, NEW p \in Procs, NEW e, Holds(p, e)
    PROVE  Queued(e)
<1>1. queue[p] \in Seq(Item) /\ queue[p] # <<>>
  BY DEF TypeOK, Holds
<1>2. Head(queue[p]).event = e
  BY DEF Holds, Current
<1>3. e \in EventsOf(queue[p])
  BY <1>1, <1>2, EventsOfTail
<1> QED
  BY <1>3, QueuedInQueues

\* A step after which some process has not recovered, or a call failed, has
\* nothing to show; one before which all had keeps what was kept.
LEMMA BootKeeps ==
    ASSUME TypeOK, RowInv, DoneInv, ClaimsLeft, faults = 0,
           NEW p \in Procs, RecoverList(p), NEW e \in acked,
           \A x \in Procs : up'[x] = "ready"
    PROVE  Kept(e)'
<1>1. UNCHANGED <<status, marker, dead, http, acked>> /\ e \in Events /\ HasRow(e)
  BY DEF RecoverList, db, TypeOK, RowInv
<1>5. PastTheLimit \cup {x \in leftOut : status[x] = "processing"} = leftOut'
  BY DEF RecoverList
<1>2. CASE e \in Recoverable \ PastTheLimit
  <2>0. PICK n \in 0..RecoverLimit : \E es \in [1..n -> Recoverable] :
           /\ Listing(es)
           /\ queue' = [queue EXCEPT ![p] = @ \o [i \in 1..n |-> NewItem(es[i])]]
    BY DEF RecoverList
  <2>1. PICK es \in [1..n -> Recoverable] :
           /\ Listing(es)
           /\ queue' = [queue EXCEPT ![p] = @ \o [i \in 1..n |-> NewItem(es[i])]]
    BY <2>0
  <2>2. PICK i \in 1..n : es[i] = e
    BY <1>2, <2>1, ListingIsComplete
  <2> DEFINE s == [j \in 1..n |-> NewItem(es[j])]
  <2>3. n \in Nat /\ es \in [1..n -> Events]
    BY <2>1, BoundsAssumption DEF Recoverable
  <2>4. s \in Seq(Item)
    BY <2>3, ListedItems
  <2>5. e \in EventsOf(s)
    BY <2>2 DEF EventsOf, NewItem
  <2>6. queue[p] \in Seq(Item) /\ queue'[p] = queue[p] \o s
    BY <2>1 DEF TypeOK
  <2> HIDE DEF s
  <2>7. e \in EventsOf(queue'[p])
    BY <2>4, <2>5, <2>6, EventsOfConcat
  <2> QED
    BY <2>7 DEF Kept, Queued, EventsOf
<1>3. CASE status[e] = "processed"
  BY <1>1, <1>3 DEF DoneInv, Kept
<1>4. CASE status[e] = "processing"
  <2>1. \A x \in Procs : up[x] \in {"list", "ready"}
    BY DEF RecoverList, TypeOK
  <2>2. e \in leftOut \/ \E x \in Procs : Holds(x, e)
    BY <1>1, <1>4, <2>1 DEF ClaimsLeft
  <2>3. ASSUME NEW x \in Procs, Holds(x, e) PROVE Queued(e)'
    <3>1. Queued(e)
      BY <2>3, HeldIsQueued
    <3>2. PICK s \in Seq(Item) : queue' = [queue EXCEPT ![p] = @ \o s]
      BY RecoverListAppends
    <3>3. queue[p] \in Seq(Item) /\ queue'[p] = queue[p] \o s
      BY <3>2 DEF TypeOK
    <3>4. EventsOf(queue[p]) \subseteq EventsOf(queue'[p])
      BY <3>2, <3>3, EventsOfConcat
    <3>5. \A y \in Procs : EventsOf(queue[y]) \subseteq EventsOf(queue'[y])
      BY <3>2, <3>4 DEF TypeOK
    <3>6. \/ \E y \in Procs : e \in EventsOf(queue'[y])
          \/ \E r \in http' : r.event = e /\ r.at = "enqueue"
      BY <1>1, <3>1, <3>5, QueuedInQueues
    <3> QED
      BY <3>6 DEF Queued, EventsOf
  <2> QED
    BY <1>4, <1>5, <2>2, <2>3 DEF Kept
<1>6. CASE e \in PastTheLimit
  BY <1>5, <1>6 DEF Kept
<1> QED
  BY <1>1, <1>2, <1>3, <1>4, <1>6 DEF TypeOK, Status, HasRow, Recoverable

\* An attempt drops its event only into the marker or the dead letter.
LEMMA WorkerKeeps ==
    ASSUME TypeOK, RowInv, DoneInv, ClaimsLeft, NEW p \in Procs, WorkerStep(p),
           faults = 0, \A x \in Procs : up[x] = "ready", NEW e \in acked, Kept(e)
    PROVE  Kept(e)'
<1>1. queue[p] \in Seq(Item) /\ e \in Events
  BY DEF TypeOK
<1>2. /\ marker \subseteq marker' /\ dead \subseteq dead' /\ UNCHANGED <<http, leftOut>>
      /\ \A x \in Procs \ {p} : queue'[x] = queue[x]
  BY DEF TypeOK, WorkerStep, StartJob, Claim, Body, MarkProcessed, MarkFailed, RetryTimer,
         MarkInDb, AfterFailure, Abandon, Drop, db
<1>0. Queued(e)' <=> \/ \E x \in Procs : e \in EventsOf(queue'[x])
                     \/ \E r \in http' : r.event = e /\ r.at = "enqueue"
  BY DEF Queued, EventsOf
\* e is in what is left of the queue of p, or was its head
<1>3. ASSUME queue[p] # <<>>, queue'[p] = Tail(queue[p]), e # Current(p), Queued(e)
      PROVE  Queued(e)'
  <2>1. \A f \in EventsOf(queue[p]) : f = Head(queue[p]).event \/ f \in EventsOf(Tail(queue[p]))
    BY <1>1, <1>3, EventsOfHead
  <2>2. \/ \E x \in Procs : e \in EventsOf(queue[x])
        \/ \E r \in http : r.event = e /\ r.at = "enqueue"
    BY <1>3, QueuedInQueues
  <2>3. \A x \in Procs : e \in EventsOf(queue[x]) => e \in EventsOf(queue'[x])
    BY <1>2, <1>3, <2>1 DEF Current
  <2> QED
    BY <1>2, <1>0, <2>2, <2>3
<1>4. CASE queue' = queue
  BY <1>2, <1>4 DEF Kept, Queued
<1>5. CASE StartJob(p) \/ Claim(p)
  <2>1. queue[p] # <<>>
    BY <1>5 DEF TypeOK, StartJob, Claim
  <2>2. Current(p) \in Events
    BY <2>1, CurrentHasRow
  <2>4. CASE Drop(p)
    <3>1. queue'[p] = Tail(queue[p])
      BY <2>4 DEF Drop, TypeOK
    <3>2. Current(p) \in marker \/ status[Current(p)] = "processing"
      BY <1>5, <2>2, <2>4 DEF StartJob, Claim, Refused, DoneInv, TypeOK, Drop
    <3>3. ASSUME e = Current(p), status[e] = "processing", e \notin leftOut
          PROVE  Queued(e)'
      <4>1. PICK x \in Procs : Holds(x, e)
        BY <1>1, <3>3 DEF ClaimsLeft
      <4>2. x # p
        BY <1>5, <4>1 DEF Holds, StartJob, Claim
      <4>3. e \in EventsOf(queue[x])
        <5>1. queue[x] \in Seq(Item) /\ queue[x] # <<>> /\ Head(queue[x]).event = e
          BY <4>1 DEF TypeOK, Holds, Current
        <5> QED
          BY <5>1, EventsOfTail
      <4> QED
        BY <1>0, <1>2, <4>2, <4>3
    <3> QED
      BY <1>2, <1>3, <2>1, <3>1, <3>2, <3>3 DEF Kept
  <2> QED
    BY <1>4, <1>5, <2>4 DEF StartJob, Claim
<1>6. CASE MarkProcessed(p)
  <2>1. queue[p] # <<>> /\ queue'[p] = Tail(queue[p]) /\ Current(p) \in marker'
    BY <1>6 DEF TypeOK, MarkProcessed, MarkInDb, Drop
  <2> QED
    BY <1>2, <1>3, <2>1 DEF Kept
<1>7. CASE MarkFailed(p)
  <2>1. queue[p] # <<>>
    BY <1>7 DEF TypeOK, MarkFailed
  <2>2. Current(p) \in Events /\ Head(queue[p]).event = Current(p) /\ Current(p) \in EventsOf(queue[p])
    BY <1>1, <2>1, CurrentHasRow, EventsOfTail DEF Current
  <2>4. CASE Abandon(p)
    <3>1. queue'[p] = Tail(queue[p]) /\ Current(p) \in dead'
      BY <2>4 DEF Abandon, Drop, TypeOK
    <3> QED
      BY <1>2, <1>3, <2>1, <3>1 DEF Kept
  <2>5. CASE ~Abandon(p)
    <3> DEFINE item == [event |-> Current(p), attempts |-> Head(queue[p]).attempts + 1]
    <3>1. queue'[p] = <<item>> \o Tail(queue[p])
      BY <1>7, <2>5 DEF MarkFailed, AfterFailure, TypeOK
    <3>2. Head(queue[p]).attempts + 1 \in Nat
      BY <1>1, <2>1, TailOfQueue
    <3>3. item \in Item /\ item.event = Head(queue[p]).event
      BY <2>2, <3>2 DEF Item
    <3> HIDE DEF item
    <3>4. EventsOf(queue'[p]) = EventsOf(queue[p])
      BY <1>1, <2>1, <3>1, <3>3, EventsOfAttempt
    <3>5. \A x \in Procs : EventsOf(queue'[x]) = EventsOf(queue[x])
      BY <1>2, <3>4
    <3>6. e = Current(p) => e \in EventsOf(queue'[p])
      BY <2>2, <3>4
    <3> QED
      BY <1>0, <1>2, <3>5, <3>6, QueuedInQueues DEF Kept
  <2> QED
    BY <2>4, <2>5
<1>8. CASE Body(p) \/ RetryTimer(p)
  BY <1>4, <1>8 DEF Body, RetryTimer, db
<1> QED
  BY <1>5, <1>6, <1>7, <1>8 DEF WorkerStep

\* A request queues what it acknowledges, unless it is done.
LEMMA HttpKeeps ==
    ASSUME TypeOK, RowInv, DoneInv, NEW r \in http, HttpStep(r),
           \A e \in acked : Kept(e)
    PROVE  \A e \in acked' : Kept(e)'
<1>1. r.event \in Events /\ r.proc \in Procs /\ \A x \in Procs : queue[x] \in Seq(Item)
  BY DEF TypeOK, Request
<1>2. UNCHANGED <<marker, dead>>
  BY DEF HttpStep, HttpFind, HttpLookup, HttpCreate, Enqueue, db
<1>3. leftOut \subseteq Events
  BY DEF TypeOK
<1>4. acked \subseteq Events
  BY DEF TypeOK
<1>5. ASSUME NEW e \in Events, Queued(e)
      PROVE  Queued(e)'
  <2>1. CASE Enqueue(r)
    <3>1. NewItem(r.event) \in Item /\ NewItem(r.event).event = r.event
      BY <1>1 DEF NewItem, Item
    <3>2. EventsOf(queue'[r.proc]) = EventsOf(queue[r.proc]) \cup {r.event}
      BY <1>1, <2>1, <3>1, EventsOfAppend DEF Enqueue, TypeOK
    <3>3. \A x \in Procs : EventsOf(queue[x]) \subseteq EventsOf(queue'[x])
      BY <1>1, <2>1, <3>2 DEF Enqueue, TypeOK
    <3>4. http' = http \ {r}
      BY <2>1 DEF Enqueue
    <3>5. \/ \E x \in Procs : e \in EventsOf(queue'[x])
          \/ \E x \in http' : x.event = e /\ x.at = "enqueue"
      BY <1>1, <1>5, <3>2, <3>3, <3>4, QueuedInQueues
    <3> QED
      BY <3>5 DEF Queued, EventsOf
  <2>2. CASE r.at # "enqueue"
    <3>1. UNCHANGED queue /\ http \ {r} \subseteq http'
      BY <2>2 DEF HttpStep, HttpFind, HttpLookup, HttpCreate, Enqueue, AckDuplicate, AckAndQueue, GoTo
    <3> QED
      BY <1>5, <2>2, <3>1 DEF Queued
  <2> QED
    BY <2>1, <2>2 DEF HttpStep, HttpFind, HttpLookup, HttpCreate, Enqueue
<1>7. ASSUME NEW e \in leftOut
      PROVE  e \in leftOut' \/ Queued(e)'
  <2>1. CASE Enqueue(r) /\ e = r.event
    <3>1. NewItem(r.event) \in Item /\ NewItem(r.event).event = r.event
      BY <1>1 DEF NewItem, Item
    <3>2. e \in EventsOf(queue'[r.proc])
      BY <1>1, <2>1, <3>1, EventsOfAppend DEF Enqueue, TypeOK
    <3> QED
      BY <1>1, <3>2 DEF Queued, EventsOf
  <2>2. CASE ~(Enqueue(r) /\ e = r.event)
    BY <1>7, <2>2 DEF HttpStep, HttpFind, HttpLookup, HttpCreate, Enqueue
  <2> QED
    BY <2>1, <2>2
<1>6. ASSUME NEW e \in acked', e \notin acked
      PROVE  e = r.event /\ Kept(e)'
  <2>1. CASE AckAndQueue(r)
    <3>1. [r EXCEPT !.at = "enqueue"] \in http' /\ e = r.event
      BY <1>6, <2>1 DEF AckAndQueue, Ack, GoTo
    <3>2. [r EXCEPT !.at = "enqueue"].event = r.event /\ [r EXCEPT !.at = "enqueue"].at = "enqueue"
      BY DEF TypeOK, Request
    <3> QED
      BY <3>1, <3>2 DEF Kept, Queued
  <2>2. CASE AckDuplicate(r) /\ r.event \in marker
    BY <1>2, <1>6, <2>2 DEF AckDuplicate, Ack, Kept
  <2> QED
    BY <1>1, <1>6, <2>1, <2>2 DEF HttpStep, HttpFind, HttpLookup, HttpCreate, Enqueue, DoneInv
<1> QED
  BY <1>2, <1>3, <1>4, <1>5, <1>6, <1>7 DEF Kept

LEMMA NothingForgottenNext ==
    TypeOK /\ RowInv /\ DoneInv /\ ClaimsLeft /\ NothingForgotten /\ [Next]_vars
        => NothingForgotten'
<1> SUFFICES ASSUME TypeOK, RowInv, DoneInv, ClaimsLeft, NothingForgotten, [Next]_vars,
                    faults' = 0, \A p \in Procs : up'[p] = "ready"
             PROVE  \A e \in acked' : Kept(e)'
  BY DEF NothingForgotten, Kept
\* these steps leave a failed call or a process that has not recovered
<1>1. ASSUME NEW p \in Procs,
             \/ FaultStep(p) \/ RecoverReset(p) \/ Start(p) \/ Crash(p)
      PROVE  FALSE
  BY <1>1 DEF FaultStep, MarkProcessedFault, MarkFailedFault, ClaimFault, RecoverFault, Fault,
              RecoverReset, Start, Crash, TypeOK
<1>2. ASSUME NEW r \in http, HttpFault(r) PROVE FALSE
  BY <1>2 DEF HttpFault, Fault, TypeOK
<1>3. ASSUME NEW p \in Procs, RecoverList(p) PROVE \A e \in acked' : Kept(e)'
  <2>1. acked' = acked /\ faults = 0
    BY <1>3 DEF RecoverList, env
  <2> QED
    BY <1>3, <2>1, BootKeeps
\* the others find every process recovered
<1>4. ASSUME UNCHANGED <<up, faults>> PROVE \A e \in acked : Kept(e)
  BY <1>4 DEF NothingForgotten, Kept
<1>5. ASSUME NEW r \in http, HttpStep(r) PROVE \A e \in acked' : Kept(e)'
  <2>1. UNCHANGED <<up, faults>>
    BY <1>5 DEF HttpStep, HttpFind, HttpLookup, HttpCreate, Enqueue, env
  <2> QED
    BY <1>4, <1>5, <2>1, HttpKeeps
<1>6. ASSUME NEW p \in Procs, WorkerStep(p) PROVE \A e \in acked' : Kept(e)'
  <2>1. UNCHANGED <<up, faults, acked>>
    BY <1>6 DEF WorkerStep, StartJob, Claim, Body, MarkProcessed, MarkFailed, RetryTimer, env
  <2> QED
    BY <1>4, <1>6, <2>1, WorkerKeeps
<1>7. ASSUME NEW d \in Deliveries, NEW e \in Events, NEW p \in Procs, Deliver(d, e, p)
      PROVE  \A x \in acked' : Kept(x)'
  <2>1. UNCHANGED <<up, faults, acked, queue, status, marker, dead, leftOut>> /\ http \subseteq http'
    BY <1>7 DEF Deliver, db
  <2> QED
    BY <1>4, <2>1 DEF Kept, Queued
<1>8. ASSUME NEW e \in Events, Age(e) PROVE \A x \in acked' : Kept(x)'
  <2>1. UNCHANGED <<up, faults, acked, queue, http, status, marker, dead, leftOut>>
    BY <1>8 DEF Age, env
  <2> QED
    BY <1>4, <2>1 DEF Kept, Queued
<1>9. CASE UNCHANGED vars
  <2>1. UNCHANGED <<up, faults, acked, queue, http, status, marker, dead, leftOut>>
    BY <1>9 DEF vars
  <2> QED
    BY <1>4, <2>1 DEF Kept, Queued
<1> QED
  BY <1>1, <1>2, <1>3, <1>5, <1>6, <1>7, <1>8, <1>9 DEF Next, RecoverStep

\* In every run without a failing call, whenever all processes have recovered,
\* an acknowledged event is marked, dead-lettered or queued, or is a row that the
\* latest recovery could not take over: a claim younger than five minutes, or a
\* row with as many older ones before it as the query reads.  What a crash takes
\* from memory the next boot reads back, for any number of processes and events
\* (webhookQueue.js:117-140).
THEOREM NothingIsForgotten ==
    Spec => []NothingForgotten
<1>1. Init => NothingForgotten
  BY DEF Init, NothingForgotten
<1>2. Spec => []DoneInv
  BY RowsHold, DoneInit, DoneNext, PTL DEF Spec
<1>3. Init => ClaimsLeft
  BY DEF Init, ClaimsLeft
<1>4. Spec => []ClaimsLeft
  BY <1>3, RowsHold, ClaimsLeftNext, PTL DEF Spec
<1> QED
  BY <1>1, <1>2, <1>4, RowsHold, NothingForgottenNext, PTL DEF Spec

-----------------------------------------------------------------------------
(***************************************************************************)
(* WebhookInbox implements EventDelivery: every step of the queue, the     *)
(* claim, the crashes and the recovery is a step of the promise or leaves  *)
(* it unchanged.  With several processes it does as long as no row goes    *)
(* stale while it is worked on: a starting process would reset it, and the *)
(* body could be committed again after the event is done.                  *)
(***************************************************************************)
\* No worker runs the body of a marked event.
BodyInv == \A p \in Procs : job[p] = "body" => Current(p) \notin marker

LEMMA SoloInit == Init => BodyInv
BY DEF Init, BodyInv

LEMMA SoloNext ==
    ASSUME \A p, q \in Procs : p = q
    PROVE  TypeOK /\ BodyInv /\ [Next]_vars => BodyInv'
<1> SUFFICES ASSUME TypeOK, BodyInv, [Next]_vars PROVE BodyInv'
  OBVIOUS
<1>1. ASSUME \A x \in Procs : job'[x] = "body" => Steady(x), UNCHANGED marker
      PROVE  BodyInv'
  BY <1>1 DEF BodyInv, Steady, TypeOK, Current
<1>2. ASSUME NEW r \in http, HttpStep(r) \/ HttpFault(r)
      PROVE  BodyInv'
  <2>1. UNCHANGED marker
    BY <1>2 DEF HttpStep, HttpFind, HttpLookup, HttpCreate, Enqueue, HttpFault, db
  <2> QED
    BY <1>1, <1>2, <2>1, HttpSteady
<1>3. ASSUME NEW p \in Procs, RecoverStep(p) \/ RecoverFault(p) \/ Start(p) \/ Crash(p)
      PROVE  BodyInv'
  <2>1. UNCHANGED marker
    BY <1>3 DEF RecoverStep, RecoverReset, RecoverList, RecoverFault, Start, Crash, db
  <2>2. \A x \in Procs : job'[x] = "body" => Steady(x)
    BY <1>3, RecoverSteady, CrashSteady
  <2> QED
    BY <1>1, <2>1, <2>2
<1>4. ASSUME NEW p \in Procs,
             \/ WorkerStep(p) \/ MarkProcessedFault(p)
             \/ MarkFailedFault(p) \/ ClaimFault(p)
      PROVE  BodyInv'
  <2>1. \A x \in Procs : x = p
    OBVIOUS
  <2>2. ASSUME job'[p] = "body"
        PROVE  ~Refused(Current(p)) /\ UNCHANGED <<queue, marker>>
    BY <1>4, <2>2 DEF TypeOK, WorkerStep, StartJob, Claim, Body, MarkProcessed, MarkFailed,
         RetryTimer, MarkProcessedFault, MarkFailedFault, ClaimFault, AfterFailure, Abandon,
         Drop, db
  <2> QED
    BY <2>1, <2>2 DEF BodyInv, Refused, Current
<1>5. ASSUME NEW d \in Deliveries, NEW e \in Events, NEW p \in Procs,
             Deliver(d, e, p)
      PROVE  BodyInv'
  BY <1>5 DEF Deliver, BodyInv, Current, db
<1>6. ASSUME NEW e \in Events, Age(e) PROVE BodyInv'
  BY <1>6 DEF Age, BodyInv, Current
<1>7. CASE UNCHANGED vars
  BY <1>7 DEF vars, BodyInv, Current
<1> QED
  BY <1>2, <1>3, <1>4, <1>5, <1>6, <1>7 DEF Next, FaultStep

LEMMA SoloHolds ==
    ASSUME \A p, q \in Procs : p = q
    PROVE  Spec => []BodyInv
BY TypeCorrect, SoloInit, SoloNext, PTL DEF Spec

-----------------------------------------------------------------------------
(***************************************************************************)
(* The refinement mapping, step by step.                                   *)
(***************************************************************************)

Owed == {e \in Events : HasRow(e)}

\* Only a request makes a row.
LEMMA WorkerOwed ==
    ASSUME TypeOK, RowInv, NEW p \in Procs,
           \/ WorkerStep(p) \/ MarkProcessedFault(p)
           \/ MarkFailedFault(p) \/ ClaimFault(p)
    PROVE  Owed' = Owed
<1>1. queue[p] # <<>> => Current(p) \in Events /\ HasRow(Current(p))
  BY CurrentHasRow
<1> QED
  BY <1>1 DEF TypeOK, HasRow, Owed, WorkerStep, StartJob, Claim, Body, MarkProcessed, MarkFailed,
       RetryTimer, MarkProcessedFault, MarkFailedFault, ClaimFault, SetProcessing, SetFailed,
       MarkInDb, db

LEMMA ProcessOwed ==
    ASSUME TypeOK, NEW p \in Procs, RecoverStep(p) \/ RecoverFault(p) \/ Start(p) \/ Crash(p)
    PROVE  Owed' = Owed
BY DEF TypeOK, RecoverStep, RecoverReset, RecoverList, RecoverFault, Start, Crash,
       Stale, HasRow, Owed, db

LEMMA PromiseInit == Init => Promise!Init
BY DEF Init, Promise!Init, HasRow

\* A request accepts an event, acknowledges one, or does nothing.
LEMMA HttpKeepsPromise ==
    ASSUME TypeOK, RowInv, NEW r \in http, HttpStep(r) \/ HttpFault(r)
    PROVE  [Promise!Next]_(Promise!vars)
<1>1. r.event \in Events
  BY DEF TypeOK, Request
<1>2. UNCHANGED <<effects, marker>>
  BY DEF HttpStep, HttpFind, HttpLookup, HttpCreate, HttpFault, Enqueue, db
<1>3. ASSUME UNCHANGED <<status, acked>>
      PROVE  [Promise!Next]_(Promise!vars)
  BY <1>2, <1>3 DEF Promise!vars, HasRow
<1>4. ASSUME UNCHANGED status, Ack(r), HasRow(r.event)
      PROVE  [Promise!Next]_(Promise!vars)
  <2>1. Promise!Acknowledge(r.event)
    BY <1>1, <1>2, <1>4 DEF Promise!Acknowledge, Ack, HasRow
  <2> QED
    BY <1>1, <2>1 DEF Promise!Next
<1>5. ASSUME ~HasRow(r.event), InsertRow(r.event), Ack(r) \/ UNCHANGED acked
      PROVE  [Promise!Next]_(Promise!vars)
  <2>1. Owed' = Owed \cup {r.event} /\ r.event \notin Owed
    BY <1>1, <1>5 DEF TypeOK, InsertRow, HasRow, Owed
  <2>2. Promise!Accept(r.event)
    BY <1>2, <1>5, <2>1 DEF Promise!Accept, Ack, Owed
  <2> QED
    BY <1>1, <2>2 DEF Promise!Next
<1>6. CASE HttpFind(r)
  <2>1. UNCHANGED status /\ (UNCHANGED acked \/ (Ack(r) /\ r.event \in marker))
    BY <1>6 DEF HttpFind, AckDuplicate, db
  <2> QED
    BY <1>3, <1>4, <2>1 DEF RowInv
<1>7. CASE HttpLookup(r)
  <2>1. UNCHANGED status /\ (UNCHANGED acked \/ (Ack(r) /\ HasRow(r.event)))
    BY <1>7 DEF HttpLookup, AckDuplicate, AckAndQueue, HasRow, db
  <2> QED
    BY <1>3, <1>4, <2>1
<1>8. CASE HttpCreate(r)
  BY <1>3, <1>5, <1>8 DEF HttpCreate, AckAndQueue
<1>9. CASE HttpFault(r)
  BY <1>3, <1>5, <1>9 DEF HttpFault
<1>10. CASE Enqueue(r)
  BY <1>3, <1>10 DEF Enqueue, db
<1> QED
  BY <1>6, <1>7, <1>8, <1>9, <1>10 DEF HttpStep

\* A worker applies an event that is owed and not done, or completes one that
\* was applied.
LEMMA WorkerKeepsPromise ==
    ASSUME TypeOK, RowInv, DoneInv, BodyInv, NEW p \in Procs,
           \/ WorkerStep(p) \/ MarkProcessedFault(p)
           \/ MarkFailedFault(p) \/ ClaimFault(p)
    PROVE  [Promise!Next]_(Promise!vars)
<1>1. UNCHANGED acked
  BY WorkerEvents
<1>2. queue[p] # <<>> => Current(p) \in Events /\ HasRow(Current(p))
  BY CurrentHasRow
<1>3. Owed' = Owed
  BY WorkerOwed
<1>4. ASSUME UNCHANGED <<effects, marker>>
      PROVE  [Promise!Next]_(Promise!vars)
  BY <1>1, <1>3, <1>4 DEF Promise!vars, Owed
<1>5. CASE Body(p)
  <2>1. /\ Current(p) \in Owed \ marker /\ UNCHANGED marker
        /\ UNCHANGED effects \/ Committed(Current(p))
    BY <1>2, <1>5 DEF TypeOK, Body, BodyInv, Owed, db
  <2>2. Committed(Current(p)) => Promise!Apply(Current(p))
    BY <1>1, <1>3, <2>1 DEF Promise!Apply, Committed, Owed
  <2> QED
    BY <1>4, <2>1, <2>2 DEF Promise!Next, Owed
<1>6. CASE MarkProcessed(p) \/ MarkProcessedFault(p)
  <2>1. /\ Current(p) \in Events /\ effects[Current(p)] > 0 /\ UNCHANGED effects
        /\ UNCHANGED marker \/ marker' = marker \cup {Current(p)}
    BY <1>2, <1>6 DEF TypeOK, MarkProcessed, MarkProcessedFault, MarkInDb, DoneInv
  <2>2. marker' = marker \cup {Current(p)} => Promise!Complete(Current(p))
    BY <1>1, <1>3, <2>1 DEF Promise!Complete, Owed
  <2> QED
    BY <1>4, <2>1, <2>2 DEF Promise!Next
<1>7. CASE \/ StartJob(p) \/ Claim(p) \/ MarkFailed(p) \/ RetryTimer(p)
           \/ MarkFailedFault(p) \/ ClaimFault(p)
  BY <1>4, <1>7 DEF StartJob, Claim, MarkFailed, RetryTimer, MarkFailedFault, ClaimFault, db
<1> QED
  BY <1>5, <1>6, <1>7 DEF WorkerStep

LEMMA PromiseNext ==
    TypeOK /\ RowInv /\ DoneInv /\ BodyInv /\ [Next]_vars => [Promise!Next]_(Promise!vars)
<1> SUFFICES ASSUME TypeOK, RowInv, DoneInv, BodyInv, [Next]_vars
             PROVE  [Promise!Next]_(Promise!vars)
  OBVIOUS
<1>1. ASSUME Owed' = Owed, UNCHANGED <<acked, effects, marker>>
      PROVE  [Promise!Next]_(Promise!vars)
  BY <1>1 DEF Promise!vars, Owed
<1>2. ASSUME NEW p \in Procs, RecoverStep(p) \/ RecoverFault(p) \/ Start(p) \/ Crash(p)
      PROVE  [Promise!Next]_(Promise!vars)
  <2>1. UNCHANGED <<acked, effects, marker>>
    BY <1>2 DEF RecoverStep, RecoverReset, RecoverList, RecoverFault, Start, Crash, db
  <2>2. Owed' = Owed
    BY <1>2, ProcessOwed
  <2> QED
    BY <1>1, <2>1, <2>2
<1>3. ASSUME NEW d \in Deliveries, NEW e \in Events, NEW p \in Procs, Deliver(d, e, p)
      PROVE  [Promise!Next]_(Promise!vars)
  BY <1>1, <1>3 DEF Deliver, Owed, HasRow, db
<1>4. ASSUME NEW e \in Events, Age(e)
      PROVE  [Promise!Next]_(Promise!vars)
  BY <1>1, <1>4 DEF Age, Owed, HasRow
<1>5. CASE UNCHANGED vars
  BY <1>1, <1>5 DEF vars, Owed, HasRow
<1> QED
  BY <1>2, <1>3, <1>4, <1>5, HttpKeepsPromise, WorkerKeepsPromise DEF Next, FaultStep

LEMMA PromiseHolds == Spec /\ []BodyInv => KeepsPromise
<1>1. Spec => []DoneInv
  BY RowsHold, DoneInit, DoneNext, PTL DEF Spec
<1> QED
  BY <1>1, RowsHold, PromiseInit, PromiseNext, PTL DEF Spec, KeepsPromise, Promise!Spec

\* One process keeps the promise of EventDelivery for any number of events,
\* deliveries, attempts, crashes and failing calls: accepted before it is
\* acknowledged, applied at least once before it is done, never after.
THEOREM OneProcessKeepsPromise ==
    ASSUME \A p, q \in Procs : p = q
    PROVE  Spec => KeepsPromise
BY SoloHolds, PromiseHolds, PTL

\* A body that runs is of an event whose row is not yet stale: it was received
\* less than STALE_PROCESSING_MS ago.
FreshAtWork == \A p \in Procs : job[p] = "body" => Current(p) \notin aged

\* Any number of processes keep the promise together, through every overlap of
\* a deploy, as long as no row goes stale before its body was run: the claim
\* alone is what keeps them apart.
THEOREM FreshRowsKeepPromise == Spec /\ []FreshAtWork => KeepsPromise
<1>1. ClaimInv /\ FreshAtWork => BodyInv
  BY DEF ClaimInv, FreshAtWork, BodyInv
<1> QED
  BY <1>1, ClaimHolds, PromiseHolds, PTL

-----------------------------------------------------------------------------
(***************************************************************************)
(* WebhookInbox implements EventClaims: who holds what, and when.          *)
(***************************************************************************)

Waiting == {e \in Events : HasRow(e)} \ marker
Held    == {c \in Procs \X Events : Holds(c[1], c[2])}

LEMMA HeldBy ==
    ASSUME NEW x \in Procs, NEW e \in Events
    PROVE  <<x, e>> \in Held <=> job[x] \in Working /\ Current(x) = e
BY DEF Held, Holds, Working

LEMMA SteadyHolds ==
    ASSUME TypeOK, NEW x \in Procs, Steady(x)
    PROVE  \A e \in Events : Holds(x, e)' <=> Holds(x, e)
BY DEF TypeOK, Steady, Holds, Current

LEMMA AllSteady ==
    ASSUME TypeOK, \A x \in Procs : Steady(x)
    PROVE  Held' = Held
BY SteadyHolds DEF Held

\* What a step of one worker does to the claims.
LEMMA OneMoves ==
    ASSUME TypeOK, NEW p \in Procs, \A x \in Procs \ {p} : Steady(x)
    PROVE  /\ (/\ job[p] \in Working /\ job'[p] \in Working
               /\ Current(p)' = Current(p)) => Held' = Held
           /\ (job[p] \notin Working /\ job'[p] \notin Working) => Held' = Held
           /\ (job[p] \in Working /\ job'[p] \notin Working) =>
                 Held' = Held \ {<<p, Current(p)>>}
           /\ (job[p] \notin Working /\ job'[p] \in Working /\ Current(p)' \in Events) =>
                 Held' = Held \cup {<<p, Current(p)'>>}
<1>1. \A x \in Procs \ {p} : \A e \in Events : Holds(x, e)' <=> Holds(x, e)
  BY SteadyHolds
<1>2. \A e \in Events : Holds(p, e) <=> job[p] \in Working /\ Current(p) = e
  BY DEF Holds, Working
<1>3. \A e \in Events : Holds(p, e)' <=> job'[p] \in Working /\ Current(p)' = e
  BY DEF Holds, Working
<1> QED
  BY <1>1, <1>2, <1>3 DEF Held

LEMMA NothingClaimed ==
    ASSUME Waiting' = Waiting, Held' = Held, UNCHANGED aged
    PROVE  [Claims!Next]_(Claims!vars)
BY DEF Claims!vars, Waiting, Held

LEMMA HttpKeepsClaims ==
    ASSUME TypeOK, RowInv, NEW r \in http, HttpStep(r) \/ HttpFault(r)
    PROVE  [Claims!Next]_(Claims!vars)
<1>1. Held' = Held
  BY HttpSteady, AllSteady
<1>2. UNCHANGED <<marker, aged>> /\ r.event \in Events
  BY DEF TypeOK, Request, HttpStep, HttpFind, HttpLookup, HttpCreate, HttpFault, Enqueue, db
<1>3. CASE UNCHANGED status
  BY <1>1, <1>2, <1>3, NothingClaimed DEF Waiting, HasRow
<1>4. CASE ~HasRow(r.event) /\ InsertRow(r.event)
  <2>1. r.event \notin marker
    BY <1>4 DEF RowInv
  <2>2. Waiting' = Waiting \cup {r.event}
    BY <1>2, <1>4, <2>1 DEF TypeOK, InsertRow, HasRow, Waiting
  <2>3. Claims!Receive(r.event)
    BY <1>1, <1>2, <2>2 DEF Claims!Receive, Waiting, Held
  <2> QED
    BY <1>2, <2>3 DEF Claims!Next
<1> QED
  BY <1>3, <1>4 DEF HttpStep, HttpFind, HttpLookup, HttpCreate, HttpFault, Enqueue, db

LEMMA WorkerKeepsClaims ==
    ASSUME TypeOK, RowInv, ClaimInv, NEW p \in Procs,
           \/ WorkerStep(p) \/ MarkProcessedFault(p)
           \/ MarkFailedFault(p) \/ ClaimFault(p)
    PROVE  [Claims!Next]_(Claims!vars)
<1>1. \A x \in Procs \ {p} : Steady(x)
  BY WorkerSteady
<1>2. Owed' = Owed
  BY WorkerOwed
<1>3. UNCHANGED aged
  BY DEF WorkerStep, StartJob, Claim, Body, MarkProcessed, MarkFailed, RetryTimer,
         MarkProcessedFault, MarkFailedFault, ClaimFault, db
<1>4. UNCHANGED marker => Waiting' = Waiting
  BY <1>2 DEF Waiting, Owed
<1>5. queue[p] # <<>> => Current(p) \in Events /\ HasRow(Current(p))
  BY CurrentHasRow
<1>6. CASE Claim(p) /\ ~Refused(Current(p))
  <2>1. PICK e \in Events : e = Current(p) /\ HasRow(e)
    BY <1>5, <1>6 DEF TypeOK, Claim
  <2>2. /\ job[p] = "claim" /\ job'[p] = "body" /\ Current(p)' = Current(p)
        /\ UNCHANGED marker
    BY <1>6 DEF TypeOK, Claim, Current
  <2>3. Held' = Held \cup {<<p, e>>}
    BY <1>1, <2>1, <2>2, OneMoves DEF Working
  <2>4. e \in Waiting
    BY <1>6, <2>1 DEF Waiting, Refused
  <2>5. \A x \in Events : <<p, x>> \notin Held
    BY <2>2, HeldBy DEF Working
  <2>6. e \in aged \/ \A x \in Procs : <<x, e>> \notin Held
    BY <1>6, <2>1, HeldBy DEF ClaimInv
  <2>7. Claims!Claim(p, e)
    BY <1>3, <1>4, <2>2, <2>3, <2>4, <2>5, <2>6 DEF Claims!Claim, Waiting, Held
  <2> QED
    BY <2>7 DEF Claims!Next
<1>7. CASE MarkProcessed(p) \/ MarkProcessedFault(p)
  <2>1. PICK e \in Events : e = Current(p)
    BY <1>5, <1>7 DEF TypeOK, MarkProcessed, MarkProcessedFault
  <2>2. job[p] = "mark" /\ job'[p] \in {"idle", "failFatal"}
    BY <1>7 DEF TypeOK, MarkProcessed, MarkProcessedFault, Drop
  <2>3. <<p, e>> \in Held
    BY <2>1, <2>2, HeldBy DEF Working
  <2>4. Held' \in {Held, Held \ {<<p, e>>}}
    <3>1. CASE job'[p] = "idle"
      BY <1>1, <2>1, <2>2, <3>1, OneMoves DEF Working
    <3>2. CASE job'[p] = "failFatal"
      <4>1. Current(p)' = Current(p)
        BY <1>7, <3>2 DEF TypeOK, MarkProcessed, MarkProcessedFault, Drop, Current
      <4> QED
        BY <1>1, <2>2, <3>2, <4>1, OneMoves DEF Working
    <3> QED
      BY <2>2, <3>1, <3>2
  <2>5. CASE MarkInDb(e)
    <3>1. Waiting' = Waiting \ {e}
      BY <1>2, <2>5 DEF MarkInDb, Waiting, Owed
    <3>2. Claims!Settle(p, e)
      BY <1>3, <2>3, <2>4, <3>1 DEF Claims!Settle, Waiting, Held
    <3> QED
      BY <3>2 DEF Claims!Next
  <2>6. CASE UNCHANGED marker /\ MarkProcessedFault(p)
    <3>1. job'[p] = "failFatal" /\ Current(p)' = Current(p)
      BY <2>6 DEF TypeOK, MarkProcessedFault, Current
    <3>2. Held' = Held
      BY <1>1, <2>2, <3>1, OneMoves DEF Working
    <3> QED
      BY <1>3, <1>4, <2>6, <3>2, NothingClaimed
  <2> QED
    BY <1>7, <2>1, <2>5, <2>6 DEF MarkProcessed, MarkProcessedFault
<1>8. CASE MarkFailed(p) \/ MarkFailedFault(p)
  <2>1. PICK e \in Events : e = Current(p)
    BY <1>5, <1>8 DEF TypeOK, MarkFailed, MarkFailedFault
  <2>2. /\ job[p] \in {"failRetry", "failFatal"} /\ job'[p] \in {"idle", "wait"}
        /\ UNCHANGED marker
    BY <1>8 DEF TypeOK, MarkFailed, MarkFailedFault, AfterFailure, Abandon, Drop, db
  <2>3. Held' = Held \ {<<p, e>>}
    BY <1>1, <2>1, <2>2, OneMoves DEF Working
  <2>4. Claims!Release(p, e)
    BY <1>3, <1>4, <2>2, <2>3 DEF Claims!Release, Waiting, Held
  <2> QED
    BY <2>4 DEF Claims!Next
<1>9. CASE Body(p)
  <2>1. /\ job[p] = "body" /\ job'[p] \in Working /\ Current(p)' = Current(p)
        /\ UNCHANGED marker
    BY <1>9 DEF TypeOK, Body, Working, Current, db
  <2>2. Held' = Held
    BY <1>1, <2>1, OneMoves DEF Working
  <2> QED
    BY <1>3, <1>4, <2>1, <2>2, NothingClaimed
<1>10. CASE \/ StartJob(p) \/ (Claim(p) /\ Refused(Current(p))) \/ RetryTimer(p)
            \/ ClaimFault(p)
  <2>1. job[p] \notin Working /\ job'[p] \notin Working /\ UNCHANGED marker
    BY <1>10 DEF TypeOK, StartJob, Claim, RetryTimer, ClaimFault, Abandon, Drop, Working, db
  <2>2. Held' = Held
    BY <1>1, <2>1, OneMoves
  <2> QED
    BY <1>3, <1>4, <2>1, <2>2, NothingClaimed
<1> QED
  BY <1>6, <1>7, <1>8, <1>9, <1>10 DEF WorkerStep

LEMMA ProcessKeepsClaims ==
    ASSUME TypeOK, RowInv, NEW p \in Procs,
           RecoverStep(p) \/ RecoverFault(p) \/ Start(p) \/ Crash(p)
    PROVE  [Claims!Next]_(Claims!vars)
<1>1. Owed' = Owed /\ UNCHANGED <<marker, aged>>
  BY ProcessOwed DEF RecoverStep, RecoverReset, RecoverList, RecoverFault, Start, Crash, db
<1>2. Waiting' = Waiting
  BY <1>1 DEF Waiting, Owed
<1>3. CASE RecoverStep(p) \/ RecoverFault(p) \/ Start(p)
  BY <1>1, <1>2, <1>3, RecoverSteady, AllSteady, NothingClaimed
<1>4. CASE Crash(p)
  <2>1. (\A x \in Procs \ {p} : Steady(x)) /\ job'[p] \notin Working
    BY <1>4, CrashSteady DEF Working
  <2>2. CASE job[p] \in Working
    <3>1. PICK e \in Events : e = Current(p)
      BY <2>2, CurrentHasRow DEF TypeOK, Working
    <3>2. Held' = Held \ {<<p, e>>}
      BY <2>1, <2>2, <3>1, OneMoves
    <3>3. Claims!Release(p, e)
      BY <1>1, <1>2, <3>2 DEF Claims!Release, Waiting, Held
    <3> QED
      BY <3>3 DEF Claims!Next
  <2>3. CASE job[p] \notin Working
    BY <1>1, <1>2, <2>1, <2>3, OneMoves, NothingClaimed
  <2> QED
    BY <2>2, <2>3
<1> QED
  BY <1>3, <1>4

LEMMA ClaimsNext ==
    TypeOK /\ RowInv /\ ClaimInv /\ [Next]_vars => [Claims!Next]_(Claims!vars)
<1> SUFFICES ASSUME TypeOK, RowInv, ClaimInv, [Next]_vars
             PROVE  [Claims!Next]_(Claims!vars)
  OBVIOUS
<1>1. ASSUME UNCHANGED <<status, marker, queue, job>>
      PROVE  Waiting' = Waiting /\ Held' = Held
  BY <1>1 DEF Waiting, HasRow, Held, Holds, Current
<1>2. ASSUME NEW d \in Deliveries, NEW e \in Events, NEW p \in Procs, Deliver(d, e, p)
      PROVE  [Claims!Next]_(Claims!vars)
  BY <1>1, <1>2, NothingClaimed DEF Deliver, db
<1>3. ASSUME NEW e \in Events, Age(e)
      PROVE  [Claims!Next]_(Claims!vars)
  <2>1. Claims!Outlive(e)
    BY <1>1, <1>3 DEF Age, Claims!Outlive, Waiting, Held
  <2> QED
    BY <2>1 DEF Claims!Next
<1>4. CASE UNCHANGED vars
  BY <1>1, <1>4, NothingClaimed DEF vars
<1> QED
  BY <1>2, <1>3, <1>4, HttpKeepsClaims, WorkerKeepsClaims, ProcessKeepsClaims
     DEF Next, FaultStep

LEMMA ClaimsInit == Init => Claims!Init
BY DEF Init, Claims!Init, HasRow, Holds

\* Any number of processes share out the events as EventClaims has it, through
\* crashes, faults, redeliveries, retries and boots: only an event that waits is
\* claimed, by one worker at a time unless its row is stale, and only its holder
\* settles it.  This is what MultaCase takes for granted.
THEOREM InboxKeepsClaims == Spec => KeepsClaims
BY RowsHold, ClaimHolds, ClaimsInit, ClaimsNext, PTL DEF Spec, KeepsClaims, Claims!Spec
=============================================================================
