---------------------------- MODULE WebhookInbox ----------------------------
(***************************************************************************)
(* The durable path of a Stripe webhook: the HTTP handler that persists an *)
(* event in StripeWebhookInbox before the 200, the in-memory queue each    *)
(* Node process drains one item at a time, the claim / process / mark      *)
(* protocol against the database, and the recovery a process runs once,    *)
(* after it starts to listen.                                              *)
(*                                                                         *)
(* Every await of the code is a boundary between two actions; what runs    *)
(* between two awaits is one action.  A database call that fails is a      *)
(* fault (at most MaxFaults of them); a failing transaction may have       *)
(* committed.  What the event body does to the business tables is          *)
(* abstracted to `effects`, the number of times it was committed.          *)
(***************************************************************************)
EXTENDS Naturals, Sequences, FiniteSets

CONSTANTS
    Procs,         \* Node processes (one, or two while a deploy rolls over)
    Events,        \* Stripe events, by event.id
    Deliveries,    \* the HTTP deliveries Stripe makes (bound of the model)
    MaxAttempts,   \* WebhookQueue.maxAttempts
    RecoverLimit,  \* the limit recovery gives to listRecoverableWebhookInboxes
    MaxCrashes,    \* bound: process exits
    MaxFaults      \* bound: database calls that fail

ASSUME BoundsAssumption ==
    /\ IsFiniteSet(Events)
    /\ MaxAttempts \in Nat \ {0}
    /\ RecoverLimit \in Nat
    /\ MaxCrashes \in Nat
    /\ MaxFaults \in Nat

VARIABLES
    status,      \* StripeWebhookInbox.status of each event, "none": no row
    receivedAt,  \* order in which the rows were created (0: no row)
    aged,        \* events whose row is older than STALE_PROCESSING_MS
    marker,      \* ids in ProcessedStripeWebhookEvent
    up,          \* each process: down, reset, list, ready
    queue,       \* WebhookQueue.queue of each process
    job,         \* where its drain loop is
    http,        \* webhook requests being handled
    sent,        \* deliveries already made
    acked,       \* events some delivery of which was answered 200
    effects,     \* how many times the event body was committed
    dead,        \* events abandoned to the dead letter at least once
    leftOut,     \* history: the rows the latest recovery could not take over,
                 \* and no request has since
    crashes, faults

db    == <<status, receivedAt, aged, marker>>
env   == <<sent, crashes, faults>>
vars  == <<status, receivedAt, aged, marker, up, queue, job, http, sent,
           acked, effects, dead, leftOut, crashes, faults>>

Status   == {"none", "pending", "processing", "processed", "failed"}
JobState == {"idle", "claim", "body", "mark", "failRetry", "failFatal", "wait"}
HttpPc   == {"find", "lookup", "create", "reread", "enqueue"}
Item     == [event : Events, attempts : Nat]
Request  == [id : Deliveries, event : Events, proc : Procs, at : HttpPc]

NewItem(e) == [event |-> e, attempts |-> 0]
Current(p) == Head(queue[p]).event
HasRow(e)  == status[e] # "none"

\* A worker is between the claim of an event and the end of its attempt.
Holds(p, e) ==
    /\ job[p] \in {"body", "mark", "failRetry", "failFatal"}
    /\ Current(p) = e

Queued(e) ==
    \/ \E p \in Procs : \E i \in DOMAIN queue[p] : queue[p][i].event = e
    \/ \E r \in http : r.event = e /\ r.at = "enqueue"

Init ==
    /\ status = [e \in Events |-> "none"]
    /\ receivedAt = [e \in Events |-> 0]
    /\ aged = {}
    /\ marker = {}
    /\ up = [p \in Procs |-> "down"]
    /\ queue = [p \in Procs |-> <<>>]
    /\ job = [p \in Procs |-> "idle"]
    /\ http = {}
    /\ sent = {}
    /\ acked = {}
    /\ effects = [e \in Events |-> 0]
    /\ dead = {}
    /\ leftOut = {}
    /\ crashes = 0
    /\ faults = 0

Fault == faults < MaxFaults /\ faults' = faults + 1

-----------------------------------------------------------------------------
(* The HTTP handler, stripeWebhookHandler. *)

\* Stripe delivers an event, for the first time or again, to a live process.
Deliver(d, e, p) ==
    /\ d \notin sent
    /\ up[p] # "down"
    /\ sent' = sent \cup {d}
    /\ http' = http \cup {[id |-> d, event |-> e, proc |-> p, at |-> "find"]}
    /\ UNCHANGED <<db, up, queue, job, acked, effects, dead, leftOut, crashes, faults>>

GoTo(r, pc) == http' = (http \ {r}) \cup {[r EXCEPT !.at = pc]}
Ack(r)      == acked' = acked \cup {r.event}

\* A duplicate of a processed event: 200, nothing is queued.
AckDuplicate(r) == Ack(r) /\ http' = http \ {r}

\* 200, and setImmediate will queue the event.
AckAndQueue(r) == Ack(r) /\ GoTo(r, "enqueue")

HttpFind(r) ==
    /\ r.at = "find"
    /\ \/ r.event \in marker /\ AckDuplicate(r)
       \/ r.event \notin marker /\ GoTo(r, "lookup") /\ UNCHANGED acked
    /\ UNCHANGED <<db, up, queue, job, effects, dead, leftOut, env>>

\* findWebhookInbox before the create, and again after a P2002.
HttpLookup(r) ==
    /\ r.at \in {"lookup", "reread"}
    /\ \/ status[r.event] = "processed" /\ AckDuplicate(r)
       \/ status[r.event] \notin {"none", "processed"} /\ AckAndQueue(r)
       \/ status[r.event] = "none" /\ GoTo(r, "create") /\ UNCHANGED acked
    /\ UNCHANGED <<db, up, queue, job, effects, dead, leftOut, env>>

\* Mutation: the 200 is sent without writing the row.
InsertNothing(e) == UNCHANGED <<status, receivedAt>>

InsertRow(e) ==
    /\ status' = [status EXCEPT ![e] = "pending"]
    /\ receivedAt' = [receivedAt EXCEPT ![e] =
                         1 + Cardinality({x \in Events : HasRow(x)})]

HttpCreate(r) ==
    /\ r.at = "create"
    /\ \/ ~HasRow(r.event) /\ InsertRow(r.event) /\ AckAndQueue(r)
       \/ /\ HasRow(r.event)          \* P2002: another delivery created it
          /\ GoTo(r, "reread")
          /\ UNCHANGED <<status, receivedAt, acked>>
    /\ UNCHANGED <<aged, marker, up, queue, job, effects, dead, leftOut, env>>

\* A database call of the handler fails: 500, Stripe will deliver again.
HttpFault(r) ==
    /\ r.at # "enqueue"
    /\ Fault
    /\ http' = http \ {r}
    /\ \/ r.at = "create" /\ ~HasRow(r.event) /\ InsertRow(r.event)
       \/ UNCHANGED <<status, receivedAt>>
    /\ UNCHANGED <<aged, marker, up, queue, job, acked, effects, dead, leftOut, sent, crashes>>

\* webhookQueue.enqueue
Enqueue(r) ==
    /\ r.at = "enqueue"
    /\ queue' = [queue EXCEPT ![r.proc] = Append(@, NewItem(r.event))]
    /\ http' = http \ {r}
    /\ leftOut' = {e \in leftOut : e # r.event \/ status[e] = "processing"}
    /\ UNCHANGED <<db, up, job, acked, effects, dead, env>>

-----------------------------------------------------------------------------
(* The drain loop of a process and processStripeWebhookJob on its head.    *)

Drop(p) == /\ queue' = [queue EXCEPT ![p] = Tail(@)]
           /\ job' = [job EXCEPT ![p] = "idle"]

\* #drain takes the head; findProcessedWebhookEvent
StartJob(p) ==
    /\ up[p] # "down" /\ job[p] = "idle" /\ queue[p] # <<>>
    /\ \/ Current(p) \in marker /\ Drop(p)
       \/ /\ Current(p) \notin marker
          /\ job' = [job EXCEPT ![p] = "claim"]
          /\ UNCHANGED queue
    /\ UNCHANGED <<db, up, http, acked, effects, dead, leftOut, env>>

\* Mutation: the claim does not look at a row in "processing".
RefusedIfProcessed(e) == e \in marker \/ status[e] = "processed"

\* Mutation: the claim trusts the status of the row alone.
RefusedByStatus(e) == status[e] \in {"processed", "processing"}

\* What the claim transaction refuses: an event already processed, or one
\* some worker is processing.
Refused(e) == e \in marker \/ status[e] \in {"processed", "processing"}

SetProcessing(e) ==
    status' = IF HasRow(e) THEN [status EXCEPT ![e] = "processing"] ELSE status

\* claimWebhookInboxForProcessing
Claim(p) ==
    /\ job[p] = "claim"
    /\ \/ Refused(Current(p)) /\ Drop(p) /\ UNCHANGED status
       \/ /\ ~Refused(Current(p))
          /\ SetProcessing(Current(p))
          /\ job' = [job EXCEPT ![p] = "body"]
          /\ UNCHANGED queue
    /\ UNCHANGED <<receivedAt, aged, marker, up, http, acked, effects, dead, leftOut, env>>

Committed(e) == effects' = [effects EXCEPT ![e] = @ + 1]

\* processWebhookEventBody succeeds, or throws StripeWebhookRetryError, or
\* throws anything else (possibly after it committed).
Body(p) ==
    /\ job[p] = "body"
    /\ \/ Committed(Current(p)) /\ job' = [job EXCEPT ![p] = "mark"]
       \/ job' = [job EXCEPT ![p] = "failRetry"] /\ UNCHANGED effects
       \/ /\ job' = [job EXCEPT ![p] = "failFatal"]
          /\ Committed(Current(p)) \/ UNCHANGED effects
    /\ UNCHANGED <<db, up, queue, http, acked, dead, leftOut, env>>

\* Mutation: the marker row is not written with the status.
MarkStatusOnly(e) == /\ status' = [status EXCEPT ![e] = "processed"]
                     /\ UNCHANGED marker

MarkInDb(e) == /\ status' = [status EXCEPT ![e] = "processed"]
               /\ marker' = marker \cup {e}

\* markWebhookInboxProcessed
MarkProcessed(p) ==
    /\ job[p] = "mark"
    /\ MarkInDb(Current(p))
    /\ Drop(p)
    /\ UNCHANGED <<receivedAt, aged, up, http, acked, effects, dead, leftOut, env>>

MarkProcessedFault(p) ==
    /\ job[p] = "mark"
    /\ Fault
    /\ MarkInDb(Current(p)) \/ UNCHANGED <<status, marker>>
    /\ job' = [job EXCEPT ![p] = "failFatal"]
    /\ UNCHANGED <<receivedAt, aged, up, queue, http, acked, effects, dead, leftOut,
                   sent, crashes>>

\* Mutation: `processing` is not reset when an item is given up.
AbandonBusy(p) == /\ queue' = [queue EXCEPT ![p] = Tail(@)]
                  /\ dead' = dead \cup {Current(p)}
                  /\ UNCHANGED job

Abandon(p) == Drop(p) /\ dead' = dead \cup {Current(p)}

\* The catch of #drain: wait and try the head again, or give it up.
AfterFailure(p) ==
    LET tried == Head(queue[p]).attempts + 1
        again == job[p] = "failRetry" /\ tried < MaxAttempts
    IN \/ /\ again
          /\ queue' = [queue EXCEPT ![p] =
                          <<[event |-> Current(p), attempts |-> tried]>> \o Tail(@)]
          /\ job' = [job EXCEPT ![p] = "wait"]
          /\ UNCHANGED dead
       \/ ~again /\ Abandon(p)

\* Mutation: the row of a failed attempt is left as it is.
LeaveStatus(e) == UNCHANGED status

\* markWebhookInboxFailed: whatever the row says now
SetFailed(e) ==
    status' = IF HasRow(e) THEN [status EXCEPT ![e] = "failed"] ELSE status

MarkFailed(p) ==
    /\ job[p] \in {"failRetry", "failFatal"}
    /\ SetFailed(Current(p))
    /\ AfterFailure(p)
    /\ UNCHANGED <<receivedAt, aged, marker, up, http, acked, effects, leftOut, env>>

\* the same when the update fails: its error is swallowed
MarkFailedFault(p) ==
    /\ job[p] \in {"failRetry", "failFatal"}
    /\ Fault
    /\ AfterFailure(p)
    /\ UNCHANGED <<db, up, http, acked, effects, leftOut, sent, crashes>>

\* the retry delay is over
RetryTimer(p) ==
    /\ job[p] = "wait"
    /\ job' = [job EXCEPT ![p] = "idle"]
    /\ UNCHANGED <<db, up, queue, http, acked, effects, dead, leftOut, env>>

\* The look-up or the claim fails.  Neither is inside the try, and the error
\* is no StripeWebhookRetryError: the item is abandoned.
ClaimFault(p) ==
    /\ up[p] # "down" /\ queue[p] # <<>> /\ job[p] \in {"idle", "claim"}
    /\ Fault
    /\ Abandon(p)
    /\ \/ /\ job[p] = "claim" /\ ~Refused(Current(p))
          /\ SetProcessing(Current(p))
       \/ UNCHANGED status
    /\ UNCHANGED <<receivedAt, aged, marker, up, http, acked, effects, leftOut, sent, crashes>>

-----------------------------------------------------------------------------
(* Processes start and stop; time passes. *)

\* startListening: requests are served from here on, recovery follows.
Start(p) ==
    /\ up[p] = "down"
    /\ up' = [up EXCEPT ![p] = "reset"]
    /\ UNCHANGED <<db, queue, job, http, acked, effects, dead, leftOut, env>>

\* A crash, a deploy or a shutdown (which does not drain the queue).
Crash(p) ==
    /\ up[p] # "down" /\ crashes < MaxCrashes
    /\ crashes' = crashes + 1
    /\ up' = [up EXCEPT ![p] = "down"]
    /\ queue' = [queue EXCEPT ![p] = <<>>]
    /\ job' = [job EXCEPT ![p] = "idle"]
    /\ http' = {r \in http : r.proc # p}
    /\ UNCHANGED <<db, acked, effects, dead, leftOut, sent, faults>>

Stale == {e \in aged : status[e] = "processing"}

\* The claims it leaves, of a live worker or of nobody.
FreshClaims == {e \in Events \ aged : status[e] = "processing"}

\* resetStaleProcessingWebhooks
RecoverReset(p) ==
    /\ up[p] = "reset"
    /\ status' = [e \in Events |-> IF e \in Stale THEN "pending" ELSE status[e]]
    /\ leftOut' = FreshClaims
    /\ up' = [up EXCEPT ![p] = "list"]
    /\ UNCHANGED <<receivedAt, aged, marker, queue, job, http, acked, effects, dead, env>>

Recoverable == {e \in Events : status[e] \in {"pending", "failed"}}

\* Mutation: findMany without the orderBy: any RecoverLimit of the rows.
InAnyOrder(es) == Len(es) = RecoverLimit \/ Recoverable \subseteq {es[i] : i \in DOMAIN es}

\* es is what findMany returns: the recoverable rows, oldest first, cut at
\* the limit.
Listing(es) ==
    /\ \A i, j \in DOMAIN es : i < j => receivedAt[es[i]] < receivedAt[es[j]]
    /\ \A e \in Recoverable :
          \/ \E i \in DOMAIN es : es[i] = e
          \/ /\ Len(es) = RecoverLimit
             /\ \A i \in DOMAIN es : receivedAt[es[i]] < receivedAt[e]

\* The rows the limit cannot reach: as many older ones are recoverable.
PastTheLimit ==
    {e \in Recoverable :
        Cardinality({x \in Recoverable : receivedAt[x] < receivedAt[e]}) >= RecoverLimit}

\* listRecoverableWebhookInboxes and the loop that queues what it returns
RecoverList(p) ==
    /\ up[p] = "list"
    /\ \E n \in 0..RecoverLimit : \E es \in [1..n -> Recoverable] :
          /\ Listing(es)
          /\ queue' = [queue EXCEPT ![p] =
                          @ \o [i \in 1..n |-> NewItem(es[i])]]
    /\ leftOut' = PastTheLimit \cup {e \in leftOut : status[e] = "processing"}
    /\ up' = [up EXCEPT ![p] = "ready"]
    /\ UNCHANGED <<db, job, http, acked, effects, dead, env>>

\* a recovery call fails: a warning, and the process goes on without it
RecoverFault(p) ==
    /\ up[p] \in {"reset", "list"}
    /\ Fault
    /\ up' = [up EXCEPT ![p] = "ready"]
    /\ UNCHANGED <<db, queue, job, http, acked, effects, dead, leftOut, sent, crashes>>

\* The row of e becomes older than STALE_PROCESSING_MS, counted from receivedAt.
Age(e) ==
    /\ HasRow(e) /\ e \notin aged
    /\ \A x \in Events : HasRow(x) /\ receivedAt[x] < receivedAt[e] => x \in aged
    /\ aged' = aged \cup {e}
    /\ UNCHANGED <<status, receivedAt, marker, up, queue, job, http, acked,
                   effects, dead, leftOut, env>>

-----------------------------------------------------------------------------
HttpStep(r) == HttpFind(r) \/ HttpLookup(r) \/ HttpCreate(r) \/ Enqueue(r)

WorkerStep(p) == \/ StartJob(p) \/ Claim(p) \/ Body(p) \/ MarkProcessed(p)
                 \/ MarkFailed(p) \/ RetryTimer(p)

RecoverStep(p) == RecoverReset(p) \/ RecoverList(p)

FaultStep(p) == \/ MarkProcessedFault(p) \/ MarkFailedFault(p)
                \/ ClaimFault(p) \/ RecoverFault(p)

Next ==
    \/ \E d \in Deliveries, e \in Events, p \in Procs : Deliver(d, e, p)
    \/ \E r \in http : HttpStep(r) \/ HttpFault(r)
    \/ \E p \in Procs : \/ WorkerStep(p) \/ FaultStep(p) \/ RecoverStep(p)
                        \/ Start(p) \/ Crash(p)
    \/ \E e \in Events : Age(e)

Spec == Init /\ [][Next]_vars

\* What the runtime schedules: pending callbacks run, timers fire, and the
\* platform restarts a process that is down.  Deliveries, exits, faults and
\* the passing of five minutes are not assumed.
Fairness ==
    /\ \A d \in Deliveries : WF_vars(\E r \in http : r.id = d /\ HttpStep(r))
    /\ \A p \in Procs : /\ WF_vars(WorkerStep(p))
                        /\ WF_vars(RecoverStep(p))
                        /\ WF_vars(Start(p))

FairSpec == Spec /\ Fairness

-----------------------------------------------------------------------------
\* Types, and what ties the fields of a process together: a worker past the
\* look-up has an item to work on, and a process that is down holds neither
\* items nor requests.
TypeOK ==
    /\ status \in [Events -> Status]
    /\ receivedAt \in [Events -> Nat]
    /\ aged \subseteq Events
    /\ marker \subseteq Events
    /\ up \in [Procs -> {"down", "reset", "list", "ready"}]
    /\ queue \in [Procs -> Seq(Item)]
    /\ job \in [Procs -> JobState]
    /\ \A p \in Procs : job[p] # "idle" => queue[p] # <<>>
    /\ \A p \in Procs : up[p] = "down" => queue[p] = <<>>
    /\ http \subseteq Request
    /\ \A r \in http : up[r.proc] # "down"
    /\ sent \subseteq Deliveries
    /\ acked \subseteq Events
    /\ effects \in [Events -> Nat]
    /\ dead \subseteq Events
    /\ leftOut \subseteq Events
    /\ crashes \in Nat
    /\ faults \in Nat

\* An event answered 200, and an event waiting in memory, has its row: the
\* payload is in the database before Stripe stops owning it, and the "missing"
\* branch of the claim is never taken (schema.prisma:138, webhook.processor.js:185).
DurableBeforeAck ==
    \A e \in Events : (e \in acked \/ Queued(e)) => HasRow(e)

\* An event is marked processed only after its body was committed: no order of
\* crashes, retries, refused claims and failed marks drops a paid event as done.
ProcessedMeansApplied ==
    \A e \in Events : (e \in marker \/ status[e] = "processed") =>
        e \in marker /\ effects[e] > 0

\* Until a process dies or the database fails, a row in "processing" has a
\* worker on it: no legal schedule leaves a claim behind.
ProcessingHasOwner ==
    (crashes = 0 /\ faults = 0) =>
        \A e \in Events : status[e] = "processing" => \E p \in Procs : Holds(p, e)

\* Two workers are on one event only if its row is old enough for a starting
\* process to have reset it: the claim excludes everybody else.
ClaimIsExclusive ==
    \A e \in Events : \A p, q \in Procs :
        (Holds(p, e) /\ Holds(q, e) /\ p # q) => e \in aged

\* When every process is up and has recovered, and no database call failed,
\* an acknowledged event is processed, dead-lettered, or still in some queue
\* (at its head while it is worked on), crashes included.  Recovery leaves two
\* kinds of row behind, and no other is forgotten: a claim younger than five
\* minutes at the latest boot (webhook.persistence.js:143), and a row with as
\* many older ones before it as a boot reads (webhookQueue.js:126).
NothingForgotten ==
    (faults = 0 /\ \A p \in Procs : up[p] = "ready") =>
        \A e \in acked : e \in marker \/ e \in dead \/ Queued(e) \/ e \in leftOut

\* While no row is stale, nothing commits the body of a processed event again,
\* whatever is redelivered, retried or recovered.
NoEffectAfterProcessed ==
    [][\A e \in Events : (effects'[e] # effects[e] /\ e \notin aged) => e \notin marker]_vars

\* An acknowledged event is eventually processed or dead-lettered, unless a
\* process dies or a database call fails on the way: whatever the event body
\* throws and however the processes overlap.
SettledUnlessHarmed ==
    \A e \in Events : e \in acked ~> (e \in marker \cup dead \/ crashes + faults > 0)

\* One process keeps the promise of EventDelivery: crashes, restarts, failing
\* calls, redeliveries and retries included.
Promise == INSTANCE EventDelivery
             WITH owed <- {e \in Events : HasRow(e)}, applied <- effects, done <- marker
KeepsPromise == Promise!Spec

\* What a worker can count on when it runs the body of an event, for any number
\* of processes: the claims of EventClaims.
Claims == INSTANCE EventClaims
            WITH Workers <- Procs,
                 waiting <- {e \in Events : HasRow(e)} \ marker,
                 held <- {c \in Procs \X Events : Holds(c[1], c[2])},
                 late <- aged
KeepsClaims == Claims!Spec
=============================================================================
