----------------------------- MODULE MultaCase -----------------------------
(***************************************************************************)
(* The life of a case (a row of Multa) from the analysis to the downloaded *)
(* report.  Every writer of Multa.caseState is here: the analyze, checkout *)
(* and download requests, the integrity repair of the admin debug page and *)
(* the worker that handles Stripe's checkout events.  Each of them reads   *)
(* the row, awaits something, and writes; all can overlap.  Stripe itself  *)
(* (sessions, payments, events) is external, modelled from what the code   *)
(* asks of it and receives.                                                *)
(***************************************************************************)
EXTENDS Naturals, FiniteSets

CONSTANTS
    Multas,         \* cases, by id
    Sessions,       \* Stripe checkout sessions, by id
    NoSession,      \* stripeCheckoutSessionId is null
    NoCase,         \* a session without metadata.multaId
    Requests,       \* HTTP requests users and admins make (bound of the model)
    Workers,        \* drain loops that hold claimed events, one per process
    AsyncPayments,  \* whether a session may be paid by a delayed method
    MaxAttempts,    \* attempts of the queue at one event (5)
    MaxFaults       \* bound: failing calls and dying processes of the workers

ASSUME CaseAssumption ==
    /\ NoSession \notin Sessions
    /\ NoCase \notin Multas
    /\ AsyncPayments \in BOOLEAN
    /\ MaxAttempts \in Nat \ {0}
    /\ MaxFaults \in Nat

CaseState == {"CREATED", "ANALYZED", "PAYMENT_PENDING", "PAID",
              "DISCHARGE_READY", "DISCHARGED", "FAILED"}

isPaid(cs)           == cs \in {"PAID", "DISCHARGE_READY", "DISCHARGED"}
dischargeAvailable(cs) == cs \in {"DISCHARGE_READY", "DISCHARGED"}
allowsAnalyze(cs)    == cs \in {"CREATED", "ANALYZED"}
allowsCheckout(cs)   == cs \in {"CREATED", "ANALYZED", "PAYMENT_PENDING", "FAILED"}

VARIABLES
    caseState,  \* Multa.caseState, "none": the row does not exist
    session,    \* Multa.stripeCheckoutSessionId
    report,     \* Multa.dischargeBody is set
    pay,        \* Stripe: what became of each session
    owner,      \* Stripe: metadata.multaId of each session
    events,     \* Stripe events received and not yet processed
    inFlight,   \* requests between their read and their write
    made,       \* requests made so far
    queued,     \* of those, the events that lie in the queue of some process
    worker,     \* what each worker is doing
    givenUp,    \* events a queue abandoned or a dying process lost (history)
    staleWrite, \* cases a request wrote in a state it had not read
    faults

row  == <<caseState, session, report>>
work == <<queued, worker, givenUp>>
vars == <<caseState, session, report, pay, owner, events, inFlight,
          made, queued, worker, givenUp, staleWrite, faults>>

PayStatus == {"unborn", "created", "open", "awaiting", "paid", "expired", "failed"}
EventType == {"completed", "expired", "async_succeeded", "async_failed"}
Event     == [type : EventType, session : Sessions, paid : BOOLEAN]

\* A request that has read a row: what it will do next, and what it saw.
InFlight == [id : Requests, multa : Multas, session : Sessions \cup {NoSession},
             saw : CaseState,
             next : {"saveAnalysis", "createLoose", "createSession",
                     "saveSession", "saveDischarged", "saveError"}]

Step == {"idle", "finalize", "write", "reconcile", "overwrite", "expire", "mark", "wait"}
NoEvent == [type |-> "none"]
Idle == [at |-> "idle", event |-> NoEvent, again |-> FALSE, unset |-> FALSE, tries |-> 0]

Init ==
    /\ caseState = [m \in Multas |-> "none"]
    /\ session = [m \in Multas |-> NoSession]
    /\ report = [m \in Multas |-> FALSE]
    /\ pay = [s \in Sessions |-> "unborn"]
    /\ owner \in [Sessions -> Multas \cup {NoCase}]   \* fixed when the session is created
    /\ events = {}
    /\ inFlight = {}
    /\ made = {}
    /\ queued = {}
    /\ worker = [w \in Workers |-> Idle]
    /\ givenUp = {}
    /\ staleWrite = {}
    /\ faults = 0

-----------------------------------------------------------------------------
(* Requests.  Read opens one, Write closes it. *)

Open(i, m, what, seen) ==
    /\ i \notin made
    /\ made' = made \cup {i}
    /\ inFlight' = inFlight \cup
          {[id |-> i, multa |-> m, session |-> NoSession, saw |-> seen, next |-> what]}

Close(r)         == inFlight' = inFlight \ {r}
Continue(r, new) == inFlight' = (inFlight \ {r}) \cup {new}

SetState(m, cs) == caseState' = [caseState EXCEPT ![m] = cs]

\* A write by a request that read another state than the one it overwrites.
NoteStale(r) == staleWrite' = IF caseState[r.multa] = r.saw
                              THEN staleWrite ELSE staleWrite \cup {r.multa}

\* analyzeAndPersist: the row is created or found; then the analysis is awaited.
Analyze(i, m) ==
    LET found == IF caseState[m] = "none" THEN "CREATED" ELSE caseState[m] IN
    /\ SetState(m, found)
    /\ Open(i, m, "saveAnalysis", found)
    /\ UNCHANGED <<session, report, pay, owner, events, work, staleWrite, faults>>

\* the unconditional update of createMultaFlow, decided by the state it read;
\* with options.createCheckout a session follows
SaveAnalysis(r) ==
    /\ r.next = "saveAnalysis"
    /\ \/ allowsAnalyze(r.saw) /\ SetState(r.multa, "ANALYZED") /\ NoteStale(r)
       \/ ~allowsAnalyze(r.saw) /\ UNCHANGED <<caseState, staleWrite>>
    /\ Close(r) \/ Continue(r, [r EXCEPT !.next = "createLoose"])
    /\ UNCHANGED <<session, report, pay, owner, events, made, work, faults>>

\* that session names no case, and the case does not record it
CreateLooseSession(r) ==
    /\ r.next = "createLoose"
    /\ \E s \in Sessions : /\ pay[s] = "unborn" /\ owner[s] = NoCase
                          /\ pay' = [pay EXCEPT ![s] = "open"]
    /\ Close(r)
    /\ UNCHANGED <<row, owner, events, made, work, staleWrite, faults>>

\* createDischargeCheckoutFlow reads the case and accepts to start a payment
Checkout(i, m) ==
    /\ allowsCheckout(caseState[m])
    /\ Open(i, m, "createSession", caseState[m])
    /\ UNCHANGED <<row, pay, owner, events, work, staleWrite, faults>>

\* stripe.checkout.sessions.create
CreateSession(r) ==
    /\ r.next = "createSession"
    /\ \E s \in Sessions :
          /\ pay[s] = "unborn" /\ owner[s] = r.multa
          /\ pay' = [pay EXCEPT ![s] = "created"]
          /\ Continue(r, [r EXCEPT !.session = s, !.next = "saveSession"])
    /\ UNCHANGED <<row, owner, events, made, work, staleWrite, faults>>

\* the unconditional update after it; the answer gives the customer the url
SaveSession(r) ==
    /\ r.next = "saveSession"
    /\ session' = [session EXCEPT ![r.multa] = r.session]
    /\ SetState(r.multa, "PAYMENT_PENDING")
    /\ NoteStale(r)
    /\ pay' = [pay EXCEPT ![r.session] = IF @ = "created" THEN "open" ELSE @]
    /\ Close(r)
    /\ UNCHANGED <<report, owner, events, made, work, faults>>

\* getDischargeFlow: only a case that is ready, with its report
Download(i, m) ==
    /\ caseState[m] = "DISCHARGE_READY" /\ report[m]
    /\ Open(i, m, "saveDischarged", caseState[m])
    /\ UNCHANGED <<row, pay, owner, events, work, staleWrite, faults>>

SaveDischarged(r) ==
    /\ r.next = "saveDischarged"
    /\ SetState(r.multa, "DISCHARGED")
    /\ NoteStale(r)
    /\ Close(r)
    /\ UNCHANGED <<session, report, pay, owner, events, made, work, faults>>

\* What detectMultaInvariantViolations and reconcileCorruptMultaFromRow look for.
Corrupt(m) == isPaid(caseState[m]) # report[m]

\* getMultaDebug reads a corrupt row; reconcileCorruptMultaFromRow repairs it
Debug(i, m) ==
    /\ caseState[m] \notin {"none", "FAILED"} /\ Corrupt(m)
    /\ Open(i, m, "saveError", caseState[m])
    /\ UNCHANGED <<row, pay, owner, events, work, staleWrite, faults>>

SaveError(r) ==
    /\ r.next = "saveError"
    /\ \/ caseState[r.multa] # "FAILED" /\ SetState(r.multa, "FAILED") /\ NoteStale(r)
       \/ caseState[r.multa] = "FAILED" /\ UNCHANGED <<caseState, staleWrite>>
    /\ Close(r)
    /\ UNCHANGED <<session, report, pay, owner, events, made, work, faults>>

\* The engine or Stripe throws, or the process dies: the request writes nothing.
RequestFails(r) ==
    /\ Close(r)
    /\ UNCHANGED <<row, pay, owner, events, made, work, staleWrite, faults>>

-----------------------------------------------------------------------------
(* Stripe. *)

Settle(s, outcome, type) ==
    /\ pay' = [pay EXCEPT ![s] = outcome]
    /\ events' = events \cup
          {[type |-> type, session |-> s, paid |-> outcome = "paid"]}
    /\ queued' = queued \cup
          {[type |-> type, session |-> s, paid |-> outcome = "paid"]}

\* The customer pays, or hands in a delayed payment that later succeeds or
\* fails; an unpaid session expires.
StripeStep(s) ==
    /\ \/ pay[s] = "open" /\ Settle(s, "paid", "completed")
       \/ AsyncPayments /\ pay[s] = "open" /\ Settle(s, "awaiting", "completed")
       \/ pay[s] = "awaiting" /\ Settle(s, "paid", "async_succeeded")
       \/ pay[s] = "awaiting" /\ Settle(s, "failed", "async_failed")
       \/ pay[s] \in {"created", "open"} /\ Settle(s, "expired", "expired")
    /\ UNCHANGED <<row, owner, inFlight, made, worker, givenUp, staleWrite, faults>>

\* Stripe delivers an event again, or a process that starts recovers its row.
Requeue(ev) ==
    /\ ev \notin queued
    /\ queued' = queued \cup {ev}
    /\ UNCHANGED <<row, pay, owner, events, inFlight, made, worker, givenUp, staleWrite, faults>>

-----------------------------------------------------------------------------
(* The worker: the drain loop of a process, and processStripeWebhookJob on  *)
(* the event it has claimed.                                               *)

\* A worker that waits for its next attempt holds no claim.
Claimed(ev) == \E w \in Workers : worker[w].event = ev /\ worker[w].at # "wait"
Move(w, step) == worker' = [worker EXCEPT ![w].at = step]
Ev(w) == worker[w].event
Case(w) == owner[Ev(w).session]

\* Mutation: session.payment_status is not checked.
BranchUnpaid(ev) ==
    IF owner[ev.session] = NoCase THEN "none"
    ELSE IF ev.type = "completed" THEN "finalize"
    ELSE IF ev.type \in {"expired", "async_failed"} THEN "expire"
    ELSE "none"

\* Where processWebhookEventBody goes for an event.
Branch(ev) ==
    IF owner[ev.session] = NoCase THEN "none"
    ELSE IF ev.type = "completed" /\ ev.paid THEN "finalize"
    ELSE IF ev.type \in {"expired", "async_failed"} THEN "expire"
    ELSE "none"

Attempt(ev, n) ==
    [at |-> Branch(ev), event |-> ev, again |-> FALSE, unset |-> FALSE, tries |-> n]

\* A worker takes an event out of a queue.  The claim refuses the one another
\* worker holds; the one that asks nothing of a case is processed at once.
Take(w, ev) ==
    /\ worker[w] = Idle
    /\ queued' = queued \ {ev}
    /\ \/ Claimed(ev) /\ UNCHANGED <<worker, events>>
       \/ /\ ~Claimed(ev) /\ Branch(ev) # "none"
          /\ worker' = [worker EXCEPT ![w] = Attempt(ev, 0)]
          /\ UNCHANGED events
       \/ /\ ~Claimed(ev) /\ Branch(ev) = "none"
          /\ events' = events \ {ev}
          /\ UNCHANGED worker
    /\ UNCHANGED <<row, pay, owner, inFlight, made, givenUp, staleWrite, faults>>

\* Mutation: the worker keeps the event it abandons.
AbandonNothing(w) == Move(w, "idle") /\ givenUp' = givenUp \cup {Ev(w)}

\* The item leaves the queue, its event stays unprocessed.
Abandon(w) ==
    /\ worker' = [worker EXCEPT ![w] = Idle]
    /\ givenUp' = givenUp \cup {Ev(w)}

Waits(rec) == [rec EXCEPT !.at = "wait", !.tries = @ + 1]

\* StripeWebhookRetryError: after a delay the queue tries the item again, up to
\* its attempts.
TryAgain(w) ==
    \/ /\ worker[w].tries + 1 < MaxAttempts
       /\ worker' = [worker EXCEPT ![w] = Waits(worker[w])]
       /\ UNCHANGED givenUp
    \/ worker[w].tries + 1 >= MaxAttempts /\ Abandon(w)

\* The delay is over.  The event may be processed or claimed by another worker
\* meanwhile.
WakeUp(w) ==
    /\ worker[w].at = "wait"
    /\ worker' = [worker EXCEPT ![w] =
          IF Ev(w) \notin events \/ Claimed(Ev(w)) THEN Idle
          ELSE Attempt(Ev(w), worker[w].tries)]
    /\ UNCHANGED <<row, pay, owner, events, inFlight, made, queued, givenUp, staleWrite, faults>>

\* markWebhookInboxProcessed: a copy of the event in a queue will be dropped.
Mark(w) ==
    /\ worker[w].at = "mark"
    /\ worker' = [worker EXCEPT ![w] = Idle]
    /\ events' = events \ {Ev(w)}
    /\ queued' = queued \ {Ev(w)}
    /\ UNCHANGED <<row, pay, owner, inFlight, made, givenUp, staleWrite, faults>>

SessionOk(m, s) == session[m] \in {NoSession, s}

\* the read of finalizeMultaDischargeFromWebhook; the second mismatch is a
\* StripeWebhookRetryError
FinalizeRead(w) ==
    LET m == Case(w)
        finished == dischargeAvailable(caseState[m]) /\ report[m]
    IN /\ worker[w].at = "finalize"
       /\ \/ finished /\ Move(w, "mark") /\ UNCHANGED givenUp
          \/ /\ ~finished /\ SessionOk(m, Ev(w).session)
             /\ worker' = [worker EXCEPT ![w].at = "write",
                                         ![w].unset = session[m] = NoSession]
             /\ UNCHANGED givenUp
          \/ /\ ~finished /\ ~SessionOk(m, Ev(w).session)
             /\ \/ ~worker[w].again /\ Move(w, "reconcile") /\ UNCHANGED givenUp
                \/ worker[w].again /\ TryAgain(w)
       /\ UNCHANGED <<row, pay, owner, events, inFlight, made, queued, staleWrite, faults>>

\* Mutation: the report is left for later.
NoReport(m) == UNCHANGED report

WriteReport(m) == report' = [report EXCEPT ![m] = TRUE]

\* its transaction: PAID, the report, DISCHARGE_READY
FinalizeWrite(w) ==
    LET m == Case(w) IN
    /\ worker[w].at = "write"
    /\ SetState(m, "DISCHARGE_READY")
    /\ WriteReport(m)
    /\ session' = IF worker[w].unset
                  THEN [session EXCEPT ![m] = Ev(w).session] ELSE session
    /\ Move(w, "mark")
    /\ UNCHANGED <<pay, owner, events, inFlight, made, queued, givenUp, staleWrite, faults>>

\* reconcileMultaDischargeFromStripeSession asks Stripe and reads the row (a
\* Stripe that does not answer: StripeUnavailable)
Reconcile(w) ==
    LET s == Ev(w).session IN
    /\ worker[w].at = "reconcile"
    /\ pay[s] = "paid"
    /\ worker' = [worker EXCEPT ![w].again = TRUE,
          ![w].at = IF SessionOk(Case(w), s) THEN "finalize" ELSE "overwrite"]
    /\ UNCHANGED <<row, pay, owner, events, inFlight, made, queued, givenUp, staleWrite, faults>>

\* Mutation: the row keeps the session that does not match.
OverwriteNothing(w) == worker[w].at = "overwrite" /\ Move(w, "finalize")
    /\ UNCHANGED <<row, pay, owner, events, inFlight, made, queued, givenUp, staleWrite, faults>>

\* it replaces the session of the row by the paid one, then finalizes again
Overwrite(w) ==
    /\ worker[w].at = "overwrite"
    /\ session' = [session EXCEPT ![Case(w)] = Ev(w).session]
    /\ Move(w, "finalize")
    /\ UNCHANGED <<caseState, report, pay, owner, events, inFlight, made,
                   queued, givenUp, staleWrite, faults>>

\* Mutation: the update is not conditional on the state.
ExpireAny(m) == caseState[m] # "FAILED"

MayExpire(m) == caseState[m] = "PAYMENT_PENDING"

\* checkout.session.expired and async_payment_failed: one conditional update
Expire(w) ==
    /\ worker[w].at = "expire"
    /\ \/ MayExpire(Case(w)) /\ SetState(Case(w), "FAILED")
       \/ ~MayExpire(Case(w)) /\ UNCHANGED caseState
    /\ Move(w, "mark")
    /\ UNCHANGED <<session, report, pay, owner, events, inFlight, made, queued, givenUp,
                   staleWrite, faults>>

Fault == faults < MaxFaults /\ faults' = faults + 1

\* What else throws a StripeWebhookRetryError: no Stripe client, the reports
\* switched off, a session that cannot be retrieved.
StripeUnavailable(w) ==
    /\ \/ worker[w].at \in {"finalize", "expire"} /\ ~worker[w].again
       \/ worker[w].at = "reconcile"
    /\ Fault
    /\ TryAgain(w)
    /\ UNCHANGED <<row, pay, owner, events, inFlight, made, queued, staleWrite>>

\* A call to the database is rejected, that of the claim included: the error is
\* no StripeWebhookRetryError, and the item is abandoned at once.
WorkerFails(w) ==
    /\ Fault
    /\ \/ worker[w].at # "idle" /\ Abandon(w) /\ UNCHANGED queued
       \/ /\ worker[w].at = "idle" /\ UNCHANGED worker
          /\ \E ev \in queued : queued' = queued \ {ev} /\ givenUp' = givenUp \cup {ev}
    /\ UNCHANGED <<row, pay, owner, events, inFlight, made, staleWrite>>

\* The process dies, and its queue with it.
WorkerDies(w) ==
    /\ Fault
    /\ \E lost \in SUBSET queued :
          /\ queued' = queued \ lost
          /\ givenUp' = givenUp \cup lost \cup ({Ev(w)} \ {NoEvent})
    /\ worker' = [worker EXCEPT ![w] = Idle]
    /\ UNCHANGED <<row, pay, owner, events, inFlight, made, staleWrite>>

-----------------------------------------------------------------------------
Request(r) == \/ SaveAnalysis(r) \/ CreateLooseSession(r) \/ CreateSession(r)
              \/ SaveSession(r) \/ SaveDischarged(r) \/ SaveError(r) \/ RequestFails(r)

WorkerStep(w) ==
    \/ \E ev \in queued : Take(w, ev)
    \/ WakeUp(w) \/ FinalizeRead(w) \/ FinalizeWrite(w) \/ Reconcile(w) \/ Overwrite(w)
    \/ Expire(w) \/ Mark(w)

WorkerFault(w) == StripeUnavailable(w) \/ WorkerFails(w) \/ WorkerDies(w)

Next ==
    \/ \E i \in Requests, m \in Multas :
          Analyze(i, m) \/ Checkout(i, m) \/ Download(i, m) \/ Debug(i, m)
    \/ \E r \in inFlight : Request(r)
    \/ \E s \in Sessions : StripeStep(s)
    \/ \E ev \in events : Requeue(ev)
    \/ \E w \in Workers : WorkerStep(w) \/ WorkerFault(w)

Spec == Init /\ [][Next]_vars

\* #drain goes on while its queue is not empty, and its delays end.
Fairness == \A w \in Workers : WF_vars(WorkerStep(w))

\* Stripe stops to deliver an event again, and processes are not started for ever.
Quiet == <>[][\A ev \in events : ~Requeue(ev)]_vars

FairSpec == Spec /\ Fairness /\ Quiet

-----------------------------------------------------------------------------
TypeOK ==
    /\ caseState \in [Multas -> CaseState \cup {"none"}]
    /\ session \in [Multas -> Sessions \cup {NoSession}]
    /\ report \in [Multas -> BOOLEAN]
    /\ pay \in [Sessions -> PayStatus]
    /\ owner \in [Sessions -> Multas \cup {NoCase}]
    /\ events \subseteq Event
    /\ inFlight \subseteq InFlight
    /\ made \subseteq Requests
    /\ queued \subseteq events
    /\ worker \in [Workers -> [at : Step, event : Event \cup {NoEvent}, again : BOOLEAN,
                               unset : BOOLEAN, tries : 0..(MaxAttempts - 1)]]
    /\ \A w \in Workers : worker[w].at = "idle" <=> worker[w].event = NoEvent
    /\ givenUp \subseteq Event
    /\ staleWrite \subseteq Multas
    /\ faults \in Nat

\* PAID_NO_REPORT_BODY never happens (multa.opstelemetry.js:90): in no
\* interleaving is a case paid, ready or discharged without its report.
PaidHasReport == \A m \in Multas : isPaid(caseState[m]) => report[m]

\* A report exists only for a case one of whose own sessions Stripe was paid.
ReportWasPaid ==
    \A m \in Multas : report[m] =>
        \E s \in Sessions : owner[s] = m /\ pay[s] = "paid"

\* A case with a report leaves the paid states only through a request that
\* wrote over a state it had not read: no worker, no expiry, no repair and no
\* request that ran alone takes a delivered report away.
ReportLostOnlyByStaleWrite ==
    \A m \in Multas : report[m] /\ ~isPaid(caseState[m]) => m \in staleWrite

\* REPORT_WITHOUT_PAID_CONFIRMATION (multa.opstelemetry.js:83), the invariant
\* the code monitors: a case with a report is confirmed as paid.
ReportImpliesPaid == \A m \in Multas : report[m] => isPaid(caseState[m])

\* A customer who paid at once gets the report, whatever sessions were opened,
\* replaced, expired or failed meanwhile and however the workers of two paid
\* sessions contend for the row, unless a failing call or a dying process made
\* the queue lose the event.  Of a case with a third session that is not so: two
\* workers and a checkout can use up the attempts of each other.
PaidIsReported ==
    \A s \in Sessions, m \in Multas :
        LET ev == [type |-> "completed", session |-> s, paid |-> TRUE] IN
        []((/\ owner[s] = m /\ Cardinality({t \in Sessions : owner[t] = m}) <= 2
            /\ ev \in events)
              => <>(report[m] \/ (ev \in givenUp /\ faults > 0)))

\* What a row says of its report.  PAID alone is half of the transaction.
Says(cs) == CASE cs = "DISCHARGE_READY" -> "ready"
              [] cs = "DISCHARGED" -> "discharged"
              [] cs = "PAID" -> "half written"
              [] OTHER -> "open"

\* However requests, workers, sessions and faults overlap, a case keeps the
\* promise of CasePromise: a report comes after a payment of its own, never
\* goes, is handed over only when it is ready, and is hidden only by a write over
\* a state that was not read.
Promise == INSTANCE CasePromise
             WITH paid <- {s \in Sessions : pay[s] = "paid"},
                  reported <- {m \in Multas : report[m]},
                  shown <- [m \in Multas |-> Says(caseState[m])],
                  overwritten <- staleWrite
KeepsCasePromise == Promise!Spec

\* The workers claim, settle and give up their events as EventClaims has it.
Claims == INSTANCE EventClaims
            WITH Events <- Event,
                 waiting <- events,
                 held <- {c \in Workers \X Event :
                            worker[c[1]].event = c[2] /\ worker[c[1]].at # "wait"},
                 late <- {}
KeepsClaims == Claims!Spec
=============================================================================
