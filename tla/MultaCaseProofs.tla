---------------------------- MODULE MultaCaseProofs ----------------------------
(***************************************************************************)
(* Theorems about MultaCase, for every number of cases, sessions, requests *)
(* and workers.  CaseInv is the inductive invariant: it says what a        *)
(* request may still assume of the row it read, and what a worker knows of *)
(* the session of its event.                                               *)
(***************************************************************************)
EXTENDS MultaCase, TLAPS

\* What is still true, at its write, of what a request read.
RequestInv ==
    \A r \in inFlight :
       /\ r.next = "saveDischarged" => report[r.multa] /\ r.saw = "DISCHARGE_READY"
       /\ r.next \in {"createSession", "saveSession"} => ~isPaid(r.saw)
       /\ r.next = "saveError" => ~isPaid(r.saw)

\* Stripe reports a session as paid only when it is, and for good.
PaymentInv ==
    /\ \A ev \in events : ev.paid => pay[ev.session] = "paid"
    /\ \A w \in Workers : worker[w].at \in {"finalize", "write", "reconcile", "overwrite"} =>
          /\ pay[Ev(w).session] = "paid"
          /\ Case(w) \in Multas

CaseInv == RequestInv /\ PaymentInv
           /\ PaidHasReport /\ ReportWasPaid /\ ReportLostOnlyByStaleWrite

LEMMA NoEventIsNoEvent == NoEvent \notin Event
BY DEF NoEvent, Event, EventType

-----------------------------------------------------------------------------
(* Types. *)

WorkerType == [at : Step, event : Event \cup {NoEvent}, again : BOOLEAN, unset : BOOLEAN,
               tries : 0..(MaxAttempts - 1)]

\* A worker goes on, or something fails under it.
WorkerTurn(w) == WorkerStep(w) \/ WorkerFault(w)

\* A worker is only ever on an event that asks something of a case.
OnACase == \A w \in Workers : worker[w].at # "idle" => Branch(Ev(w)) # "none"

LEMMA TypeInit == Init => TypeOK
<1> SUFFICES ASSUME Init PROVE TypeOK
  OBVIOUS
<1>1. Idle \in WorkerType
  BY CaseAssumption DEF Idle, Step, WorkerType
<1> QED
  BY <1>1 DEF Init, TypeOK, CaseState, PayStatus, Idle, WorkerType

LEMMA OpenType ==
    ASSUME TypeOK, NEW i \in Requests, NEW m \in Multas, NEW seen \in CaseState,
           NEW what \in {"saveAnalysis", "createSession", "saveDischarged", "saveError"},
           Open(i, m, what, seen)
    PROVE  inFlight' \subseteq InFlight /\ made' \subseteq Requests
BY DEF TypeOK, Open, InFlight

LEMMA SetStateType ==
    ASSUME TypeOK, NEW m, NEW cs \in CaseState \cup {"none"}, SetState(m, cs)
    PROVE  caseState' \in [Multas -> CaseState \cup {"none"}]
BY DEF TypeOK, SetState

LEMMA OpenKeepsType ==
    ASSUME TypeOK, NEW i \in Requests, NEW m \in Multas,
           Analyze(i, m) \/ Checkout(i, m) \/ Download(i, m) \/ Debug(i, m)
    PROVE  TypeOK'
<1>1. caseState[m] \in CaseState \cup {"none"}
  BY DEF TypeOK
<1>2. CASE Analyze(i, m)
  <2> DEFINE found == IF caseState[m] = "none" THEN "CREATED" ELSE caseState[m]
  <2>1. found \in CaseState
    BY <1>1 DEF CaseState
  <2>2. SetState(m, found) /\ Open(i, m, "saveAnalysis", found)
    BY <1>2 DEF Analyze
  <2> HIDE DEF found
  <2>3. /\ caseState' \in [Multas -> CaseState \cup {"none"}]
        /\ inFlight' \subseteq InFlight /\ made' \subseteq Requests
    BY <2>1, <2>2, OpenType, SetStateType
  <2> QED
    BY <1>2, <2>3 DEF TypeOK, Analyze, work
<1>3. CASE Checkout(i, m)
  <2>1. inFlight' \subseteq InFlight /\ made' \subseteq Requests
    BY <1>3, OpenType DEF Checkout, allowsCheckout, CaseState
  <2> QED
    BY <1>3, <2>1 DEF TypeOK, Checkout, row, work
<1>4. CASE Download(i, m)
  <2>1. inFlight' \subseteq InFlight /\ made' \subseteq Requests
    BY <1>4, OpenType DEF Download, CaseState
  <2> QED
    BY <1>4, <2>1 DEF TypeOK, Download, row, work
<1>5. CASE Debug(i, m)
  <2>1. inFlight' \subseteq InFlight /\ made' \subseteq Requests
    BY <1>1, <1>5, OpenType DEF Debug
  <2> QED
    BY <1>5, <2>1 DEF TypeOK, Debug, row, work
<1> QED
  BY <1>2, <1>3, <1>4, <1>5

LEMMA RequestKeepsType ==
    ASSUME TypeOK, NEW r \in inFlight, Request(r)
    PROVE  TypeOK'
<1>1. r \in InFlight /\ r.multa \in Multas
  BY DEF TypeOK, InFlight
<1>2. Close(r) => inFlight' \subseteq InFlight
  BY DEF TypeOK, Close
<1>3. NoteStale(r) => staleWrite' \subseteq Multas
  BY <1>1 DEF TypeOK, NoteStale
<1>4. CASE SaveAnalysis(r)
  <2>1. [r EXCEPT !.next = "createLoose"] \in InFlight
    BY <1>1 DEF InFlight
  <2>2. inFlight' \subseteq InFlight
    BY <1>2, <1>4, <2>1 DEF TypeOK, SaveAnalysis, work, Continue
  <2>3. caseState' \in [Multas -> CaseState \cup {"none"}]
    BY <1>4, SetStateType DEF TypeOK, SaveAnalysis, work, CaseState
  <2> QED
    BY <1>3, <1>4, <2>2, <2>3 DEF TypeOK, SaveAnalysis, work
<1>5. CASE CreateLooseSession(r)
  BY <1>2, <1>5 DEF TypeOK, CreateLooseSession, work, PayStatus, row
<1>6. CASE CreateSession(r)
  <2>1. PICK s \in Sessions : /\ pay' = [pay EXCEPT ![s] = "created"]
                              /\ Continue(r, [r EXCEPT !.session = s, !.next = "saveSession"])
    BY <1>6 DEF CreateSession
  <2>2. [r EXCEPT !.session = s, !.next = "saveSession"] \in InFlight
    BY <1>1 DEF InFlight
  <2>3. inFlight' \subseteq InFlight /\ pay' \in [Sessions -> PayStatus]
    BY <2>1, <2>2 DEF TypeOK, Continue, PayStatus
  <2> QED
    BY <1>6, <2>3 DEF TypeOK, CreateSession, row, work
<1>7. CASE SaveSession(r)
  <2>1. caseState' \in [Multas -> CaseState \cup {"none"}]
    BY <1>7, SetStateType DEF SaveSession, CaseState
  <2>2. session' \in [Multas -> Sessions \cup {NoSession}]
    BY <1>1, <1>7 DEF TypeOK, SaveSession, work, InFlight
  <2>3. pay' \in [Sessions -> PayStatus]
    BY <1>7 DEF TypeOK, SaveSession, work, PayStatus
  <2> QED
    BY <1>2, <1>3, <1>7, <2>1, <2>2, <2>3 DEF TypeOK, SaveSession, work
<1>8. CASE SaveDischarged(r)
  <2>1. caseState' \in [Multas -> CaseState \cup {"none"}]
    BY <1>8, SetStateType DEF SaveDischarged, CaseState
  <2> QED
    BY <1>2, <1>3, <1>8, <2>1 DEF TypeOK, SaveDischarged, work
<1>9. CASE SaveError(r)
  <2>1. caseState' \in [Multas -> CaseState \cup {"none"}]
    BY <1>9, SetStateType DEF TypeOK, SaveError, work, CaseState
  <2> QED
    BY <1>2, <1>3, <1>9, <2>1 DEF TypeOK, SaveError, work
<1>10. CASE RequestFails(r)
  BY <1>2, <1>10 DEF TypeOK, RequestFails, work, row
<1> QED
  BY <1>4, <1>5, <1>6, <1>7, <1>8, <1>9, <1>10 DEF Request

LEMMA StripeKeepsType ==
    ASSUME TypeOK, NEW s \in Sessions, StripeStep(s)
    PROVE  TypeOK'
<1>1. PICK outcome \in {"paid", "awaiting", "failed", "expired"}, type \in EventType :
          Settle(s, outcome, type)
  BY DEF StripeStep, EventType
<1>2. [type |-> type, session |-> s, paid |-> outcome = "paid"] \in Event
  BY DEF Event
<1>3. events' \subseteq Event /\ pay' \in [Sessions -> PayStatus] /\ queued' \subseteq events'
  BY <1>1, <1>2 DEF TypeOK, Settle, PayStatus
<1> QED
  BY <1>3 DEF TypeOK, StripeStep, row

LEMMA RequeueKeepsType ==
    ASSUME TypeOK, NEW ev \in events, Requeue(ev)
    PROVE  TypeOK'
BY DEF TypeOK, Requeue, row

\* The worker of w changes to a legal state, and the others do not move.
WorkerMoves(w, new) == new \in WorkerType /\ worker' = [worker EXCEPT ![w] = new]

LEMMA WorkerMovesType ==
    ASSUME TypeOK, NEW w \in Workers, NEW new, WorkerMoves(w, new),
           new.at = "idle" <=> new.event = NoEvent
    PROVE  /\ worker' \in [Workers -> WorkerType]
           /\ \A x \in Workers : worker'[x].at = "idle" <=> worker'[x].event = NoEvent
BY DEF TypeOK, WorkerMoves, WorkerType

\* A busy worker has an event of Stripe.
LEMMA WorkerRecord ==
    ASSUME TypeOK, NEW w \in Workers
    PROVE  /\ worker[w] \in WorkerType
           /\ worker[w].at # "idle" => Ev(w) \in Event
BY DEF TypeOK, WorkerType, Ev

LEMMA MoveType ==
    ASSUME TypeOK, NEW w \in Workers, NEW step \in Step \ {"idle"}, worker[w].at # "idle",
           \/ Move(w, step)
           \/ worker' = [worker EXCEPT ![w].at = step, ![w].unset = session[Case(w)] = NoSession]
           \/ worker' = [worker EXCEPT ![w].again = TRUE, ![w].at = step]
    PROVE  /\ worker' \in [Workers -> WorkerType]
           /\ \A x \in Workers : worker'[x].at = "idle" <=> worker'[x].event = NoEvent
<1>1. worker[w] \in WorkerType /\ worker[w].event # NoEvent
  BY DEF TypeOK, WorkerType
<1>2. CASE Move(w, step)
  BY <1>1, <1>2 DEF TypeOK, Move, WorkerType
<1>3. CASE worker' = [worker EXCEPT ![w].at = step, ![w].unset = session[Case(w)] = NoSession]
  BY <1>1, <1>3 DEF TypeOK, WorkerType
<1>4. CASE worker' = [worker EXCEPT ![w].again = TRUE, ![w].at = step]
  BY <1>1, <1>4 DEF TypeOK, WorkerType
<1> QED
  BY <1>2, <1>3, <1>4

LEMMA IdleType ==
    ASSUME TypeOK, NEW w \in Workers, worker' = [worker EXCEPT ![w] = Idle]
    PROVE  /\ worker' \in [Workers -> WorkerType]
           /\ \A x \in Workers : worker'[x].at = "idle" <=> worker'[x].event = NoEvent
BY CaseAssumption DEF TypeOK, WorkerType, Idle, Step

LEMMA AttemptType ==
    ASSUME TypeOK, NEW w \in Workers, NEW ev \in Event, NEW n \in 0..(MaxAttempts - 1),
           Branch(ev) # "none", worker' = [worker EXCEPT ![w] = Attempt(ev, n)]
    PROVE  /\ worker' \in [Workers -> WorkerType]
           /\ \A x \in Workers : worker'[x].at = "idle" <=> worker'[x].event = NoEvent
<1>1. Branch(ev) \in Step \ {"idle"} /\ ev # NoEvent
  BY NoEventIsNoEvent DEF Branch, Step
<1>2. Attempt(ev, n) \in WorkerType /\ Attempt(ev, n).at # "idle" /\ Attempt(ev, n).event # NoEvent
  BY <1>1 DEF Attempt, WorkerType
<1> QED
  BY <1>2, WorkerMovesType DEF WorkerMoves

LEMMA TryAgainType ==
    ASSUME TypeOK, NEW w \in Workers, worker[w].at # "idle", TryAgain(w)
    PROVE  /\ worker' \in [Workers -> WorkerType]
           /\ \A x \in Workers : worker'[x].at = "idle" <=> worker'[x].event = NoEvent
           /\ givenUp' \subseteq Event
<1>1. worker[w] \in WorkerType /\ Ev(w) \in Event
  BY WorkerRecord
<1>2. CASE Abandon(w)
  BY <1>1, <1>2, IdleType DEF TypeOK, Abandon
<1>3. CASE /\ worker[w].tries + 1 < MaxAttempts
           /\ worker' = [worker EXCEPT ![w] = Waits(worker[w])]
           /\ UNCHANGED givenUp
  <2> DEFINE new == Waits(worker[w])
  <2>1. worker[w].tries + 1 \in 0..(MaxAttempts - 1)
    BY <1>1, <1>3, CaseAssumption DEF WorkerType
  <2>2. new \in WorkerType /\ new.at # "idle" /\ new.event # NoEvent
    BY <1>1, <2>1, NoEventIsNoEvent DEF WorkerType, Step, Ev, Waits
  <2>3. worker' = [worker EXCEPT ![w] = new]
    BY <1>3
  <2> HIDE DEF new
  <2> QED
    BY <1>3, <2>2, <2>3, WorkerMovesType DEF WorkerMoves, TypeOK
<1> QED
  BY <1>2, <1>3 DEF TryAgain

LEMMA WakeUpType ==
    ASSUME TypeOK, NEW w \in Workers, OnACase, WakeUp(w)
    PROVE  /\ worker' \in [Workers -> WorkerType]
           /\ \A x \in Workers : worker'[x].at = "idle" <=> worker'[x].event = NoEvent
<1>1. Ev(w) \in Event /\ worker[w].tries \in 0..(MaxAttempts - 1) /\ Branch(Ev(w)) # "none"
  BY WorkerRecord DEF WakeUp, WorkerType, OnACase
<1>2. CASE worker' = [worker EXCEPT ![w] = Idle]
  BY <1>2, IdleType
<1>3. CASE worker' = [worker EXCEPT ![w] = Attempt(Ev(w), worker[w].tries)]
  BY <1>1, <1>3, AttemptType
<1> QED
  BY <1>2, <1>3 DEF WakeUp

\* What a worker does not touch, and where the rows can change.
LEMMA WorkerLeaves ==
    ASSUME NEW w \in Workers, WorkerTurn(w)
    PROVE  /\ UNCHANGED <<pay, owner, inFlight, made, staleWrite>>
           /\ events' \subseteq events
           /\ FinalizeWrite(w) \/ Expire(w) \/ UNCHANGED <<caseState, report>>
BY DEF WorkerTurn, WorkerStep, WorkerFault, Take, WakeUp, Mark, FinalizeRead, FinalizeWrite,
       Reconcile, Overwrite, Expire, StripeUnavailable, WorkerFails, WorkerDies, row

LEMMA WorkerKeepsType ==
    ASSUME TypeOK, OnACase, NEW w \in Workers, WorkerTurn(w)
    PROVE  TypeOK'
<1> DEFINE WorkerOK == /\ worker' \in [Workers -> WorkerType]
                       /\ \A x \in Workers : worker'[x].at = "idle" <=> worker'[x].event = NoEvent
           QueueOK == queued' \subseteq events' /\ givenUp' \subseteq Event
<1>1. ASSUME WorkerOK, QueueOK,
             caseState' \in [Multas -> CaseState \cup {"none"}],
             session' \in [Multas -> Sessions \cup {NoSession}],
             report' \in [Multas -> BOOLEAN],
             faults' \in Nat
      PROVE  TypeOK'
  BY <1>1, WorkerLeaves DEF TypeOK, WorkerType
<1>2. ASSUME WorkerOK, QueueOK, UNCHANGED row, faults' \in Nat PROVE TypeOK'
  BY <1>1, <1>2 DEF TypeOK, row
<1>3. ASSUME NEW ev \in queued, Take(w, ev) PROVE TypeOK'
  <2>1. UNCHANGED <<row, faults>> /\ QueueOK /\ ev \in Event
    BY <1>3 DEF Take, TypeOK
  <2>2. CASE Branch(ev) # "none" /\ worker' = [worker EXCEPT ![w] = Attempt(ev, 0)]
    <3>1. 0 \in 0..(MaxAttempts - 1)
      BY CaseAssumption
    <3> QED
      BY <1>2, <2>1, <2>2, <3>1, AttemptType DEF TypeOK
  <2>3. CASE UNCHANGED worker
    BY <1>2, <2>1, <2>3 DEF TypeOK, WorkerType
  <2> QED
    BY <1>3, <2>2, <2>3 DEF Take
<1>4. CASE WakeUp(w)
  BY <1>2, <1>4, WakeUpType DEF WakeUp, TypeOK
<1>5. CASE Mark(w)
  BY <1>2, <1>5, IdleType DEF Mark, TypeOK
<1>6. CASE FinalizeRead(w)
  <2>1. "mark" \in Step \ {"idle"} /\ "write" \in Step \ {"idle"}
        /\ "reconcile" \in Step \ {"idle"} /\ worker[w].at # "idle"
    BY <1>6 DEF FinalizeRead, Step
  <2>2. WorkerOK /\ givenUp' \subseteq Event
    <3>1. CASE TryAgain(w)
      BY <2>1, <3>1, TryAgainType
    <3>2. CASE /\ \/ Move(w, "mark") \/ Move(w, "reconcile")
                  \/ worker' = [worker EXCEPT ![w].at = "write",
                                              ![w].unset = session[Case(w)] = NoSession]
               /\ UNCHANGED givenUp
      BY <2>1, <3>2, MoveType DEF TypeOK
    <3> QED
      BY <1>6, <3>1, <3>2 DEF FinalizeRead
  <2> QED
    BY <1>2, <1>6, <2>2 DEF FinalizeRead, TypeOK
<1>7. CASE FinalizeWrite(w)
  <2>1. caseState' \in [Multas -> CaseState \cup {"none"}]
    BY <1>7, SetStateType DEF FinalizeWrite, CaseState
  <2>2. session' \in [Multas -> Sessions \cup {NoSession}]
    <3>1. Ev(w).session \in Sessions
      BY <1>7, WorkerRecord DEF FinalizeWrite, Event
    <3> QED
      BY <1>7, <3>1 DEF FinalizeWrite, TypeOK
  <2>3. report' \in [Multas -> BOOLEAN]
    BY <1>7 DEF FinalizeWrite, WriteReport, TypeOK
  <2>4. "mark" \in Step \ {"idle"} /\ worker[w].at # "idle"
    BY <1>7 DEF FinalizeWrite, Step
  <2>5. WorkerOK
    BY <1>7, <2>4, MoveType DEF FinalizeWrite
  <2> QED
    BY <1>1, <1>7, <2>1, <2>2, <2>3, <2>5 DEF FinalizeWrite, TypeOK
<1>8. CASE Reconcile(w)
  <2>1. "finalize" \in Step \ {"idle"} /\ "overwrite" \in Step \ {"idle"} /\ worker[w].at # "idle"
    BY <1>8 DEF Reconcile, Step
  <2>2. WorkerOK
    BY <1>8, <2>1, MoveType DEF Reconcile
  <2> QED
    BY <1>2, <1>8, <2>2 DEF Reconcile, TypeOK
<1>9. CASE Overwrite(w)
  <2>1. "finalize" \in Step \ {"idle"} /\ worker[w].at # "idle" /\ Ev(w).session \in Sessions
    BY <1>9, WorkerRecord DEF Overwrite, Step, Event
  <2>2. WorkerOK
    BY <1>9, <2>1, MoveType DEF Overwrite
  <2>3. session' \in [Multas -> Sessions \cup {NoSession}]
    BY <1>9, <2>1 DEF Overwrite, TypeOK
  <2> QED
    BY <1>1, <1>9, <2>2, <2>3 DEF Overwrite, TypeOK
<1>10. CASE Expire(w)
  <2>1. caseState' \in [Multas -> CaseState \cup {"none"}]
    BY <1>10, SetStateType DEF Expire, CaseState, TypeOK
  <2>2. "mark" \in Step \ {"idle"} /\ worker[w].at # "idle"
    BY <1>10 DEF Expire, Step
  <2>3. WorkerOK
    BY <1>10, <2>2, MoveType DEF Expire
  <2> QED
    BY <1>1, <1>10, <2>1, <2>3 DEF Expire, TypeOK
<1>11. Fault => faults' \in Nat
  BY DEF Fault, TypeOK
<1>12. CASE StripeUnavailable(w)
  <2>1. worker[w].at # "idle"
    BY <1>12 DEF StripeUnavailable
  <2> QED
    BY <1>2, <1>11, <1>12, <2>1, TryAgainType DEF StripeUnavailable, TypeOK
<1>13. CASE WorkerFails(w)
  <2>2. CASE worker[w].at # "idle" /\ Abandon(w) /\ UNCHANGED queued
    <3>1. Ev(w) \in Event
      BY <2>2, WorkerRecord
    <3> QED
      BY <1>2, <1>11, <1>13, <2>2, <3>1, IdleType DEF WorkerFails, Abandon, TypeOK
  <2>3. CASE UNCHANGED worker /\ \E ev \in queued : queued' = queued \ {ev}
                                                  /\ givenUp' = givenUp \cup {ev}
    <3>1. WorkerOK
      BY <2>3 DEF TypeOK, WorkerType
    <3>2. QueueOK
      BY <1>13, <2>3 DEF TypeOK, WorkerFails
    <3> QED
      BY <1>2, <1>11, <1>13, <3>1, <3>2 DEF WorkerFails
  <2> QED
    BY <1>13, <2>2, <2>3 DEF WorkerFails
<1>14. CASE WorkerDies(w)
  <2>1. Ev(w) \in Event \cup {NoEvent}
    BY DEF TypeOK, Ev
  <2>2. PICK lost \in SUBSET queued :
           /\ queued' = queued \ lost
           /\ givenUp' = givenUp \cup lost \cup ({Ev(w)} \ {NoEvent})
    BY <1>14 DEF WorkerDies
  <2>3. QueueOK
    BY <1>14, <2>1, <2>2 DEF WorkerDies, TypeOK
  <2> QED
    BY <1>2, <1>11, <1>14, <2>3, IdleType DEF WorkerDies
<1> QED
  BY <1>3, <1>4, <1>5, <1>6, <1>7, <1>8, <1>9, <1>10, <1>12, <1>13, <1>14
     DEF WorkerTurn, WorkerStep, WorkerFault

LEMMA WorkerStaysOnACase ==
    ASSUME TypeOK, OnACase, NEW w \in Workers, WorkerTurn(w)
    PROVE  OnACase'
<1>1. owner' = owner
  BY WorkerLeaves
<1>2. ASSUME NEW new, worker' = [worker EXCEPT ![w] = new],
             new.at # "idle" => Branch(new.event) # "none"
      PROVE  OnACase'
  BY <1>1, <1>2 DEF TypeOK, OnACase, Ev, Branch
<1>3. worker[w].at # "idle" => Branch(worker[w].event) # "none"
  BY DEF OnACase, Ev
<1>4. CASE worker' = [worker EXCEPT ![w] = Idle]
  BY <1>2, <1>4 DEF Idle
<1>5. ASSUME NEW ev, NEW n, Branch(ev) # "none", worker' = [worker EXCEPT ![w] = Attempt(ev, n)]
      PROVE  OnACase'
  BY <1>2, <1>5 DEF Attempt
<1>6. CASE UNCHANGED worker
  BY <1>1, <1>6 DEF OnACase, Ev, Branch
<1>7. ASSUME worker[w].at # "idle", NEW step, Move(w, step) PROVE OnACase'
  BY <1>1, <1>3, <1>7 DEF TypeOK, Move, OnACase, Ev, Branch
<1>8. CASE WakeUp(w)
  BY <1>3, <1>4, <1>5, <1>8 DEF WakeUp, Ev
<1>9. ASSUME worker[w].at # "idle", TryAgain(w) PROVE OnACase'
  <2>1. CASE worker' = [worker EXCEPT ![w] = Waits(worker[w])]
    <3>1. PICK new : new = Waits(worker[w])
      OBVIOUS
    <3>2. new.event = worker[w].event
      BY <3>1 DEF TypeOK, Waits
    <3>3. worker' = [worker EXCEPT ![w] = new]
      BY <2>1, <3>1
    <3> QED
      BY <1>2, <1>3, <1>9, <3>2, <3>3
  <2> QED
    BY <1>4, <1>9, <2>1 DEF TryAgain, Abandon
<1>10. CASE FinalizeRead(w)
  <2>1. worker[w].at # "idle"
    BY <1>10 DEF FinalizeRead
  <2>2. CASE worker' = [worker EXCEPT ![w].at = "write", ![w].unset = session[Case(w)] = NoSession]
    BY <1>1, <1>3, <2>1, <2>2 DEF TypeOK, OnACase, Ev, Branch
  <2> QED
    BY <1>7, <1>9, <1>10, <2>1, <2>2 DEF FinalizeRead
<1>11. CASE Reconcile(w)
  BY <1>1, <1>3, <1>11 DEF TypeOK, Reconcile, OnACase, Ev, Branch
<1>12. CASE FinalizeWrite(w) \/ Overwrite(w) \/ Expire(w)
  BY <1>7, <1>12 DEF FinalizeWrite, Overwrite, Expire
<1>13. CASE Mark(w) \/ WorkerDies(w)
  BY <1>4, <1>13 DEF Mark, WorkerDies
<1>14. CASE StripeUnavailable(w)
  BY <1>9, <1>14 DEF StripeUnavailable
<1>15. CASE WorkerFails(w)
  BY <1>4, <1>6, <1>15 DEF WorkerFails, Abandon
<1>16. ASSUME NEW ev \in queued, Take(w, ev) PROVE OnACase'
  BY <1>5, <1>6, <1>16 DEF Take
<1> QED
  BY <1>8, <1>10, <1>11, <1>12, <1>13, <1>14, <1>15, <1>16 DEF WorkerTurn, WorkerStep, WorkerFault

\* Who is not a worker leaves the workers alone.
LEMMA OthersLeaveWorkers ==
    /\ \A i \in Requests, m \in Multas :
          Analyze(i, m) \/ Checkout(i, m) \/ Download(i, m) \/ Debug(i, m)
             => UNCHANGED <<owner, events, work>>
    /\ \A r \in inFlight : Request(r) => UNCHANGED <<owner, events, work>>
    /\ \A s \in Sessions : StripeStep(s) => UNCHANGED <<owner, worker>>
    /\ \A ev \in events : Requeue(ev) => UNCHANGED <<owner, events, worker>>
BY DEF Analyze, Checkout, Download, Debug, Request, SaveAnalysis, CreateLooseSession,
       CreateSession, SaveSession, SaveDischarged, SaveError, RequestFails, StripeStep, Requeue

LEMMA TypeNext == TypeOK /\ OnACase /\ [Next]_vars => (TypeOK /\ OnACase)'
<1> SUFFICES ASSUME TypeOK, OnACase, [Next]_vars PROVE (TypeOK /\ OnACase)'
  OBVIOUS
<1>1. UNCHANGED <<owner, worker>> => OnACase'
  BY DEF OnACase, Ev, Branch
<1>2. CASE UNCHANGED vars
  BY <1>1, <1>2 DEF vars, TypeOK, work
<1>3. CASE \E w \in Workers : WorkerTurn(w)
  BY <1>3, WorkerKeepsType, WorkerStaysOnACase
<1>4. CASE \/ \E i \in Requests, m \in Multas :
                 Analyze(i, m) \/ Checkout(i, m) \/ Download(i, m) \/ Debug(i, m)
           \/ \E r \in inFlight : Request(r)
           \/ \E s \in Sessions : StripeStep(s)
           \/ \E ev \in events : Requeue(ev)
  <2>1. UNCHANGED <<owner, worker>>
    BY <1>4, OthersLeaveWorkers DEF work
  <2> QED
    BY <1>1, <1>4, <2>1, OpenKeepsType, RequestKeepsType, StripeKeepsType, RequeueKeepsType
<1> QED
  BY <1>2, <1>3, <1>4 DEF Next, WorkerTurn

LEMMA OnACaseInit == Init => OnACase
BY DEF Init, OnACase, Idle

\* In every run each row, request and worker stays in its domain, what is queued is
\* not processed yet, and a worker is on an event exactly when it is not idle.
THEOREM CaseTypeCorrect == Spec => []TypeOK
BY TypeInit, OnACaseInit, TypeNext, PTL DEF Spec

-----------------------------------------------------------------------------
(***************************************************************************)
(* What no step takes back: a payment, a report, a note of a stale write,  *)
(* the metadata of a session.                                              *)
(***************************************************************************)

LEMMA NothingTakenBack ==
    ASSUME TypeOK, [Next]_vars
    PROVE  /\ \A m \in Multas : report[m] => report'[m]
           /\ \A s \in Sessions : pay[s] = "paid" => pay'[s] = "paid"
           /\ staleWrite \subseteq staleWrite'
           /\ owner' = owner
<1> DEFINE Kept == /\ \A m \in Multas : report[m] => report'[m]
                   /\ \A s \in Sessions : pay[s] = "paid" => pay'[s] = "paid"
                   /\ staleWrite \subseteq staleWrite'
                   /\ owner' = owner
<1>1. ASSUME NEW i \in Requests, NEW m \in Multas,
             Analyze(i, m) \/ Checkout(i, m) \/ Download(i, m) \/ Debug(i, m)
      PROVE  Kept
  BY <1>1 DEF Analyze, Checkout, Download, Debug, row
<1>2. ASSUME NEW r \in inFlight, Request(r) PROVE Kept
  <2>1. UNCHANGED <<report, owner>> /\ staleWrite \subseteq staleWrite'
    BY <1>2 DEF Request, SaveAnalysis, CreateLooseSession, CreateSession, SaveSession,
                SaveDischarged, SaveError, RequestFails, NoteStale, row
  <2>2. \A s \in Sessions : pay[s] = "paid" => pay'[s] = "paid"
    BY <1>2 DEF TypeOK, Request, SaveAnalysis, CreateLooseSession, CreateSession, SaveSession,
                SaveDischarged, SaveError, RequestFails
  <2> QED
    BY <2>1, <2>2
<1>3. ASSUME NEW s \in Sessions, StripeStep(s) PROVE Kept
  BY <1>3 DEF TypeOK, StripeStep, Settle, row
<1>4. ASSUME NEW w \in Workers, WorkerTurn(w) PROVE Kept
  <2>1. UNCHANGED report \/ FinalizeWrite(w)
    BY <1>4, WorkerLeaves DEF Expire
  <2>2. \A m \in Multas : report[m] => report'[m]
    BY <2>1 DEF TypeOK, FinalizeWrite, WriteReport
  <2> QED
    BY <1>4, <2>2, WorkerLeaves
<1>6. ASSUME NEW ev \in events, Requeue(ev) PROVE Kept
  BY <1>6 DEF Requeue, row
<1>5. CASE UNCHANGED vars
  BY <1>5 DEF vars
<1> QED
  BY <1>1, <1>2, <1>3, <1>4, <1>5, <1>6 DEF Next, WorkerTurn

-----------------------------------------------------------------------------
(* Requests. *)

LEMMA RequestInvNext ==
    ASSUME TypeOK, CaseInv, [Next]_vars
    PROVE  RequestInv'
<1>1. \A m \in Multas : report[m] => report'[m]
  BY NothingTakenBack
<1>2. \A r \in inFlight : r.multa \in Multas
  BY DEF TypeOK, InFlight
<1>3. ASSUME inFlight' \subseteq inFlight
      PROVE  RequestInv'
  BY <1>1, <1>2, <1>3 DEF CaseInv, RequestInv
<1>4. ASSUME NEW i \in Requests, NEW m \in Multas,
             Analyze(i, m) \/ Checkout(i, m) \/ Download(i, m) \/ Debug(i, m)
      PROVE  RequestInv'
  <2>1. ASSUME NEW what, NEW seen, Open(i, m, what, seen),
               what = "saveDischarged" => report[m] /\ seen = "DISCHARGE_READY",
               what \in {"createSession", "saveSession", "saveError"} => ~isPaid(seen)
        PROVE  RequestInv'
    BY <1>1, <1>2, <2>1 DEF CaseInv, RequestInv, Open
  <2>2. Debug(i, m) => ~isPaid(caseState[m])
    BY DEF Debug, Corrupt, CaseInv, PaidHasReport
  <2>3. Checkout(i, m) => ~isPaid(caseState[m])
    BY DEF Checkout, allowsCheckout, isPaid
  <2>4. CASE Analyze(i, m)
    BY <2>1, <2>4 DEF Analyze
  <2>5. CASE Checkout(i, m)
    BY <2>1, <2>3, <2>5 DEF Checkout
  <2>6. CASE Download(i, m)
    BY <2>1, <2>6 DEF Download
  <2>7. CASE Debug(i, m)
    BY <2>1, <2>2, <2>7 DEF Debug
  <2> QED
    BY <1>4, <2>4, <2>5, <2>6, <2>7
<1>5. ASSUME NEW r \in inFlight, Request(r) PROVE RequestInv'
  <2>1. ASSUME NEW new, Continue(r, new),
               new.next # "saveDischarged", new.next # "saveError",
               new.next \in {"createSession", "saveSession"} => ~isPaid(new.saw)
        PROVE  RequestInv'
    BY <1>1, <1>2, <2>1 DEF CaseInv, RequestInv, Continue
  <2>2. CASE SaveAnalysis(r)
    <3>1. [r EXCEPT !.next = "createLoose"].next = "createLoose"
      BY DEF TypeOK, InFlight
    <3> QED
      BY <1>3, <2>1, <2>2, <3>1 DEF SaveAnalysis, Close
  <2>3. CASE CreateSession(r)
    <3>1. PICK s \in Sessions : Continue(r, [r EXCEPT !.session = s, !.next = "saveSession"])
      BY <2>3 DEF CreateSession
    <3>2. /\ [r EXCEPT !.session = s, !.next = "saveSession"].next = "saveSession"
          /\ [r EXCEPT !.session = s, !.next = "saveSession"].saw = r.saw
      BY DEF TypeOK, InFlight
    <3>3. ~isPaid(r.saw)
      BY <2>3 DEF CreateSession, CaseInv, RequestInv
    <3> QED
      BY <2>1, <3>1, <3>2, <3>3
  <2>4. CASE \/ CreateLooseSession(r) \/ SaveSession(r) \/ SaveDischarged(r)
             \/ SaveError(r) \/ RequestFails(r)
    BY <1>3, <2>4 DEF CreateLooseSession, SaveSession, SaveDischarged, SaveError,
                      RequestFails, Close
  <2> QED
    BY <1>5, <2>2, <2>3, <2>4 DEF Request
<1>6. ASSUME NEW s \in Sessions, StripeStep(s) PROVE RequestInv'
  BY <1>3, <1>6 DEF StripeStep
<1>7. ASSUME NEW w \in Workers, WorkerTurn(w) PROVE RequestInv'
  BY <1>3, <1>7, WorkerLeaves
<1>8. ASSUME NEW ev \in events, Requeue(ev) PROVE RequestInv'
  BY <1>3, <1>8 DEF Requeue
<1>9. CASE UNCHANGED vars
  BY <1>3, <1>9 DEF vars
<1> QED
  BY <1>4, <1>5, <1>6, <1>7, <1>8, <1>9 DEF Next, WorkerTurn

-----------------------------------------------------------------------------
(* Payments. *)

LEMMA OneWorkerMoves ==
    ASSUME TypeOK, NEW w \in Workers, WorkerTurn(w)
    PROVE  \E new : worker' = [worker EXCEPT ![w] = new]
<1>1. UNCHANGED worker => worker' = [worker EXCEPT ![w] = worker[w]]
  BY DEF TypeOK
<1>2. ASSUME NEW step, Move(w, step)
      PROVE  worker' = [worker EXCEPT ![w] = [worker[w] EXCEPT !.at = step]]
  BY <1>2 DEF Move
<1>3. TryAgain(w) => \E new : worker' = [worker EXCEPT ![w] = new]
  BY DEF TryAgain, Abandon
<1>4. CASE \/ \E ev \in queued : Take(w, ev)
           \/ WakeUp(w) \/ Mark(w) \/ WorkerFault(w)
  BY <1>1, <1>3, <1>4 DEF Take, WakeUp, Mark, WorkerFault, StripeUnavailable, WorkerFails,
                          WorkerDies, Abandon
<1>5. CASE FinalizeRead(w)
  <2>1. CASE worker' = [worker EXCEPT ![w].at = "write", ![w].unset = session[Case(w)] = NoSession]
    <3>1. worker' = [worker EXCEPT ![w] = [worker[w] EXCEPT !.at = "write",
                                              !.unset = session[Case(w)] = NoSession]]
      BY <2>1 DEF TypeOK
    <3> QED
      BY <3>1
  <2> QED
    BY <1>2, <1>3, <1>5, <2>1 DEF FinalizeRead
<1>6. CASE FinalizeWrite(w) \/ Overwrite(w) \/ Expire(w)
  BY <1>2, <1>6 DEF FinalizeWrite, Overwrite, Expire
<1>7. CASE Reconcile(w)
  <2> DEFINE step == IF SessionOk(Case(w), Ev(w).session) THEN "finalize" ELSE "overwrite"
  <2>1. worker' = [worker EXCEPT ![w] = [worker[w] EXCEPT !.again = TRUE, !.at = step]]
    BY <1>7 DEF TypeOK, Reconcile
  <2> QED
    BY <2>1
<1> QED
  BY <1>4, <1>5, <1>6, <1>7 DEF WorkerTurn, WorkerStep

LEMMA PaymentInvNext ==
    ASSUME TypeOK, CaseInv, [Next]_vars
    PROVE  PaymentInv'
<1>1. /\ \A s \in Sessions : pay[s] = "paid" => pay'[s] = "paid"
      /\ owner' = owner
  BY NothingTakenBack
<1>2. \A ev \in events : ev \in Event /\ ev.session \in Sessions
  BY DEF TypeOK, Event
<1>3. \A w \in Workers : worker[w].at # "idle" => Ev(w).session \in Sessions
  BY WorkerRecord DEF Event
<1>4. ASSUME events' \subseteq events
      PROVE  \A ev \in events' : ev.paid => pay'[ev.session] = "paid"
  BY <1>1, <1>2, <1>4 DEF CaseInv, PaymentInv
<1>5. ASSUME UNCHANGED worker
      PROVE  \A w \in Workers :
               worker'[w].at \in {"finalize", "write", "reconcile", "overwrite"} =>
                  pay'[Ev(w)'.session] = "paid" /\ Case(w)' \in Multas
  BY <1>1, <1>3, <1>5 DEF CaseInv, PaymentInv, Ev, Case
<1>6. ASSUME UNCHANGED <<events, worker>> PROVE PaymentInv'
  BY <1>4, <1>5, <1>6 DEF PaymentInv
<1>7. ASSUME \/ \E i \in Requests, m \in Multas :
                   Analyze(i, m) \/ Checkout(i, m) \/ Download(i, m) \/ Debug(i, m)
             \/ \E r \in inFlight : Request(r)
             \/ \E ev \in events : Requeue(ev)
      PROVE  PaymentInv'
  <2>1. UNCHANGED <<events, worker>>
    BY <1>7, OthersLeaveWorkers DEF work
  <2> QED
    BY <1>6, <2>1
<1>8. ASSUME NEW s \in Sessions, StripeStep(s) PROVE PaymentInv'
  <2>1. PICK outcome \in {"paid", "awaiting", "failed", "expired"}, type \in EventType :
            Settle(s, outcome, type)
    BY <1>8 DEF StripeStep, EventType
  <2> DEFINE new == [type |-> type, session |-> s, paid |-> outcome = "paid"]
  <2>2. events' = events \cup {new} /\ pay'[s] = outcome
    BY <2>1 DEF TypeOK, Settle
  <2>3. new.session = s /\ (new.paid => outcome = "paid")
    OBVIOUS
  <2>4. \A ev \in events : ev.paid => pay'[ev.session] = "paid"
    BY <1>1, <1>2 DEF CaseInv, PaymentInv
  <2>5. \A ev \in events' : ev.paid => pay'[ev.session] = "paid"
    BY <2>2, <2>3, <2>4
  <2>6. UNCHANGED worker
    BY <1>8 DEF StripeStep
  <2> QED
    BY <1>5, <2>5, <2>6 DEF PaymentInv
<1>9. ASSUME NEW w \in Workers, WorkerTurn(w) PROVE PaymentInv'
  <2> DEFINE Knows(x) == pay'[Ev(x)'.session] = "paid" /\ Case(x)' \in Multas
             Paying(x) == worker'[x].at \in {"finalize", "write", "reconcile", "overwrite"}
  <2>1. ASSUME NEW x \in Workers, Ev(x)' = Ev(x),
               worker[x].at \in {"finalize", "write", "reconcile", "overwrite"}
        PROVE  Knows(x)
    BY <1>1, <1>3, <2>1 DEF CaseInv, PaymentInv, Case
  <2>2. \E new : worker' = [worker EXCEPT ![w] = new]
    BY <1>9, OneWorkerMoves
  <2>3. ASSUME NEW x \in Workers \ {w}, Paying(x) PROVE Knows(x)
    BY <2>1, <2>2, <2>3 DEF TypeOK, Ev
  <2>4. ASSUME NEW ev \in events, NEW n, worker' = [worker EXCEPT ![w] = Attempt(ev, n)],
               Paying(w)
        PROVE  Knows(w)
    <3>1. Branch(ev) = "finalize" /\ Ev(w)' = ev
      BY <2>4 DEF TypeOK, Branch, Ev, Attempt
    <3>2. ev.paid /\ owner[ev.session] \in Multas
      BY <1>2, <3>1 DEF TypeOK, Branch
    <3> QED
      BY <1>1, <1>2, <3>1, <3>2 DEF CaseInv, PaymentInv, Case
  <2>5. worker' = [worker EXCEPT ![w] = Idle] => ~Paying(w)
    BY DEF TypeOK, Idle
  <2>6. ASSUME NEW ev \in queued, Take(w, ev), Paying(w) PROVE Knows(w)
    <3>1. ev \in events
      BY DEF TypeOK
    <3>2. CASE UNCHANGED worker
      BY <2>1, <2>6, <3>2 DEF Ev
    <3> QED
      BY <2>4, <2>6, <3>1, <3>2 DEF Take
  <2>7. ASSUME WakeUp(w), Paying(w) PROVE Knows(w)
    <3>1. Ev(w) \in events /\ worker' = [worker EXCEPT ![w] = Attempt(Ev(w), worker[w].tries)]
      BY <2>5, <2>7 DEF WakeUp
    <3> QED
      BY <2>4, <2>7, <3>1
  <2>8. TryAgain(w) => ~Paying(w)
    BY <2>5 DEF TryAgain, Abandon, TypeOK, Waits
  <2>9. ASSUME FinalizeRead(w) \/ Reconcile(w) \/ Overwrite(w), Paying(w) PROVE Knows(w)
    <3>1. worker[w].at \in {"finalize", "reconcile", "overwrite"} /\ Ev(w)' = Ev(w)
      BY <2>8, <2>9 DEF TypeOK, FinalizeRead, Reconcile, Overwrite, Move, Ev
    <3> QED
      BY <2>1, <3>1
  <2>10. FinalizeWrite(w) \/ Expire(w) => ~Paying(w)
    BY DEF TypeOK, FinalizeWrite, Expire, Move
  <2>11. ASSUME WorkerFault(w), Paying(w) PROVE Knows(w)
    <3>1. UNCHANGED worker
      BY <2>5, <2>8, <2>11
         DEF WorkerFault, StripeUnavailable, WorkerFails, WorkerDies, Abandon
    <3> QED
      BY <2>1, <2>11, <3>1 DEF Ev
  <2>12. Mark(w) => ~Paying(w)
    BY <2>5 DEF Mark
  <2>13. Paying(w) => Knows(w)
    BY <1>9, <2>6, <2>7, <2>9, <2>10, <2>11, <2>12 DEF WorkerTurn, WorkerStep
  <2> QED
    BY <1>4, <1>9, <2>3, <2>13, WorkerLeaves DEF PaymentInv
<1>10. CASE UNCHANGED vars
  BY <1>6, <1>10 DEF vars
<1> QED
  BY <1>7, <1>8, <1>9, <1>10 DEF Next, WorkerTurn

-----------------------------------------------------------------------------
(* The reports. *)

\* What a step may write in the row of a case: a paid state with its report, or
\* an unpaid state over an unpaid one, unless it is noted as a stale write.
RightfulWrite(m) ==
    \/ isPaid(caseState'[m]) /\ report'[m]
    \/ /\ report'[m] = report[m]
       /\ \/ caseState'[m] = caseState[m]
          \/ /\ ~isPaid(caseState'[m])
             /\ ~isPaid(caseState[m]) \/ m \in staleWrite'

LEMMA RequestWrites ==
    ASSUME TypeOK, CaseInv, NEW r \in inFlight, Request(r)
    PROVE  \A m \in Multas : RightfulWrite(m)
<1>1. r.multa \in Multas /\ UNCHANGED report
  BY DEF TypeOK, InFlight, Request, SaveAnalysis, CreateLooseSession, CreateSession, SaveSession,
         SaveDischarged, SaveError, RequestFails, row
<1>2. ASSUME NEW cs, SetState(r.multa, cs),
             \/ isPaid(cs) /\ report[r.multa]
             \/ ~isPaid(cs) /\ ~isPaid(r.saw) /\ NoteStale(r)
      PROVE  \A m \in Multas : RightfulWrite(m)
  BY <1>1, <1>2 DEF TypeOK, SetState, NoteStale, RightfulWrite
<1>3. UNCHANGED caseState => \A m \in Multas : RightfulWrite(m)
  BY <1>1 DEF RightfulWrite
<1>4. CASE SaveAnalysis(r)
  <2>1. allowsAnalyze(r.saw) => ~isPaid(r.saw) /\ ~isPaid("ANALYZED")
    BY DEF allowsAnalyze, isPaid
  <2> QED
    BY <1>2, <1>3, <1>4, <2>1 DEF SaveAnalysis
<1>5. CASE SaveSession(r)
  <2>1. ~isPaid(r.saw) /\ ~isPaid("PAYMENT_PENDING")
    BY <1>5 DEF SaveSession, CaseInv, RequestInv, isPaid
  <2> QED
    BY <1>2, <1>5, <2>1 DEF SaveSession
<1>6. CASE SaveDischarged(r)
  <2>1. isPaid("DISCHARGED") /\ report[r.multa]
    BY <1>6 DEF SaveDischarged, CaseInv, RequestInv, isPaid
  <2> QED
    BY <1>2, <1>6, <2>1 DEF SaveDischarged
<1>7. CASE SaveError(r)
  <2>1. ~isPaid(r.saw) /\ ~isPaid("FAILED")
    BY <1>7 DEF SaveError, CaseInv, RequestInv, isPaid
  <2> QED
    BY <1>2, <1>3, <1>7, <2>1 DEF SaveError
<1>8. CASE CreateLooseSession(r) \/ CreateSession(r) \/ RequestFails(r)
  BY <1>3, <1>8 DEF CreateLooseSession, CreateSession, RequestFails, row
<1> QED
  BY <1>4, <1>5, <1>6, <1>7, <1>8 DEF Request

LEMMA WorkerWrites ==
    ASSUME TypeOK, CaseInv, NEW w \in Workers, WorkerTurn(w)
    PROVE  \A m \in Multas : RightfulWrite(m)
<1>1. CASE FinalizeWrite(w)
  BY <1>1 DEF TypeOK, FinalizeWrite, SetState, WriteReport, RightfulWrite, isPaid
<1>2. CASE Expire(w)
  BY <1>2 DEF TypeOK, Expire, MayExpire, SetState, RightfulWrite, isPaid
<1>3. CASE UNCHANGED <<caseState, report>>
  BY <1>3 DEF RightfulWrite
<1> QED
  BY <1>1, <1>2, <1>3, WorkerLeaves

LEMMA EveryWriteIsRightful ==
    ASSUME TypeOK, CaseInv, [Next]_vars
    PROVE  \A m \in Multas : RightfulWrite(m)
<1>1. ASSUME NEW i \in Requests, NEW m \in Multas,
             Analyze(i, m) \/ Checkout(i, m) \/ Download(i, m) \/ Debug(i, m)
      PROVE  \A x \in Multas : RightfulWrite(x)
  <2>1. CASE Analyze(i, m)
    BY <2>1 DEF TypeOK, Analyze, SetState, RightfulWrite, isPaid
  <2>2. CASE Checkout(i, m) \/ Download(i, m) \/ Debug(i, m)
    BY <2>2 DEF Checkout, Download, Debug, RightfulWrite, row
  <2> QED
    BY <1>1, <2>1, <2>2
<1>2. ASSUME NEW s \in Sessions, StripeStep(s)
      PROVE  \A x \in Multas : RightfulWrite(x)
  BY <1>2 DEF StripeStep, RightfulWrite, row
<1>3. ASSUME NEW ev \in events, Requeue(ev) PROVE \A x \in Multas : RightfulWrite(x)
  BY <1>3 DEF Requeue, RightfulWrite, row
<1>4. CASE UNCHANGED vars
  BY <1>4 DEF vars, RightfulWrite
<1> QED
  BY <1>1, <1>2, <1>3, <1>4, RequestWrites, WorkerWrites DEF Next, WorkerTurn

\* Only the transaction of finalize writes a report, for a session that Stripe
\* was paid for that case.
LEMMA ReportsArePaid ==
    ASSUME TypeOK, CaseInv, [Next]_vars
    PROVE  ReportWasPaid'
<1>1. /\ \A s \in Sessions : pay[s] = "paid" => pay'[s] = "paid"
      /\ owner' = owner
  BY NothingTakenBack
<1>2. ASSUME NEW w \in Workers, FinalizeWrite(w)
      PROVE  /\ \A m \in Multas : report'[m] => report[m] \/ m = Case(w)
             /\ Ev(w).session \in Sessions /\ pay[Ev(w).session] = "paid"
  <2>1. worker[w].at = "write"
    BY <1>2 DEF FinalizeWrite
  <2> QED
    BY <1>2, <2>1, WorkerRecord
       DEF TypeOK, FinalizeWrite, WriteReport, CaseInv, PaymentInv, Event
<1>3. UNCHANGED report \/ \E w \in Workers : FinalizeWrite(w)
  <2>1. ASSUME NEW w \in Workers, WorkerTurn(w)
        PROVE  UNCHANGED report \/ FinalizeWrite(w)
    BY <2>1, WorkerLeaves DEF Expire
  <2>2. CASE ~\E w \in Workers : WorkerTurn(w)
    BY <2>2 DEF WorkerTurn, Next, vars, row, Analyze, Checkout, Download, Debug, Request,
         SaveAnalysis, CreateLooseSession, CreateSession, SaveSession, SaveDischarged, SaveError,
         RequestFails, StripeStep, Requeue
  <2> QED
    BY <2>1, <2>2
<1>4. ASSUME NEW m \in Multas, report'[m]
      PROVE  \E s \in Sessions : owner[s] = m /\ pay[s] = "paid"
  <2>1. CASE report[m]
    BY <2>1 DEF CaseInv, ReportWasPaid
  <2>2. CASE ~report[m]
    BY <1>2, <1>3, <1>4, <2>2 DEF Case
  <2> QED
    BY <2>1, <2>2
<1> QED
  BY <1>1, <1>4 DEF ReportWasPaid

LEMMA CaseInit == Init => CaseInv
BY DEF Init, Idle, NoEvent, CaseInv, RequestInv, PaymentInv, PaidHasReport, ReportWasPaid,
       ReportLostOnlyByStaleWrite, isPaid

LEMMA CaseNext == TypeOK /\ CaseInv /\ [Next]_vars => CaseInv'
<1> SUFFICES ASSUME TypeOK, CaseInv, [Next]_vars PROVE CaseInv'
  OBVIOUS
<1>1. \A m \in Multas : RightfulWrite(m)
  BY EveryWriteIsRightful
<1>2. /\ \A m \in Multas : report[m] => report'[m]
      /\ staleWrite \subseteq staleWrite'
  BY NothingTakenBack
<1>3. PaidHasReport'
  BY <1>1, <1>2 DEF CaseInv, PaidHasReport, RightfulWrite
<1>4. ReportLostOnlyByStaleWrite'
  BY <1>1, <1>2 DEF CaseInv, ReportLostOnlyByStaleWrite, RightfulWrite
<1> QED
  BY <1>3, <1>4, RequestInvNext, PaymentInvNext, ReportsArePaid DEF CaseInv

THEOREM CaseInvHolds == Spec => []CaseInv
BY CaseTypeCorrect, CaseInit, CaseNext, PTL DEF Spec

\* However requests, workers and sessions overlap, a case is paid, ready or
\* discharged only with its report (multa.opstelemetry.js:90).
THEOREM PaidCasesHaveReport == Spec => []PaidHasReport
<1>1. CaseInv => PaidHasReport
  BY DEF CaseInv
<1> QED
  BY <1>1, CaseInvHolds, PTL

\* However they overlap, a report exists only for a case that was paid through
\* a session of its own.
THEOREM ReportsWerePaid == Spec => []ReportWasPaid
<1>1. CaseInv => ReportWasPaid
  BY DEF CaseInv
<1> QED
  BY <1>1, CaseInvHolds, PTL

\* A delivered report leaves the paid states only through a request that wrote
\* over a state it had not read.
THEOREM ReportsAreLostOnlyByStaleWrites == Spec => []ReportLostOnlyByStaleWrite
<1>1. CaseInv => ReportLostOnlyByStaleWrite
  BY DEF CaseInv
<1> QED
  BY <1>1, CaseInvHolds, PTL

-----------------------------------------------------------------------------
(***************************************************************************)
(* MultaCase implements CasePromise, step by step.                         *)
(***************************************************************************)

\* What the customer is promised, in terms of the rows and of Stripe.
Paid     == {s \in Sessions : pay[s] = "paid"}
Reported == {m \in Multas : report[m]}
Shown    == [m \in Multas |-> Says(caseState[m])]

Unpaid(cs) == Says(cs) = "open"

LEMMA OpenIsUnpaid ==
    ASSUME NEW cs
    PROVE  ~isPaid(cs) => Unpaid(cs)
BY DEF isPaid, Unpaid, Says

LEMMA ShownAfter ==
    ASSUME TypeOK, NEW m \in Multas, NEW cs, SetState(m, cs)
    PROVE  Shown' = [Shown EXCEPT ![m] = Says(cs)]
BY DEF TypeOK, SetState, Shown

\* A case that was open and stays open shows the same.
LEMMA ShownStays ==
    ASSUME TypeOK, NEW m \in Multas, NEW cs, SetState(m, cs), Unpaid(cs), Unpaid(caseState[m])
    PROVE  Shown' = Shown
BY ShownAfter DEF Shown, Unpaid

LEMMA NothingPromised ==
    ASSUME Paid' = Paid, Reported' = Reported, Shown' = Shown, UNCHANGED <<owner, staleWrite>>
    PROVE  [Promise!Next]_(Promise!vars)
BY DEF Promise!vars, Paid, Reported, Shown

\* The write of a request that had read an unpaid row.
LEMMA UnpaidWrite ==
    ASSUME TypeOK, NEW r, r.multa \in Multas, NEW cs, SetState(r.multa, cs), NoteStale(r),
           Unpaid(cs), Unpaid(r.saw), Paid' = Paid, UNCHANGED <<owner, report>>
    PROVE  [Promise!Next]_(Promise!vars)
<1>1. Reported' = Reported
  BY DEF Reported
<1>2. CASE caseState[r.multa] = r.saw
  <2>1. Shown' = Shown
    BY <1>2, ShownStays
  <2> QED
    BY <1>1, <1>2, <2>1, NothingPromised DEF NoteStale
<1>3. CASE caseState[r.multa] # r.saw
  <2>1. Shown' = [Shown EXCEPT ![r.multa] = "open"]
    BY ShownAfter DEF Unpaid
  <2>2. staleWrite' = staleWrite \cup {r.multa}
    BY <1>3 DEF NoteStale
  <2>3. Promise!Overwrite(r.multa)
    BY <1>1, <2>1, <2>2 DEF Promise!Overwrite, Paid, Reported, Shown
  <2> QED
    BY <2>3 DEF Promise!Next
<1> QED
  BY <1>2, <1>3

LEMMA RequestKeepsPromise ==
    ASSUME TypeOK, CaseInv, NEW r \in inFlight, Request(r)
    PROVE  [Promise!Next]_(Promise!vars)
<1>1. r.multa \in Multas /\ UNCHANGED <<owner, report>> /\ Reported' = Reported
  BY DEF TypeOK, InFlight, Reported, Request, SaveAnalysis, CreateLooseSession, CreateSession,
         SaveSession, SaveDischarged, SaveError, RequestFails, row
<1>2. Paid' = Paid
  <2>1. ASSUME NEW s \in Sessions, NEW new, pay' = [pay EXCEPT ![s] = new],
               pay[s] = "paid" <=> new = "paid"
        PROVE  Paid' = Paid
    BY <2>1 DEF TypeOK, Paid
  <2>2. UNCHANGED pay => Paid' = Paid
    BY DEF Paid
  <2>3. CASE SaveSession(r)
    <3>1. UNCHANGED pay \/ (/\ r.session \in Sessions
                            /\ pay' = [pay EXCEPT ![r.session] =
                                          IF @ = "created" THEN "open" ELSE @])
      BY <2>3 DEF TypeOK, InFlight, SaveSession
    <3> QED
      BY <3>1 DEF TypeOK, Paid
  <2>4. CASE CreateLooseSession(r) \/ CreateSession(r)
    BY <2>1, <2>4 DEF CreateLooseSession, CreateSession
  <2>5. CASE SaveAnalysis(r) \/ SaveDischarged(r) \/ SaveError(r) \/ RequestFails(r)
    BY <2>2, <2>5 DEF SaveAnalysis, SaveDischarged, SaveError, RequestFails
  <2> QED
    BY <2>3, <2>4, <2>5 DEF Request
<1>3. ASSUME UNCHANGED <<caseState, staleWrite>> PROVE [Promise!Next]_(Promise!vars)
  BY <1>1, <1>2, <1>3, NothingPromised DEF Shown
<1>4. CASE SaveAnalysis(r)
  <2>1. allowsAnalyze(r.saw) => Unpaid(r.saw)
    BY OpenIsUnpaid DEF allowsAnalyze, isPaid
  <2>2. Unpaid("ANALYZED")
    BY DEF Unpaid, Says
  <2> QED
    BY <1>1, <1>2, <1>3, <1>4, <2>1, <2>2, UnpaidWrite DEF SaveAnalysis
<1>5. CASE SaveSession(r)
  <2>1. Unpaid(r.saw)
    BY <1>5, OpenIsUnpaid DEF SaveSession, CaseInv, RequestInv
  <2>2. Unpaid("PAYMENT_PENDING")
    BY DEF Unpaid, Says
  <2> QED
    BY <1>1, <1>2, <1>5, <2>1, <2>2, UnpaidWrite DEF SaveSession
<1>6. CASE SaveError(r)
  <2>1. Unpaid(r.saw)
    BY <1>6, OpenIsUnpaid DEF SaveError, CaseInv, RequestInv
  <2>2. Unpaid("FAILED")
    BY DEF Unpaid, Says
  <2> QED
    BY <1>1, <1>2, <1>3, <1>6, <2>1, <2>2, UnpaidWrite DEF SaveError
<1>7. CASE SaveDischarged(r)
  <2>1. r.multa \in Reported /\ r.saw = "DISCHARGE_READY"
    BY <1>1, <1>7 DEF SaveDischarged, CaseInv, RequestInv, Reported
  <2>2. Shown' = [Shown EXCEPT ![r.multa] = "discharged"]
    BY <1>1, <1>7, ShownAfter DEF SaveDischarged, Says
  <2>3. CASE caseState[r.multa] = r.saw
    <3>1. Shown[r.multa] = "ready" /\ UNCHANGED staleWrite
      BY <1>1, <1>7, <2>1, <2>3 DEF SaveDischarged, NoteStale, Shown, Says
    <3>2. Promise!HandOver(r.multa)
      BY <1>1, <1>2, <2>2, <3>1 DEF Promise!HandOver, Paid, Reported, Shown
    <3> QED
      BY <1>1, <3>2 DEF Promise!Next
  <2>4. CASE caseState[r.multa] # r.saw
    <3>1. staleWrite' = staleWrite \cup {r.multa}
      BY <1>7, <2>4 DEF SaveDischarged, NoteStale
    <3>2. Promise!Overwrite(r.multa)
      BY <1>1, <1>2, <2>1, <2>2, <3>1 DEF Promise!Overwrite, Paid, Reported, Shown
    <3> QED
      BY <1>1, <3>2 DEF Promise!Next
  <2> QED
    BY <2>3, <2>4
<1>8. CASE CreateLooseSession(r) \/ CreateSession(r) \/ RequestFails(r)
  BY <1>3, <1>8 DEF CreateLooseSession, CreateSession, RequestFails, row
<1> QED
  BY <1>4, <1>5, <1>6, <1>7, <1>8 DEF Request

\* The transaction of finalize reports a case that was paid; an expiry closes
\* what was not paid; the rest of a worker is not seen.
LEMMA WorkerKeepsPromise ==
    ASSUME TypeOK, CaseInv, NEW w \in Workers, WorkerTurn(w)
    PROVE  [Promise!Next]_(Promise!vars)
<1>1. UNCHANGED <<pay, owner, staleWrite>> /\ Paid' = Paid
  BY WorkerLeaves DEF Paid
<1>2. CASE FinalizeWrite(w)
  <2>1. Case(w) \in Multas /\ Ev(w).session \in Paid /\ owner[Ev(w).session] = Case(w)
    BY <1>2, WorkerRecord DEF FinalizeWrite, CaseInv, PaymentInv, Paid, Case, Event
  <2>2. PICK m \in Multas : m = Case(w)
    BY <2>1
  <2>3. Shown' = [Shown EXCEPT ![m] = "ready"]
    BY <1>2, <2>2, ShownAfter DEF FinalizeWrite, Says
  <2>4. Reported' = Reported \cup {m}
    BY <1>2, <2>2 DEF TypeOK, FinalizeWrite, WriteReport, Reported
  <2>5. Promise!Report(m)
    BY <1>1, <2>1, <2>2, <2>3, <2>4 DEF Promise!Report, Paid, Reported, Shown
  <2> QED
    BY <2>5 DEF Promise!Next
<1>3. CASE Expire(w)
  <2>1. Reported' = Reported
    BY <1>3 DEF Expire, Reported
  <2>2. Shown' = Shown
    <3>1. CASE MayExpire(Case(w)) /\ SetState(Case(w), "FAILED")
      <4>1. Unpaid("FAILED") /\ Unpaid(caseState[Case(w)])
        BY <3>1 DEF MayExpire, Unpaid, Says
      <4>2. CASE Case(w) \in Multas
        BY <3>1, <4>1, <4>2, ShownStays
      <4>3. CASE Case(w) \notin Multas
        BY <3>1, <4>3 DEF TypeOK, SetState, Shown
      <4> QED
        BY <4>2, <4>3
    <3>2. CASE UNCHANGED caseState
      BY <3>2 DEF Shown
    <3> QED
      BY <1>3, <3>1, <3>2 DEF Expire
  <2> QED
    BY <1>1, <2>1, <2>2, NothingPromised
<1>4. CASE UNCHANGED <<caseState, report>>
  BY <1>1, <1>4, NothingPromised DEF Shown, Reported
<1> QED
  BY <1>2, <1>3, <1>4, WorkerLeaves

LEMMA StripeKeepsPromise ==
    ASSUME TypeOK, NEW s \in Sessions, StripeStep(s)
    PROVE  [Promise!Next]_(Promise!vars)
<1>1. UNCHANGED <<owner, staleWrite, caseState, report>>
  BY DEF StripeStep, row
<1>2. Shown' = Shown /\ Reported' = Reported
  BY <1>1 DEF Shown, Reported
<1>3. PICK outcome, type : Settle(s, outcome, type) /\ pay[s] # "paid"
  BY DEF StripeStep
<1>4. CASE outcome = "paid"
  <2>1. Paid' = Paid \cup {s} /\ s \notin Paid
    BY <1>3, <1>4 DEF TypeOK, Settle, Paid
  <2>2. Promise!Pay(s)
    BY <1>1, <1>2, <2>1 DEF Promise!Pay, Paid, Reported, Shown
  <2> QED
    BY <2>2 DEF Promise!Next
<1>5. CASE outcome # "paid"
  <2>1. Paid' = Paid
    BY <1>3, <1>5 DEF TypeOK, Settle, Paid
  <2> QED
    BY <1>1, <1>2, <2>1, NothingPromised
<1> QED
  BY <1>4, <1>5

LEMMA OpenKeepsPromise ==
    ASSUME TypeOK, NEW i \in Requests, NEW m \in Multas,
           Analyze(i, m) \/ Checkout(i, m) \/ Download(i, m) \/ Debug(i, m)
    PROVE  [Promise!Next]_(Promise!vars)
<1>1. UNCHANGED <<pay, owner, report, staleWrite>>
  BY DEF Analyze, Checkout, Download, Debug, row
<1>2. Paid' = Paid /\ Reported' = Reported
  BY <1>1 DEF Paid, Reported
<1>3. Shown' = Shown
  <2>1. CASE Analyze(i, m)
    <3>1. CASE caseState[m] = "none" /\ SetState(m, "CREATED")
      BY <3>1, ShownStays DEF Unpaid, Says
    <3>2. CASE SetState(m, caseState[m])
      BY <3>2 DEF TypeOK, SetState, Shown
    <3> QED
      BY <2>1, <3>1, <3>2 DEF Analyze
  <2>2. CASE Checkout(i, m) \/ Download(i, m) \/ Debug(i, m)
    BY <2>2 DEF Checkout, Download, Debug, row, Shown
  <2> QED
    BY <2>1, <2>2
<1> QED
  BY <1>1, <1>2, <1>3, NothingPromised

LEMMA CasePromiseNext == TypeOK /\ CaseInv /\ [Next]_vars => [Promise!Next]_(Promise!vars)
<1> SUFFICES ASSUME TypeOK, CaseInv, [Next]_vars PROVE [Promise!Next]_(Promise!vars)
  OBVIOUS
<1>1. CASE UNCHANGED vars
  BY <1>1 DEF vars, Promise!vars
<1>2. ASSUME NEW ev \in events, Requeue(ev) PROVE [Promise!Next]_(Promise!vars)
  BY <1>2, NothingPromised DEF Requeue, row, Paid, Reported, Shown
<1> QED
  BY <1>1, <1>2, OpenKeepsPromise, RequestKeepsPromise, StripeKeepsPromise, WorkerKeepsPromise
     DEF Next, WorkerTurn

LEMMA CasePromiseInit == Init => Promise!Init
BY DEF Init, Promise!Init, Says

\* A case keeps the promise of CasePromise for any number of requests, workers,
\* sessions and faults: the report comes after a payment of its own, never goes,
\* is handed over only when it is ready, and is hidden only by a write over a
\* state that was not read.
THEOREM CasesKeepPromise == Spec => KeepsCasePromise
BY CaseTypeCorrect, CaseInvHolds, CasePromiseInit, CasePromiseNext, PTL
   DEF Spec, KeepsCasePromise, Promise!Spec

-----------------------------------------------------------------------------
(***************************************************************************)
(* The workers of MultaCase implement EventClaims.                         *)
(***************************************************************************)

Held == {c \in Workers \X Event : worker[c[1]].event = c[2] /\ worker[c[1]].at # "wait"}

\* The event a worker's record claims, if any.
Hold(rec) == IF rec.at = "wait" THEN NoEvent ELSE rec.event

\* What a step of one worker does to the claims.
LEMMA OneMoves ==
    ASSUME TypeOK, NEW w \in Workers, NEW new, worker' = [worker EXCEPT ![w] = new]
    PROVE  /\ Hold(new) = Hold(worker[w]) => Held' = Held
           /\ (Hold(new) = NoEvent /\ Hold(worker[w]) \in Event)
                 => Held' = Held \ {<<w, Hold(worker[w])>>}
           /\ (Hold(new) \in Event /\ Hold(worker[w]) = NoEvent)
                 => Held' = Held \cup {<<w, Hold(new)>>}
<1>1. worker' \in [Workers -> {worker'[x] : x \in Workers}]
      /\ \A x \in Workers : worker'[x] = IF x = w THEN new ELSE worker[x]
  BY DEF TypeOK
<1>2. NoEvent \notin Event
  BY NoEventIsNoEvent
<1>3. Held = {c \in Workers \X Event : Hold(worker[c[1]]) = c[2]}
  BY <1>2 DEF Held, Hold
<1>4. Held' = {c \in Workers \X Event : Hold(worker'[c[1]]) = c[2]}
  BY <1>2 DEF Held, Hold
<1> QED
  BY <1>1, <1>2, <1>3, <1>4

LEMMA NothingClaimed ==
    ASSUME UNCHANGED events, Held' = Held
    PROVE  [Claims!Next]_(Claims!vars)
BY DEF Claims!vars, Held

\* A worker lets go of what it holds, if anything: it is free, or it waits.
LEMMA LettingGoReleases ==
    ASSUME TypeOK, NEW w \in Workers, NEW new, worker' = [worker EXCEPT ![w] = new],
           Hold(new) = NoEvent, UNCHANGED events
    PROVE  [Claims!Next]_(Claims!vars)
<1>1. CASE Hold(worker[w]) = NoEvent
  <2>1. Held' = Held
    BY <1>1, OneMoves
  <2> QED
    BY <2>1, NothingClaimed
<1>2. CASE Hold(worker[w]) # NoEvent
  <2>1. PICK ev \in Event : ev = Hold(worker[w])
    BY <1>2 DEF TypeOK, Hold
  <2>2. Held' = Held \ {<<w, ev>>}
    BY <2>1, OneMoves
  <2>3. Claims!Release(w, ev)
    BY <2>2 DEF Claims!Release, Held
  <2> QED
    BY <2>3 DEF Claims!Next
<1> QED
  BY <1>1, <1>2

LEMMA MarkSettles ==
    ASSUME TypeOK, NEW w \in Workers, Mark(w)
    PROVE  [Claims!Next]_(Claims!vars)
<1>1. worker[w].at = "mark" /\ worker' = [worker EXCEPT ![w] = Idle] /\ events' = events \ {Ev(w)}
  BY DEF Mark
<1>2. PICK ev \in Event : ev = Ev(w)
  BY <1>1, WorkerRecord
<1>3. Hold(Idle) = NoEvent /\ Hold(worker[w]) = ev
  BY <1>1, <1>2 DEF Hold, Idle, Ev
<1>4. Held' = Held \ {<<w, ev>>}
  BY <1>1, <1>3, OneMoves
<1>5. <<w, ev>> \in Held
  BY <1>1, <1>2 DEF Held, Ev
<1>6. Claims!Settle(w, ev)
  BY <1>1, <1>2, <1>4, <1>5 DEF Claims!Settle, Held
<1> QED
  BY <1>6 DEF Claims!Next

\* A worker that goes on keeps its event.
LEMMA MoveClaimsNothing ==
    ASSUME TypeOK, NEW w \in Workers, UNCHANGED events, worker[w].at # "wait",
           NEW step \in Step \ {"wait"},
           \/ Move(w, step)
           \/ worker' = [worker EXCEPT ![w].at = step, ![w].unset = session[Case(w)] = NoSession]
           \/ worker' = [worker EXCEPT ![w].again = TRUE, ![w].at = step]
    PROVE  [Claims!Next]_(Claims!vars)
<1>1. \A x \in Workers : /\ worker'[x].event = worker[x].event
                         /\ worker'[x].at = "wait" <=> worker[x].at = "wait"
  BY DEF TypeOK, Move
<1>2. Held' = Held
  BY <1>1 DEF Held
<1> QED
  BY <1>2, NothingClaimed

\* A new attempt, of an idle worker or of one that waited, claims the event.
LEMMA AttemptClaims ==
    ASSUME TypeOK, NEW w \in Workers, NEW ev \in events, NEW n, UNCHANGED events,
           Hold(worker[w]) = NoEvent, ~Claimed(ev), Branch(ev) # "none",
           worker' = [worker EXCEPT ![w] = Attempt(ev, n)]
    PROVE  [Claims!Next]_(Claims!vars)
<1>1. ev \in Event
  BY DEF TypeOK
<1>2. Hold(Attempt(ev, n)) = ev
  BY DEF Hold, Attempt, Branch
<1>3. Held' = Held \cup {<<w, ev>>}
  <2>1. PICK new : new = Attempt(ev, n)
    OBVIOUS
  <2>2. worker' = [worker EXCEPT ![w] = new] /\ Hold(new) = ev
    BY <1>2, <2>1
  <2>3. Held' = Held \cup {<<w, Hold(new)>>}
    BY <1>1, <2>2, OneMoves
  <2> QED
    BY <2>2, <2>3
<1>4. /\ \A x \in Event : <<w, x>> \notin Held
      /\ \A x \in Workers : <<x, ev>> \notin Held
  BY <1>1, NoEventIsNoEvent DEF Hold, Claimed, Held
<1>5. Claims!Claim(w, ev)
  BY <1>1, <1>3, <1>4 DEF Claims!Claim, Held
<1> QED
  BY <1>1, <1>5 DEF Claims!Next

LEMMA TakeClaims ==
    ASSUME TypeOK, NEW w \in Workers, NEW ev \in queued, Take(w, ev)
    PROVE  [Claims!Next]_(Claims!vars)
<1>1. ev \in Event /\ ev \in events
  BY DEF TypeOK
<1>2. Hold(worker[w]) = NoEvent
  BY DEF Take, Idle, Hold
<1>3. CASE UNCHANGED <<worker, events>>
  BY <1>3, NothingClaimed DEF Held
<1>4. CASE /\ ~Claimed(ev) /\ Branch(ev) # "none"
           /\ worker' = [worker EXCEPT ![w] = Attempt(ev, 0)] /\ UNCHANGED events
  BY <1>1, <1>2, <1>4, AttemptClaims
<1>5. CASE ~Claimed(ev) /\ events' = events \ {ev} /\ UNCHANGED worker
  <2>1. \A x \in Workers : <<x, ev>> \notin Held
    BY <1>5 DEF Claimed, Held
  <2>2. Claims!Dismiss(ev)
    BY <1>5, <2>1 DEF Claims!Dismiss, Held
  <2> QED
    BY <1>1, <2>2 DEF Claims!Next
<1> QED
  BY <1>3, <1>4, <1>5 DEF Take

LEMMA FreeReleases ==
    ASSUME TypeOK, NEW w \in Workers, UNCHANGED events, worker' = [worker EXCEPT ![w] = Idle]
    PROVE  [Claims!Next]_(Claims!vars)
<1>1. Hold(Idle) = NoEvent
  BY DEF Hold, Idle
<1> QED
  BY <1>1, LettingGoReleases

LEMMA TryAgainReleases ==
    ASSUME TypeOK, NEW w \in Workers, UNCHANGED events, TryAgain(w)
    PROVE  [Claims!Next]_(Claims!vars)
<1>1. CASE Abandon(w)
  BY <1>1, FreeReleases DEF Abandon
<1>2. CASE worker' = [worker EXCEPT ![w] = Waits(worker[w])]
  <2> DEFINE new == Waits(worker[w])
  <2>1. Hold(new) = NoEvent
    BY DEF TypeOK, Hold, Waits
  <2>2. worker' = [worker EXCEPT ![w] = new]
    BY <1>2
  <2> HIDE DEF new
  <2> QED
    BY <2>1, <2>2, LettingGoReleases
<1> QED
  BY <1>1, <1>2 DEF TryAgain

LEMMA WorkerClaims ==
    ASSUME TypeOK, OnACase, NEW w \in Workers, WorkerTurn(w)
    PROVE  [Claims!Next]_(Claims!vars)
<1>1. CASE FinalizeRead(w)
  <2>1. /\ worker[w].at # "wait" /\ UNCHANGED events
        /\ "mark" \in Step \ {"wait"} /\ "write" \in Step \ {"wait"}
        /\ "reconcile" \in Step \ {"wait"}
    BY <1>1 DEF FinalizeRead, Step
  <2> QED
    BY <1>1, <2>1, TryAgainReleases, MoveClaimsNothing DEF FinalizeRead
<1>2. CASE FinalizeWrite(w) \/ Expire(w) \/ Reconcile(w) \/ Overwrite(w)
  <2>1. /\ worker[w].at # "wait" /\ UNCHANGED events
        /\ "mark" \in Step \ {"wait"} /\ "finalize" \in Step \ {"wait"}
        /\ "overwrite" \in Step \ {"wait"}
    BY <1>2 DEF FinalizeWrite, Expire, Reconcile, Overwrite, Step
  <2> QED
    BY <1>2, <2>1, MoveClaimsNothing DEF FinalizeWrite, Expire, Reconcile, Overwrite
<1>3. CASE WakeUp(w)
  <2>1. UNCHANGED events /\ Hold(worker[w]) = NoEvent
    BY <1>3 DEF WakeUp, Hold
  <2>2. CASE /\ Ev(w) \in events /\ ~Claimed(Ev(w))
             /\ worker' = [worker EXCEPT ![w] = Attempt(Ev(w), worker[w].tries)]
    <3>1. Branch(Ev(w)) # "none"
      BY <1>3 DEF OnACase, WakeUp
    <3> QED
      BY <2>1, <2>2, <3>1, AttemptClaims
  <2> QED
    BY <1>3, <2>1, <2>2, FreeReleases DEF WakeUp
<1>4. CASE WorkerFault(w)
  <2>1. UNCHANGED events
    BY <1>4 DEF WorkerFault, StripeUnavailable, WorkerFails, WorkerDies
  <2>2. UNCHANGED worker => Held' = Held
    BY DEF Held
  <2> QED
    BY <1>4, <2>1, <2>2, NothingClaimed, FreeReleases, TryAgainReleases
       DEF WorkerFault, StripeUnavailable, WorkerFails, WorkerDies, Abandon
<1> QED
  BY <1>1, <1>2, <1>3, <1>4, MarkSettles, TakeClaims DEF WorkerTurn, WorkerStep

LEMMA ClaimsNext == TypeOK /\ OnACase /\ [Next]_vars => [Claims!Next]_(Claims!vars)
<1> SUFFICES ASSUME TypeOK, OnACase, [Next]_vars PROVE [Claims!Next]_(Claims!vars)
  OBVIOUS
<1>1. ASSUME UNCHANGED <<events, worker>> PROVE [Claims!Next]_(Claims!vars)
  BY <1>1, NothingClaimed DEF Held
<1>2. CASE \/ \E i \in Requests, m \in Multas :
                 Analyze(i, m) \/ Checkout(i, m) \/ Download(i, m) \/ Debug(i, m)
           \/ \E r \in inFlight : Request(r)
           \/ \E ev \in events : Requeue(ev)
  <2>1. UNCHANGED <<events, worker>>
    BY <1>2, OthersLeaveWorkers DEF work
  <2> QED
    BY <1>1, <2>1
<1>4. ASSUME NEW s \in Sessions, StripeStep(s) PROVE [Claims!Next]_(Claims!vars)
  <2>1. PICK outcome \in {"paid", "awaiting", "failed", "expired"}, type \in EventType :
            Settle(s, outcome, type)
    BY <1>4 DEF StripeStep, EventType
  <2> DEFINE new == [type |-> type, session |-> s, paid |-> outcome = "paid"]
  <2>2. new \in Event
    BY DEF Event
  <2>3. events' = events \cup {new}
    BY <2>1 DEF Settle
  <2>4. PICK ev \in Event : events' = events \cup {ev}
    BY <2>2, <2>3
  <2>5. Claims!Receive(ev)
    BY <1>4, <2>4 DEF StripeStep, Claims!Receive, Held
  <2> QED
    BY <2>5 DEF Claims!Next
<1>5. CASE UNCHANGED vars
  BY <1>1, <1>5 DEF vars
<1> QED
  BY <1>2, <1>4, <1>5, WorkerClaims DEF Next, WorkerTurn

LEMMA ClaimsInit == Init => Claims!Init
<1> SUFFICES ASSUME Init PROVE Claims!Init
  OBVIOUS
<1>1. \A w \in Workers : worker[w].event = NoEvent
  BY DEF Init, Idle
<1> QED
  BY <1>1, NoEventIsNoEvent DEF Init, Claims!Init

\* The workers of MultaCase ask no more of the queue than EventClaims gives, with
\* no event late: they claim what waits and nobody holds, one at a time, and settle
\* or give back only what they hold.
THEOREM CaseKeepsClaims == Spec => KeepsClaims
BY TypeInit, OnACaseInit, TypeNext, ClaimsInit, ClaimsNext, PTL DEF Spec, KeepsClaims, Claims!Spec
================================================================================
