------------------------------ MODULE CaseTab ------------------------------
(***************************************************************************)
(* One tab of the web client (src/frontend): the session it keeps, the     *)
(* pages a case goes through, and the calls in flight whose answers come   *)
(* back in any order, also after the page that made them has gone.  The    *)
(* server is reduced to the owner, the state and the payments of a case;   *)
(* MultaCase and TenantBilling have it in full.                            *)
(***************************************************************************)
EXTENDS Naturals, FiniteSets

CONSTANTS
  Accounts,
  Cases,
  None,             \* no token, no user, no case, no result
  PollMaxAttempts,  \* POLL_MAX_ATTEMPTS
  MaxClicks         \* bound: what the person does

ASSUME TabAssumption ==
  /\ None \notin Accounts \cup Cases
  /\ PollMaxAttempts \in Nat \ {0}
  /\ MaxClicks \in Nat

VARIABLES
  owner, caseState, payments,  \* the server's rows: None, a state, how often paid
  token,    \* localStorage multacheck_token: whose it is
  stored,   \* sessionStorage multacheck_resume_multa_id
  user, ready,                 \* AuthContext
  page,     \* the route and the case in it (for home: ?resume=)
  screen,   \* the state of the mounted page
  calls,    \* calls of this document not yet answered or not yet heard
  clicks,
  overlap   \* history: session calls of this document overlapped

server  == <<owner, caseState, payments>>
browser == <<token, stored>>
session == <<user, ready, overlap>>
vars    == <<server, browser, session, page, screen, calls, clicks>>

CaseState == {"CREATED", "ANALYZED", "PAYMENT_PENDING", "PAID",
              "DISCHARGE_READY", "DISCHARGED", "FAILED"}
dischargeAvailableFromCaseState(cs) == cs \in {"DISCHARGE_READY", "DISCHARGED"}
canStartCheckout(cs) == cs \in {"CREATED", "ANALYZED", "PAYMENT_PENDING", "FAILED"}
PrePay == {"CREATED", "ANALYZED", "PAYMENT_PENDING"}

Page(at, c) == [at |-> at, of |-> c]
\* "/" and "/dashboard" show one component, which stays from one to the other.
Home  == {"home", "dashboard"}
Pages == {Page(at, None) : at \in Home \cup {"login", "plans"}}
         \cup {Page(at, c) : at \in Home \cup {"descargo", "resume"}, c \in Cases}
Offsite == {"stripe", "billing"}
ProtectedRoute(p) == p.at \in {"descargo", "resume"}

\* result: what the decision page shows; last: lastRecoveryFetch; wanted
\* (history): the case home last set out to show, or "new" for an analysis;
\* crossed (history): it set out for a case while an analysis was out.
Blank == [result |-> None, last |-> None, wanted |-> None, crossed |-> FALSE,
          phase |-> "idle", text |-> None, attempts |-> 0]

\* What the page would still react to; busy flags are "my call is out".
Reads == {"full", "state", "discharge"}
SessionCalls == {"me", "login", "logout"}
Call(kind, c, as) == [kind |-> kind, of |-> c, as |-> as, live |-> TRUE, reply |-> "none"]
Out(kinds) == \E x \in calls : x.kind \in kinds /\ x.live
Recovering == page.at \in Home /\ Out({"full"})

\* Mutation: effects have no clean-up.
NotCancelled(cs) == cs

\* A page that goes cancels its reads; its other calls go on without it.
Cancelled(cs) == {IF x.kind \in SessionCalls THEN x ELSE [x EXCEPT !.live = FALSE]
                    : x \in {y \in cs : y.kind \notin Reads \/ (y.kind = "discharge" /\ y.reply = "none")}}

-----------------------------------------------------------------------------
(* Pages.  The next operators say what a render leads to, given the new    *)
(* token tk, stored case st, user u and readiness rdy.                     *)

\* The recovery effect of home: the case of the address, else the stored one.
Candidate(c, st) == IF c # None THEN c ELSE st
Recovers(c, st, last) == Candidate(c, st) \notin {None, last}

\* A new instance of page p.
Mount(p, rest, tk, st, u, rdy) ==
  LET q == IF ProtectedRoute(p) /\ rdy /\ u = None THEN Page("login", None) ELSE p
      shown == ~ProtectedRoute(q) \/ rdy
  IN /\ page' = q
     /\ \/ /\ q.at \in Home /\ Recovers(q.of, st, None)
           /\ calls' = rest \cup {Call("full", Candidate(q.of, st), tk)}
           /\ screen' = [Blank EXCEPT !.wanted = Candidate(q.of, st)]
        \/ /\ q.at = "descargo" /\ shown
           /\ calls' = rest \cup {Call("state", q.of, tk)}
           /\ screen' = [Blank EXCEPT !.phase = "checking", !.attempts = 1]
        \/ /\ q.at = "resume" /\ shown
           /\ calls' = rest \cup {Call("full", q.of, tk)}
           /\ screen' = Blank
        \/ /\ \/ q.at \notin Home \cup {"descargo", "resume"}
              \/ q.at \in Home /\ ~Recovers(q.of, st, None)
              \/ ~shown
           /\ calls' = rest
           /\ screen' = Blank

\* Mutation: the recovery that is out is not cancelled.
ReaddressUncancelled(p, rest, new, tk, st) ==
  IF Recovers(p.of, st, new.last)
  THEN /\ page' = p
       /\ calls' = rest \cup {Call("full", Candidate(p.of, st), tk)}
       /\ screen' = [new EXCEPT !.wanted = Candidate(p.of, st),
                                !.crossed = @ \/ Out({"analyze"})]
  ELSE /\ page' = Page(p.at, None)
       /\ calls' = rest
       /\ screen' = new

\* Home stays mounted and its address becomes p: the effect runs again.
Readdress(p, rest, new, tk, st) ==
  IF Recovers(p.of, st, new.last)
  THEN /\ page' = p
       /\ calls' = {x \in rest : x.kind # "full"} \cup {Call("full", Candidate(p.of, st), tk)}
       /\ screen' = [new EXCEPT !.wanted = Candidate(p.of, st),
                                !.crossed = @ \/ Out({"analyze"})]
  ELSE /\ page' = Page(p.at, None)
       /\ calls' = {x \in rest : x.kind # "full"}
       /\ screen' = new

\* A recovery that fails or is cancelled leaves what home showed before it.
Stopped ==
  IF ~Recovering THEN screen
  ELSE [screen EXCEPT !.wanted = IF screen.result = None THEN None ELSE screen.result.of]

\* navigate(p), a link, or the back button.  The effect of home depends on
\* navigate, which changes with the path, also when the case does not.
Navigate(p, rest, tk, st, u) ==
  \/ p = page /\ calls' = rest /\ UNCHANGED <<page, screen>>
  \/ p # page /\ {p.at, page.at} \subseteq Home /\ Readdress(p, rest, Stopped, tk, st)
  \/ p # page /\ ~({p.at, page.at} \subseteq Home) /\ Mount(p, Cancelled(rest), tk, st, u, ready)

\* The user or the readiness changed under the page that is shown.
Rerender(rest, tk, u, rdy) ==
  IF ProtectedRoute(page) /\ (rdy # ready \/ u = None)
  THEN Mount(page, Cancelled(rest), tk, stored, u, rdy)
  ELSE calls' = rest /\ UNCHANGED <<page, screen>>

\* A document is loaded: nothing is left of the one before it.
Load(p) ==
  LET me == IF token = None THEN {} ELSE {Call("me", None, token)}
  IN /\ user' = None /\ ready' = (token = None) /\ overlap' = FALSE
     /\ Mount(p, me, token, stored, None, token = None)

\* window.location.href = url
Leave(at, c) ==
  /\ page' = Page(at, c) /\ calls' = {} /\ screen' = Blank
  /\ user' = None /\ ready' = FALSE /\ overlap' = FALSE

Init ==
  /\ \E c \in Cases, a \in Accounts, cs \in CaseState \ {"PAID"} :
        /\ owner = [d \in Cases |-> IF d = c THEN a ELSE None]
        /\ caseState = [d \in Cases |-> IF d = c THEN cs ELSE "none"]
        /\ payments = [d \in Cases |-> IF d = c /\ dischargeAvailableFromCaseState(cs) THEN 1 ELSE 0]
        /\ stored \in {None, c}
  /\ token \in Accounts \cup {None}
  /\ user = None /\ ready = FALSE /\ overlap = FALSE
  /\ page = Page("billing", None)    \* somewhere else; the next step loads the app
  /\ screen = Blank /\ calls = {} /\ clicks = 0

-----------------------------------------------------------------------------
(* What the person does. *)

Click == clicks < MaxClicks /\ clicks' = clicks + 1
Loaded == page.at \notin Offsite

\* an address is typed or opened from a mail, or the page is reloaded; the
\* first of a visit, and the return from the billing portal, are not counted
OpenAddress(p) ==
  /\ page.at # "stripe" /\ IF Loaded THEN Click ELSE UNCHANGED clicks
  /\ Load(p)
  /\ UNCHANGED <<server, browser>>

\* links, "Mi cuenta" and the back button; the address of a finished recovery was replaced
Go(p) ==
  /\ Loaded /\ p # page /\ ~(p.at \in Home /\ p.of # None) /\ Click
  /\ Navigate(p, calls, token, stored, user)
  /\ UNCHANGED <<server, browser, session>>

Send(x) == calls' = calls \cup {x}
SendSession(x) == Send(x) /\ overlap' = (overlap \/ Out(SessionCalls))

\* The form is there when nothing is shown, restored or analyzed.
FormShown == page.at \in Home /\ screen.result = None /\ ~Out({"full", "analyze"})

submit ==
  /\ FormShown /\ Click
  /\ Send(Call("analyze", None, token))
  /\ screen' = [screen EXCEPT !.last = None, !.wanted = "new", !.crossed = FALSE]
  /\ UNCHANGED <<server, browser, session, page>>

\* The button to pay is there and enabled.
Offered ==
  /\ page.at \in Home /\ screen.result # None /\ ~Out({"full", "checkout"})
  /\ screen.result.of # None /\ canStartCheckout(screen.result.cs)

pay ==
  /\ Offered /\ Click
  /\ Send(Call("checkout", screen.result.of, token))
  /\ UNCHANGED <<server, browser, session, page, screen>>

\* "Volver al ingreso"
BackToForm ==
  /\ page.at \in Home /\ screen.result # None /\ ~Recovering /\ Click
  /\ screen' = [screen EXCEPT !.result = None, !.last = None, !.wanted = None]
  /\ stored' = None
  /\ UNCHANGED <<server, token, session, page, calls>>

login(a) ==
  /\ page.at = "login" /\ ~Out({"login"}) /\ Click
  /\ SendSession(Call("login", None, a))
  /\ UNCHANGED <<server, browser, user, ready, page, screen>>

\* from home, the plans, or the foot of the form, which also goes to /login
logout ==
  /\ page.at \in Home \cup {"plans"} /\ user # None /\ ~Recovering /\ Click
  /\ overlap' = (overlap \/ Out(SessionCalls))
  /\ \/ /\ calls' = calls \cup {Call("logout", None, token)}
        /\ UNCHANGED <<page, screen>>
     \/ /\ page.at \in Home /\ screen.result = None
        /\ Navigate(Page("login", None), calls \cup {Call("logout", None, token)}, token, stored, user)
  /\ UNCHANGED <<server, browser, user, ready>>

\* startCheckout and openPortal of the plans
startCheckout ==
  /\ page.at = "plans" /\ user # None /\ ~Out({"plan"}) /\ Click
  /\ Send(Call("plan", None, token))
  /\ UNCHANGED <<server, browser, session, page, screen>>

\* a new poll key: the effect of the report page runs again
retryCheck ==
  /\ page.at = "descargo" /\ screen.phase = "timeout" /\ Click
  /\ calls' = Cancelled(calls) \cup {Call("state", page.of, token)}
  /\ screen' = [Blank EXCEPT !.phase = "checking", !.attempts = 1]
  /\ UNCHANGED <<server, browser, session, page>>

\* Stripe sends the customer back to /?resume= either way
StripeReturns ==
  /\ page.at = "stripe"
  /\ payments' \in {payments, [payments EXCEPT ![page.of] = @ + 1]}
  /\ Load(Page("home", page.of))
  /\ UNCHANGED <<owner, caseState, browser, clicks>>

-----------------------------------------------------------------------------
(* The server. *)

SetState(c, cs) == caseState' = [caseState EXCEPT ![c] = cs]
Answered(x, reply) == calls' = (calls \ {x}) \cup {[x EXCEPT !.reply = reply]}
Found(x) == x.of # None /\ owner[x.of] # None /\ owner[x.of] = x.as

\* Any call can fail (a 403 or 409 of the server looks the same to the tab).
Fails(x) == Answered(x, "error") /\ UNCHANGED server
Missing(x) == ~Found(x) /\ Answered(x, IF x.as = None THEN "error" ELSE "missing") /\ UNCHANGED server

AnswerRead(x) ==
  /\ x.kind \in {"full", "state"} /\ Found(x)
  /\ Answered(x, caseState[x.of])
  /\ UNCHANGED server

AnswerDischarge(x) ==
  /\ x.kind = "discharge" /\ Found(x) /\ dischargeAvailableFromCaseState(caseState[x.of])
  /\ SetState(x.of, "DISCHARGED") /\ Answered(x, "text")
  /\ UNCHANGED <<owner, payments>>

\* A preview for nobody; otherwise a new case, or the one of the same text.
AnswerAnalyze(x) ==
  /\ x.kind = "analyze"
  /\ \/ x.as = None /\ Answered(x, "preview") /\ UNCHANGED server
     \/ \E c \in Cases :
          /\ x.as # None /\ owner[c] \in {None, x.as}
          /\ owner' = [owner EXCEPT ![c] = x.as]
          /\ SetState(c, IF caseState[c] \in {"none", "CREATED"} THEN "ANALYZED" ELSE caseState[c])
          /\ calls' = (calls \ {x}) \cup {[x EXCEPT !.of = c, !.reply = caseState'[c]]}
          /\ UNCHANGED payments

AnswerCheckout(x) ==
  /\ x.kind = "checkout" /\ Found(x) /\ canStartCheckout(caseState[x.of])
  /\ SetState(x.of, "PAYMENT_PENDING") /\ Answered(x, "url")
  /\ UNCHANGED <<owner, payments>>

\* Only an administrator with a live company gets here with a url.
AnswerPlan(x) == x.kind = "plan" /\ x.as # None /\ Answered(x, "url") /\ UNCHANGED server

Answer(x) ==
  /\ x.reply = "none" /\ x.kind \notin SessionCalls
  /\ \/ Fails(x)
     \/ x.kind \in Reads \cup {"checkout"} /\ Missing(x)
     \/ AnswerRead(x) \/ AnswerDischarge(x) \/ AnswerAnalyze(x) \/ AnswerCheckout(x) \/ AnswerPlan(x)
  /\ UNCHANGED <<browser, session, page, screen, clicks>>

\* The payment is confirmed, or the session of an unpaid case expires.
Webhook(c) ==
  /\ \/ /\ payments[c] > 0 /\ ~dischargeAvailableFromCaseState(caseState[c])
        /\ SetState(c, "DISCHARGE_READY")
     \/ payments[c] = 0 /\ caseState[c] = "PAYMENT_PENDING" /\ SetState(c, "FAILED")
  /\ UNCHANGED <<owner, payments, browser, session, page, screen, calls, clicks>>

-----------------------------------------------------------------------------
(* What the tab makes of an answer. *)

Rest(x) == calls \ {x}

\* the catch of the recovery, a FAILED case, no row: the case is forgotten
Forget(x) ==
  /\ stored' = None
  /\ Readdress(Page(page.at, None), Rest(x),
               [Stopped EXCEPT !.last = None], token, None)

HomeHears(x) ==
  /\ page.at \in Home /\ x.kind = "full"
  /\ \/ /\ dischargeAvailableFromCaseState(x.reply)
        /\ stored' = x.of
        /\ Mount(Page("descargo", x.of), Cancelled(Rest(x)), token, x.of, user, ready)
     \/ /\ x.reply \in {"FAILED", "missing", "error"}
        /\ Forget(x)
     \/ /\ x.reply \in PrePay \cup {"PAID"}
        /\ stored' = x.of
        /\ Readdress(Page(page.at, None), Rest(x), [screen EXCEPT !.last = x.of,
              !.result = [of |-> x.of, cs |-> x.reply]], token, x.of)
  /\ UNCHANGED <<token, session>>

MultaResumePage(x) ==
  /\ page.at = "resume" /\ x.kind = "full"
  /\ Mount(IF dischargeAvailableFromCaseState(x.reply) THEN Page("descargo", x.of)
           ELSE Page("home", IF x.reply \in PrePay \cup {"PAID"} THEN x.of ELSE None),
           Cancelled(Rest(x)), token, stored, user, ready)
  /\ UNCHANGED <<browser, session>>

Phase(x, p) == /\ screen' = [screen EXCEPT !.phase = p]
               /\ calls' = Rest(x) /\ UNCHANGED page

\* the loop of the report page; "error" is any failure but a 404: it waits
DescargoHears(x) ==
  /\ page.at = "descargo" /\ x.kind \in {"state", "discharge"} /\ x.live
  /\ \/ /\ x.reply \in PrePay
        /\ Mount(Page("home", x.of), Cancelled(Rest(x)), token, stored, user, ready)
     \/ x.reply \in {"FAILED", "missing"} /\ Phase(x, "error")
     \/ /\ dischargeAvailableFromCaseState(x.reply)
        /\ screen' = [screen EXCEPT !.phase = "generating"]
        /\ calls' = Rest(x) \cup {Call("discharge", x.of, token)}
        /\ UNCHANGED page
     \/ x.reply \in {"PAID", "error"} /\ Phase(x, screen.phase)
     \/ /\ x.reply = "text"
        /\ screen' = [screen EXCEPT !.phase = "ready", !.text = x.of]
        /\ calls' = Rest(x)
        /\ UNCHANGED page
  /\ UNCHANGED <<browser, session>>

\* setResult needs the page that asked; the stored case does not.
AnalysisArrives(x) ==
  LET known == x.reply \in CaseState
  IN /\ x.kind = "analyze"
     /\ stored' = IF known THEN x.of ELSE stored
     /\ screen' = IF x.live /\ x.reply # "error"
                  THEN [screen EXCEPT !.result = [of |-> x.of, cs |-> x.reply]] ELSE screen
     /\ calls' = Rest(x)
     /\ UNCHANGED <<token, session, page>>

\* Whatever is shown by now, the tab leaves for the payment.
CheckoutArrives(x) ==
  /\ x.kind \in {"checkout", "plan"}
  /\ \/ x.reply = "url" /\ Leave(IF x.kind = "plan" THEN "billing" ELSE "stripe", x.of)
     \/ x.reply # "url" /\ calls' = Rest(x) /\ UNCHANGED <<session, page, screen>>
  /\ UNCHANGED browser

\* Its page has gone and nothing is left to do.
Unheard(x) ==
  /\ x.kind = "discharge" /\ ~x.live
  /\ calls' = Rest(x) /\ UNCHANGED <<browser, session, page, screen>>

Arrives(x) ==
  /\ x.reply # "none"
  /\ \/ HomeHears(x) \/ MultaResumePage(x) \/ DescargoHears(x)
     \/ AnalysisArrives(x) \/ CheckoutArrives(x) \/ Unheard(x)
  /\ UNCHANGED <<server, clicks>>

\* Mutation: the attempts are not counted.
PollForever ==
  /\ page.at = "descargo" /\ screen.phase \in {"checking", "generating"} /\ ~Out({"state", "discharge"})
  /\ Send(Call("state", page.of, token))
  /\ UNCHANGED <<server, browser, session, page, clicks, screen>>

\* POLL_MS later
Poll ==
  /\ page.at = "descargo" /\ screen.phase \in {"checking", "generating"} /\ ~Out({"state", "discharge"})
  /\ \/ /\ screen.attempts < PollMaxAttempts
        /\ screen' = [screen EXCEPT !.attempts = @ + 1]
        /\ Send(Call("state", page.of, token))
     \/ /\ screen.attempts = PollMaxAttempts
        /\ screen' = [screen EXCEPT !.phase = "timeout"]
        /\ UNCHANGED calls
  /\ UNCHANGED <<server, browser, session, page, clicks>>

\* fetchMe of the provider: any failure takes the token away
MeArrives(x) ==
  /\ x.kind = "me"
  /\ ready' = TRUE
  /\ \/ user' = x.as /\ UNCHANGED token
     \/ user' = None /\ token' = None
  /\ Rerender(Rest(x), token', user', TRUE)
  /\ UNCHANGED <<stored, overlap>>

LoginArrives(x) ==
  /\ x.kind = "login"
  /\ \/ /\ token' = x.as /\ user' = x.as
        /\ Navigate(Page("home", None), Rest(x), x.as, stored, x.as)
     \/ calls' = Rest(x) /\ UNCHANGED <<token, user, page, screen>>
  /\ UNCHANGED <<stored, ready, overlap>>

\* Mutation: only the state of the provider is cleared.
LogoutKeepsToken(x) ==
  /\ x.kind = "logout"
  /\ user' = None
  /\ Rerender(Rest(x), token, None, ready)
  /\ UNCHANGED <<browser, ready, overlap>>

\* answered or not
LogoutArrives(x) ==
  /\ x.kind = "logout"
  /\ token' = None /\ user' = None
  /\ Rerender(Rest(x), None, None, ready)
  /\ UNCHANGED <<stored, ready, overlap>>

SessionArrives(x) == /\ MeArrives(x) \/ LoginArrives(x) \/ LogoutArrives(x)
                     /\ UNCHANGED <<server, clicks>>

-----------------------------------------------------------------------------
Person ==
  \/ \E p \in Pages : OpenAddress(p) \/ Go(p)
  \/ \E a \in Accounts : login(a)
  \/ submit \/ pay \/ BackToForm \/ logout \/ startCheckout \/ retryCheck

Settles(x) == Answer(x) \/ Arrives(x) \/ SessionArrives(x)

Next ==
  \/ Person \/ StripeReturns \/ Poll
  \/ \E x \in calls : Settles(x)
  \/ \E c \in Cases : Webhook(c)

Spec == Init /\ [][Next]_vars

\* Calls are answered or fail, answers are handled, timers ring.
Fairness == WF_vars(Poll) /\ WF_vars(\E x \in calls : Settles(x))

FairSpec == Spec /\ Fairness

-----------------------------------------------------------------------------
(* Properties *)

\* A page shows the case that was last asked of it: an answer that comes after
\* the address, the stored case or the page has changed shows nothing, however
\* many recoveries, analyses and polls are out (App.jsx:276, DescargoPage.jsx:105).
\* Exempt is what is shown after the effect ran again while an analysis was out,
\* from "/" to "/dashboard" or back (App.jsx:331), until the next analysis.
ShowsWhatWasAskedLast ==
  /\ page.at \in Home /\ screen.result # None /\ ~Recovering /\ ~screen.crossed =>
        screen.wanted \in {"new", screen.result.of}
  /\ screen.text # None => page = Page("descargo", screen.text)

\* Whom the pages greet is whom the calls are made for, unless a session call
\* was sent while another one was out (AuthContext.jsx:26-33, 58-66).
GreetedIsActing == ready /\ ~overlap => user = token

\* Nobody waits for ever: "restaurando" and "confirmando" end in a case, a
\* report, an error or a timeout, also when every call fails.
WaitingEnds ==
  /\ Recovering ~> ~Recovering
  /\ screen.phase \in {"checking", "generating"}
       ~> screen.phase \notin {"checking", "generating"}
=============================================================================
