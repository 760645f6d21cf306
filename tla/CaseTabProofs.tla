--------------------------- MODULE CaseTabProofs ---------------------------
(***************************************************************************)
(* Proofs about the tab of the web client: for any accounts, cases and     *)
(* clicks, and answers in any order, a page shows the case that was last   *)
(* asked of it (with the exemption the property states), and the account   *)
(* it greets is the one it acts for.                                       *)
(*                                                                         *)
(* PageInv ties the calls in flight to the page that is shown: a read that *)
(* can still be heard, and an analysis whose page is still there, were     *)
(* made by this page, for what it last asked.  SessionInv ties the session *)
(* call in flight, one at most unless they overlapped, to the token.       *)
(***************************************************************************)
EXTENDS CaseTab, TLAPS

USE DEF Page, Home, Reads, SessionCalls, NotCancelled

-----------------------------------------------------------------------------
(* The invariants *)

Named   == Cases \cup {None}
Whose   == Accounts \cup {None}
Kinds   == Reads \cup SessionCalls \cup {"analyze", "checkout", "plan"}
Replies == CaseState \cup {"none", "missing", "error", "preview", "text", "url"}
CallSet == [kind : Kinds, of : Named, as : Whose, live : BOOLEAN, reply : Replies]
Shown   == [of : Named, cs : Replies]
ScreenSet ==
  [result : Shown \cup {None}, last : Named, wanted : Named \cup {"new"}, crossed : BOOLEAN,
   phase : {"idle", "checking", "generating", "ready", "error", "timeout"},
   text : Named, attempts : Nat]
PageSet == [at : Home \cup {"login", "plans", "descargo", "resume"} \cup Offsite, of : Named]

ServerTypeOK  == caseState \in [Cases -> CaseState \cup {"none"}]
StoredTypeOK  == token \in Whose /\ stored \in Named
SessionTypeOK == user \in Whose /\ ready \in BOOLEAN /\ overlap \in BOOLEAN
PageTypeOK    == page \in PageSet /\ screen \in ScreenSet /\ calls \in SUBSET CallSet

\* A recovery in flight is for the case home set out to show; the address
\* names a case only while it is recovered.
RecoveryInv ==
  /\ \A x \in calls : x.kind = "full" =>
        x.live /\ (page.at \in Home => screen.wanted = x.of)
  /\ page.at \in Home /\ page.of # None => \E x \in calls : x.kind = "full"

\* An analysis whose page is still there: the form is, and nothing else was
\* asked, unless the effect of home ran again in the meantime.
AnalysisInv ==
  \A x \in calls : x.kind = "analyze" /\ x.live =>
    /\ page.at \in Home
    /\ ~screen.crossed =>
         /\ screen.wanted = "new" /\ screen.result = None
         /\ \A y \in calls : /\ y.kind # "full"
                             /\ y.kind = "analyze" /\ y.live => y = x

\* What is shown while nothing is recovered.
ShownInv ==
  /\ /\ page.at \in Home /\ screen.result # None /\ ~screen.crossed
     /\ \A x \in calls : x.kind # "full"
     => screen.wanted \in {"new", screen.result.of}
  /\ screen.text # None => page = Page("descargo", screen.text)

\* What the report page can still hear is about the case of its address.
ReportInv ==
  \A x \in calls : x.kind \in {"state", "discharge"} /\ x.live => page = Page("descargo", x.of)

PageInv == PageTypeOK /\ RecoveryInv /\ AnalysisInv /\ ReportInv /\ ShownInv

\* The session calls of a set of calls.
OfSession(cs) == {x \in cs : x.kind \in SessionCalls}

\* Without an overlap one session call is out at most, a fetchMe is of the
\* token that is stored, and the pages greet the account of that token.
SessionInv ==
  /\ \A x \in OfSession(calls) : x.live
  /\ ~overlap =>
       /\ \A x, y \in OfSession(calls) : x = y
       /\ \A x \in calls : x.kind = "me" => x.as = token
       /\ ready => user = token

TabInv == ServerTypeOK /\ StoredTypeOK /\ SessionTypeOK /\ PageInv /\ SessionInv


USE TabAssumption

-----------------------------------------------------------------------------
(* The operators a page is shown with *)

\* Calls nothing of this page listens to, but for those of the session.
Quiet(cs) == \A x \in cs : \/ x.kind \in SessionCalls
                           \/ ~x.live /\ x.kind \notin {"full", "state"}

\* Leaving a page silences its calls and keeps those of the session.
LEMMA CancelledIsQuiet ==
  ASSUME NEW cs \in SUBSET CallSet
  PROVE  /\ Cancelled(cs) \in SUBSET CallSet
         /\ Quiet(Cancelled(cs))
         /\ OfSession(Cancelled(cs)) \subseteq OfSession(cs)
<1>1. ASSUME NEW z \in Cancelled(cs)
      PROVE  /\ z \in CallSet
             /\ z.kind \in SessionCalls \/ (~z.live /\ z.kind \notin {"full", "state"})
             /\ z.kind \in SessionCalls => z \in cs
  <2>1. PICK x \in cs :
               /\ x.kind \notin Reads \/ (x.kind = "discharge" /\ x.reply = "none")
               /\ z = IF x.kind \in SessionCalls THEN x ELSE [x EXCEPT !.live = FALSE]
    BY <1>1 DEF Cancelled
  <2>2. x \in CallSet
    BY <2>1
  <2>3. CASE x.kind \in SessionCalls
    BY <2>1, <2>2, <2>3
  <2>4. CASE x.kind \notin SessionCalls
    <3>1. z = [x EXCEPT !.live = FALSE]
      BY <2>1, <2>4
    <3>2. z \in CallSet /\ ~z.live /\ z.kind = x.kind
      BY <3>1, <2>2 DEF CallSet
    <3> QED
      BY <3>2, <2>1, <2>4
  <2> QED
    BY <2>3, <2>4
<1> QED
  BY <1>1 DEF Quiet, OfSession

\* A call that is made has its place among the calls.
LEMMA CallIsTyped ==
  ASSUME NEW k \in Kinds, NEW c \in Named, NEW a \in Whose
  PROVE  /\ Call(k, c, a) \in CallSet
         /\ Call(k, c, a).kind = k /\ Call(k, c, a).of = c /\ Call(k, c, a).as = a
         /\ Call(k, c, a).live /\ Call(k, c, a).reply = "none"
BY DEF Call, CallSet, Replies

\* A page that has just been mounted.
LEMMA BlankIsTyped ==
  /\ Blank \in ScreenSet
  /\ Blank.result = None /\ Blank.text = None
  /\ \A w \in Named : /\ [Blank EXCEPT !.wanted = w] \in ScreenSet
                      /\ [Blank EXCEPT !.wanted = w].wanted = w
                      /\ [Blank EXCEPT !.wanted = w].result = None
                      /\ [Blank EXCEPT !.wanted = w].text = None
  /\ /\ [Blank EXCEPT !.phase = "checking", !.attempts = 1] \in ScreenSet
     /\ [Blank EXCEPT !.phase = "checking", !.attempts = 1].result = None
     /\ [Blank EXCEPT !.phase = "checking", !.attempts = 1].text = None
BY DEF Blank, ScreenSet, Named

\* A new instance of a page shows nothing and listens to its own read only.
LEMMA MountedPage ==
  ASSUME NEW p \in PageSet, NEW rest \in SUBSET CallSet, Quiet(rest),
         NEW tk \in Whose, NEW st \in Named, NEW u, NEW rdy,
         Mount(p, rest, tk, st, u, rdy)
  PROVE  PageInv' /\ OfSession(calls') \subseteq OfSession(rest)
<1> DEFINE q == IF ProtectedRoute(p) /\ rdy /\ u = None THEN Page("login", None) ELSE p
           shown == ~ProtectedRoute(q) \/ rdy
<1>1. q \in PageSet
  BY DEF PageSet, Named
<1>2. page' = q
  BY DEF Mount
<1>3. q.of \in Named /\ Candidate(q.of, st) \in Named
  BY <1>1 DEF PageSet, Candidate
<1>4. \A x \in rest : /\ x.kind \notin {"full", "state"}
                      /\ x.kind \in {"analyze", "discharge"} => ~x.live
  BY DEF Quiet
<1>5. CASE /\ q.at \in Home /\ Recovers(q.of, st, None)
           /\ calls' = rest \cup {Call("full", Candidate(q.of, st), tk)}
           /\ screen' = [Blank EXCEPT !.wanted = Candidate(q.of, st)]
  <2> DEFINE k == Call("full", Candidate(q.of, st), tk)
  <2>1. /\ k \in CallSet /\ k.kind = "full" /\ k.live /\ k.of = Candidate(q.of, st)
    BY <1>3, CallIsTyped DEF Kinds, Call
  <2>2. /\ screen' \in ScreenSet /\ screen'.wanted = Candidate(q.of, st)
        /\ screen'.result = None /\ screen'.text = None
    BY <1>5, <1>3, BlankIsTyped
  <2>3. calls' = rest \cup {k}
    BY <1>5
  <2> HIDE DEF k, q
  <2> QED
    BY <1>1, <1>2, <1>4, <2>1, <2>2, <2>3
       DEF PageInv, PageTypeOK, RecoveryInv, AnalysisInv, ReportInv,
           ShownInv, OfSession
<1>6. CASE /\ q.at = "descargo" /\ shown
           /\ calls' = rest \cup {Call("state", q.of, tk)}
           /\ screen' = [Blank EXCEPT !.phase = "checking", !.attempts = 1]
  <2> DEFINE k == Call("state", q.of, tk)
  <2>1. /\ k \in CallSet /\ k.kind = "state" /\ k.live /\ k.of = q.of
    BY <1>3, CallIsTyped DEF Kinds, Call
  <2>2. screen' \in ScreenSet /\ screen'.result = None /\ screen'.text = None
    BY <1>6, BlankIsTyped
  <2>3. calls' = rest \cup {k}
    BY <1>6
  <2>4. q = Page("descargo", q.of)
    BY <1>1, <1>6 DEF PageSet
  <2> HIDE DEF k, q
  <2> QED
    BY <1>1, <1>2, <1>4, <1>6, <2>1, <2>2, <2>3, <2>4
       DEF PageInv, PageTypeOK, RecoveryInv, AnalysisInv, ReportInv,
           ShownInv, OfSession
<1>7. CASE /\ q.at = "resume" /\ shown
           /\ calls' = rest \cup {Call("full", q.of, tk)}
           /\ screen' = Blank
  <2> DEFINE k == Call("full", q.of, tk)
  <2>1. /\ k \in CallSet /\ k.kind = "full" /\ k.live /\ k.of = q.of
    BY <1>3, CallIsTyped DEF Kinds, Call
  <2>2. screen' \in ScreenSet /\ screen'.result = None /\ screen'.text = None
    BY <1>7, BlankIsTyped
  <2>3. calls' = rest \cup {k}
    BY <1>7
  <2> HIDE DEF k, q
  <2> QED
    BY <1>1, <1>2, <1>4, <1>7, <2>1, <2>2, <2>3
       DEF PageInv, PageTypeOK, RecoveryInv, AnalysisInv, ReportInv,
           ShownInv, OfSession
<1>8. CASE /\ \/ q.at \notin Home \cup {"descargo", "resume"}
              \/ q.at \in Home /\ ~Recovers(q.of, st, None)
              \/ ~shown
           /\ calls' = rest
           /\ screen' = Blank
  <2>1. screen' \in ScreenSet /\ screen'.result = None /\ screen'.text = None
    BY <1>8, BlankIsTyped
  <2>2. q.at \in Home => q.of = None
    BY <1>8 DEF ProtectedRoute, Recovers, Candidate
  <2>3. calls' = rest
    BY <1>8
  <2> HIDE DEF q
  <2> QED
    BY <1>1, <1>2, <1>4, <2>1, <2>2, <2>3
       DEF PageInv, PageTypeOK, RecoveryInv, AnalysisInv, ReportInv,
           ShownInv, OfSession
<1> QED
  BY <1>5, <1>6, <1>7, <1>8 DEF Mount

\* The effect of home runs again: what it leaves is either as it was, with no
\* recovery out, or settled by the recovery that was.
LEMMA ReaddressedPage ==
  ASSUME PageInv, page.at \in Home, NEW p \in PageSet, p.at \in Home,
         NEW rest \in SUBSET CallSet,
         \A x \in rest : x.kind \in SessionCalls \/ x \in calls,
         NEW new \in ScreenSet, new.text = None, new.crossed = screen.crossed,
         \/ /\ \A x \in calls : x.kind # "full"
            /\ new.wanted = screen.wanted /\ new.result = screen.result
         \/ /\ \E x \in calls : x.kind = "full"
            /\ new.result # None => new.wanted \in {"new", new.result.of},
         NEW tk \in Whose, NEW st \in Named,
         Readdress(p, rest, new, tk, st)
  PROVE  PageInv' /\ OfSession(calls') \subseteq OfSession(rest)
<1>1. \A x \in rest : /\ x.kind \in {"analyze", "state", "discharge", "full"} => x \in calls
                      /\ x.kind \in {"state", "discharge"} => ~x.live
  BY DEF PageInv, ReportInv
<1>2. CASE Recovers(p.of, st, new.last)
  <2> DEFINE k == Call("full", Candidate(p.of, st), tk)
             t == [new EXCEPT !.wanted = Candidate(p.of, st),
                              !.crossed = @ \/ Out({"analyze"})]
  <2>1. Candidate(p.of, st) \in Named
    BY DEF Candidate, PageSet
  <2>2. /\ k \in CallSet /\ k.kind = "full" /\ k.live /\ k.of = Candidate(p.of, st)
    BY <2>1, CallIsTyped DEF Kinds, Call
  <2>3. /\ t \in ScreenSet /\ t.wanted = Candidate(p.of, st) /\ t.text = None
        /\ ~t.crossed => \A x \in calls : x.kind = "analyze" => ~x.live
    BY <2>1 DEF ScreenSet, Out
  <2>4. /\ calls' = {x \in rest : x.kind # "full"} \cup {k}
        /\ screen' = t /\ page' = p
    BY <1>2 DEF Readdress
  <2> HIDE DEF k, t
  <2> QED
    BY <1>1, <2>2, <2>3, <2>4
       DEF PageInv, PageTypeOK, RecoveryInv, AnalysisInv, ReportInv,
           ShownInv, OfSession
<1>3. CASE ~Recovers(p.of, st, new.last)
  <2>1. /\ calls' = {x \in rest : x.kind # "full"}
        /\ screen' = new /\ page' = Page(p.at, None)
    BY <1>3 DEF Readdress
  <2>2. page' \in PageSet /\ page'.at \in Home /\ page'.of = None
    BY <2>1 DEF PageSet, Named
  <2>3. AnalysisInv'
    BY <1>1, <2>1, <2>2 DEF PageInv, AnalysisInv
  <2>4. ShownInv'
    BY <1>1, <2>1, <2>2 DEF PageInv, ShownInv
  <2> QED
    BY <1>1, <2>1, <2>2, <2>3, <2>4
       DEF PageInv, PageTypeOK, RecoveryInv, ReportInv, OfSession
<1> QED
  BY <1>2, <1>3


\* A page that stays as it is, whatever else is called or forgotten.
LEMMA KeptPage ==
  ASSUME PageInv, NEW cs \in SUBSET CallSet,
         \A x \in cs : x \in calls \/ x.kind \in SessionCalls \cup {"checkout", "plan"},
         \A x \in calls : x.kind = "full" => x \in cs,
         calls' = cs, UNCHANGED <<page, screen>>
  PROVE  PageInv'
BY DEF PageInv, PageTypeOK, RecoveryInv, AnalysisInv, ReportInv, ShownInv

\* A recovery that stops leaves an earlier case or nothing.
LEMMA StoppedIsSettled ==
  ASSUME PageInv, page.at \in Home
  PROVE  /\ Stopped \in ScreenSet /\ Stopped.text = None
         /\ Stopped.crossed = screen.crossed /\ Stopped.result = screen.result
         /\ \/ (\A x \in calls : x.kind # "full") /\ Stopped.wanted = screen.wanted
            \/ /\ \E x \in calls : x.kind = "full"
               /\ Stopped.result # None => Stopped.wanted = Stopped.result.of
<1>1. screen \in ScreenSet /\ screen.text = None
  BY DEF PageInv, PageTypeOK, ShownInv
<1>2. screen.result # None => screen.result.of \in Named
  BY <1>1 DEF ScreenSet, Shown
<1>3. Recovering <=> \E x \in calls : x.kind = "full"
  BY DEF PageInv, RecoveryInv, Recovering, Out
<1>4. CASE ~Recovering
  BY <1>1, <1>3, <1>4 DEF Stopped
<1>5. CASE Recovering
  <2>1. Stopped = [screen EXCEPT !.wanted = IF screen.result = None THEN None
                                            ELSE screen.result.of]
    BY <1>5 DEF Stopped
  <2>2. Stopped \in ScreenSet
    BY <1>1, <1>2, <2>1 DEF ScreenSet, Named
  <2>3. /\ Stopped.text = screen.text /\ Stopped.crossed = screen.crossed
        /\ Stopped.result = screen.result
        /\ Stopped.result # None => Stopped.wanted = Stopped.result.of
    BY <1>1, <2>1 DEF ScreenSet
  <2> QED
    BY <1>1, <1>3, <1>5, <2>2, <2>3
<1> QED
  BY <1>4, <1>5

\* navigate(p), from any page to any other.
LEMMA NavigatedPage ==
  ASSUME PageInv, NEW p \in PageSet, NEW rest \in SUBSET CallSet,
         \A x \in rest : x.kind \in SessionCalls \/ x \in calls,
         \A x \in calls : x.kind = "full" => x \in rest,
         NEW tk \in Whose, NEW st \in Named, NEW u,
         Navigate(p, rest, tk, st, u)
  PROVE  PageInv' /\ OfSession(calls') \subseteq OfSession(rest)
<1>1. CASE p = page /\ calls' = rest /\ UNCHANGED <<page, screen>>
  <2>1. PageInv'
    BY <1>1, KeptPage
  <2> QED
    BY <2>1, <1>1
<1>2. CASE p # page /\ {p.at, page.at} \subseteq Home /\ Readdress(p, rest, Stopped, tk, st)
  <2>1. p.at \in Home /\ page.at \in Home
    BY <1>2
  <2> QED
    BY <1>2, <2>1, StoppedIsSettled, ReaddressedPage
<1>3. CASE p # page /\ ~({p.at, page.at} \subseteq Home) /\ Mount(p, Cancelled(rest), tk, st, u, ready)
  BY <1>3, CancelledIsQuiet, MountedPage
<1> QED
  BY <1>1, <1>2, <1>3 DEF Navigate

\* The session changed under the page.
LEMMA RerenderedPage ==
  ASSUME PageInv, StoredTypeOK, NEW rest \in SUBSET CallSet,
         \A x \in rest : x \in calls,
         \A x \in calls : x.kind = "full" => x \in rest,
         NEW tk \in Whose, NEW u, NEW rdy, Rerender(rest, tk, u, rdy)
  PROVE  PageInv' /\ OfSession(calls') \subseteq OfSession(rest)
<1>1. CASE ProtectedRoute(page) /\ (rdy # ready \/ u = None)
  <2>1. Mount(page, Cancelled(rest), tk, stored, u, rdy)
    BY <1>1 DEF Rerender
  <2>2. page \in PageSet
    BY DEF PageInv, PageTypeOK
  <2> QED
    BY <2>1, <2>2, CancelledIsQuiet, MountedPage DEF StoredTypeOK
<1>2. CASE ~(ProtectedRoute(page) /\ (rdy # ready \/ u = None))
  <2>1. calls' = rest /\ UNCHANGED <<page, screen>>
    BY <1>2 DEF Rerender
  <2>2. PageInv'
    BY <2>1, KeptPage
  <2> QED
    BY <2>1, <2>2
<1> QED
  BY <1>1, <1>2

\* A loaded document knows nobody yet and asks whose its token is.
LEMMA LoadedPage ==
  ASSUME StoredTypeOK, NEW p \in PageSet, Load(p), UNCHANGED <<token, stored>>
  PROVE  PageInv' /\ SessionInv' /\ SessionTypeOK'
<1> DEFINE me == IF token = None THEN {} ELSE {Call("me", None, token)}
<1>1. me \in SUBSET CallSet /\ \A x \in me : x.kind = "me" /\ x.as = token /\ x.live
  <2>1. token \in Whose /\ None \in Named /\ "me" \in Kinds
    BY DEF StoredTypeOK, Named, Kinds
  <2> QED
    BY <2>1, CallIsTyped DEF Call
<1>2. \A x, y \in me : x = y
  OBVIOUS
<1>3. /\ user' = None /\ ready' = (token = None) /\ overlap' = FALSE
      /\ Mount(p, me, token, stored, None, token = None)
  BY DEF Load
<1>4. Quiet(me)
  BY <1>1 DEF Quiet
<1> HIDE DEF me
<1>5. PageInv' /\ OfSession(calls') \subseteq OfSession(me)
  BY <1>1, <1>3, <1>4, MountedPage DEF StoredTypeOK
<1>6. SessionTypeOK'
  BY <1>3 DEF SessionTypeOK, Whose
<1>7. \A x \in OfSession(calls') : x \in me
  BY <1>5 DEF OfSession
<1>8. \A x \in calls' : x.kind = "me" => x \in me
  BY <1>7 DEF OfSession
<1>9. ready' => user' = token'
  BY <1>3
<1> QED
  BY <1>1, <1>2, <1>5, <1>6, <1>7, <1>8, <1>9 DEF SessionInv

\* Leaving the site ends the document.
LEMMA LeftPage ==
  ASSUME NEW at \in Offsite, NEW c \in Named, Leave(at, c), UNCHANGED <<token, stored>>
  PROVE  PageInv' /\ SessionInv' /\ SessionTypeOK'
<1>1. page' \in PageSet /\ page'.at \notin Home
  BY DEF Leave, PageSet, Offsite
<1>2. calls' = {} /\ screen' = Blank /\ user' = None /\ ready' = FALSE /\ overlap' = FALSE
  BY DEF Leave
<1>3. PageInv'
  BY <1>1, <1>2, BlankIsTyped
     DEF PageInv, PageTypeOK, RecoveryInv, AnalysisInv, ReportInv, ShownInv
<1>4. SessionInv' /\ SessionTypeOK'
  BY <1>2 DEF SessionInv, OfSession, SessionTypeOK, Whose
<1> QED
  BY <1>3, <1>4

\* Nothing of the session happens.
LEMMA SameSession ==
  ASSUME SessionInv, OfSession(calls') \subseteq OfSession(calls), UNCHANGED <<token, session>>
  PROVE  SessionInv'
<1>1. \A x \in calls' : x.kind = "me" => x \in OfSession(calls) /\ x \in calls
  BY DEF OfSession
<1> QED
  BY <1>1 DEF SessionInv, session


-----------------------------------------------------------------------------
(* The person *)

\* The pages one can go to.
LEMMA PagesAreTyped == Pages \subseteq PageSet
BY DEF Pages, PageSet, Named

\* An analysis is sent from a form that shows nothing and restores nothing.
LEMMA submitStep == TabInv /\ submit => TabInv'
<1> SUFFICES ASSUME TabInv, submit PROVE TabInv'
  OBVIOUS
<1> DEFINE k == Call("analyze", None, token)
<1>1. /\ PageInv /\ StoredTypeOK /\ SessionInv /\ PageTypeOK
      /\ calls' = calls \cup {k}
      /\ screen' = [screen EXCEPT !.last = None, !.wanted = "new", !.crossed = FALSE]
      /\ UNCHANGED <<server, browser, session, page>>
  BY DEF TabInv, PageInv, submit, Send
<1>2. k \in CallSet /\ k.kind = "analyze" /\ k.live
  BY <1>1, CallIsTyped DEF StoredTypeOK, Kinds, Named, Call
<1>3. page.at \in Home /\ screen.result = None
      /\ \A x \in calls : x.kind \in {"full", "analyze"} => ~x.live
  BY DEF submit, FormShown, Out
<1>4. \A x \in calls : x.kind # "full"
  BY <1>1, <1>3 DEF PageInv, RecoveryInv
<1>5. page.of = None /\ page \in PageSet
  BY <1>1, <1>3, <1>4 DEF PageInv, RecoveryInv, PageTypeOK
<1>7. /\ screen' \in ScreenSet /\ screen'.wanted = "new" /\ screen'.result = None
      /\ screen'.text = screen.text
  BY <1>1, <1>3 DEF PageTypeOK, ScreenSet, Named
<1>8. page' = page /\ screen.text = None
  BY <1>1, <1>3 DEF PageInv, ShownInv
<1> HIDE DEF k
<1>9. PageInv'
  BY <1>1, <1>2, <1>3, <1>4, <1>5, <1>7, <1>8
     DEF PageInv, PageTypeOK, RecoveryInv, AnalysisInv, ReportInv, ShownInv
<1>10. OfSession(calls') \subseteq OfSession(calls)
  BY <1>1, <1>2 DEF OfSession
<1>11. UNCHANGED <<token, session>>
  BY <1>1 DEF browser
<1>12. SessionInv'
  BY <1>1, <1>10, <1>11, SameSession
<1> QED
  BY <1>1, <1>9, <1>12
     DEF TabInv, ServerTypeOK, StoredTypeOK, SessionTypeOK, server, browser, session

\* A call to a payment page changes nothing that is shown.
LEMMA PaymentCallStep ==
  ASSUME TabInv, NEW kind \in {"checkout", "plan"}, NEW c \in Named,
         Send(Call(kind, c, token)),
         UNCHANGED <<server, browser, session, page, screen>>
  PROVE  TabInv'
<1> DEFINE k == Call(kind, c, token)
<1>1. k \in CallSet /\ k.kind \in {"checkout", "plan"}
  BY CallIsTyped DEF TabInv, StoredTypeOK, Kinds
<1>2. calls' = calls \cup {k}
  BY DEF Send
<1> HIDE DEF k
<1>3. PageInv'
  BY <1>1, <1>2, KeptPage DEF TabInv, PageInv, PageTypeOK
<1>4. SessionInv'
  BY <1>1, <1>2, SameSession DEF TabInv, OfSession, browser
<1> QED
  BY <1>3, <1>4
     DEF TabInv, ServerTypeOK, StoredTypeOK, SessionTypeOK, server, browser, session

\* A session call that is sent overlaps the one that is out, if any.
LEMMA SessionCallStep ==
  ASSUME TabInv, NEW k \in CallSet, k.kind \in SessionCalls \ {"me"}, k.live,
         overlap' = (overlap \/ Out(SessionCalls)),
         OfSession(calls') \subseteq OfSession(calls \cup {k}),
         UNCHANGED <<server, browser, user, ready>>
  PROVE  SessionInv' /\ ServerTypeOK' /\ StoredTypeOK' /\ SessionTypeOK'
<1>1. ~overlap' => ~overlap /\ OfSession(calls) = {}
  BY DEF TabInv, SessionInv, OfSession, Out
<1>2. \A x \in OfSession(calls') : x = k \/ x \in OfSession(calls)
  BY DEF OfSession
<1>3. \A x \in OfSession(calls') : x.live
  BY <1>2 DEF TabInv, SessionInv
<1>4. ASSUME ~overlap'
      PROVE  /\ \A x, y \in OfSession(calls') : x = y
             /\ \A x \in calls' : x.kind = "me" => x.as = token'
             /\ ready' => user' = token'
  <2>1. \A x \in OfSession(calls') : x = k
    BY <1>1, <1>2, <1>4
  <2>2. \A x \in calls' : x.kind = "me" => x = k
    BY <2>1 DEF OfSession
  <2>3. ready' => user' = token'
    BY <1>1, <1>4 DEF TabInv, SessionInv, browser
  <2> QED
    BY <2>1, <2>2, <2>3
<1>5. SessionInv'
  BY <1>3, <1>4 DEF SessionInv
<1>6. overlap' \in BOOLEAN
  BY DEF TabInv, SessionTypeOK, Out
<1> QED
  BY <1>5, <1>6 DEF TabInv, ServerTypeOK, StoredTypeOK, SessionTypeOK, server, browser

LEMMA loginStep ==
  ASSUME TabInv, NEW a \in Accounts, login(a)
  PROVE  TabInv'
<1> DEFINE k == Call("login", None, a)
<1>1. k \in CallSet /\ k.kind = "login" /\ k.live
  BY CallIsTyped DEF Kinds, Named, Whose, Call
<1>2. /\ calls' = calls \cup {k} /\ overlap' = (overlap \/ Out(SessionCalls))
      /\ UNCHANGED <<server, browser, user, ready, page, screen>>
  BY DEF login, SendSession, Send
<1> HIDE DEF k
<1>3. PageInv'
  BY <1>1, <1>2, KeptPage DEF TabInv, PageInv, PageTypeOK
<1>4. OfSession(calls') \subseteq OfSession(calls \cup {k})
  BY <1>2
<1> QED
  BY <1>1, <1>2, <1>3, <1>4, SessionCallStep DEF TabInv

LEMMA logoutStep == TabInv /\ logout => TabInv'
<1> SUFFICES ASSUME TabInv, logout PROVE TabInv'
  OBVIOUS
<1> DEFINE k == Call("logout", None, token)
<1>1. k \in CallSet /\ k.kind = "logout" /\ k.live
  BY CallIsTyped DEF Kinds, Named, Call, TabInv, StoredTypeOK
<1>2. /\ overlap' = (overlap \/ Out(SessionCalls))
      /\ UNCHANGED <<server, browser, user, ready>>
  BY DEF logout
<1>3. \/ calls' = calls \cup {k} /\ UNCHANGED <<page, screen>>
      \/ Navigate(Page("login", None), calls \cup {k}, token, stored, user)
  BY DEF logout
<1> HIDE DEF k
<1>4. PageInv' /\ OfSession(calls') \subseteq OfSession(calls \cup {k})
  <2>1. CASE calls' = calls \cup {k} /\ UNCHANGED <<page, screen>>
    <3>1. PageInv'
      BY <1>1, <2>1, KeptPage DEF TabInv, PageInv, PageTypeOK
    <3> QED
      BY <2>1, <3>1
  <2>2. CASE Navigate(Page("login", None), calls \cup {k}, token, stored, user)
    <3>1. Page("login", None) \in PageSet /\ Page("login", None).at = "login"
      BY DEF PageSet, Named
    <3>2. calls \cup {k} \in SUBSET CallSet
      BY <1>1 DEF TabInv, PageInv, PageTypeOK
    <3>3. token \in Whose /\ stored \in Named /\ PageInv
      BY DEF TabInv, StoredTypeOK
    <3> QED
      BY <1>1, <2>2, <3>1, <3>2, <3>3, NavigatedPage
  <2> QED
    BY <1>3, <2>1, <2>2
<1> QED
  BY <1>1, <1>2, <1>4, SessionCallStep DEF TabInv

LEMMA GoStep ==
  ASSUME TabInv, NEW p \in Pages, Go(p)
  PROVE  TabInv'
<1>1. /\ p \in PageSet
      /\ Navigate(p, calls, token, stored, user)
      /\ UNCHANGED <<server, browser, session>>
  BY PagesAreTyped DEF Go
<1>2. token \in Whose /\ stored \in Named /\ PageInv /\ calls \in SUBSET CallSet
  BY DEF TabInv, StoredTypeOK, PageInv, PageTypeOK
<1>3. PageInv' /\ OfSession(calls') \subseteq OfSession(calls)
  BY <1>1, <1>2, NavigatedPage
<1>4. SessionInv'
  BY <1>1, <1>3, SameSession DEF TabInv, browser
<1> QED
  BY <1>1, <1>3, <1>4
     DEF TabInv, ServerTypeOK, StoredTypeOK, SessionTypeOK, server, browser, session

LEMMA BackToFormStep == TabInv /\ BackToForm => TabInv'
<1> SUFFICES ASSUME TabInv, BackToForm PROVE TabInv'
  OBVIOUS
<1>1. /\ page.at \in Home /\ screen.result # None
      /\ screen' = [screen EXCEPT !.result = None, !.last = None, !.wanted = None]
      /\ stored' = None
      /\ UNCHANGED <<server, token, session, page, calls>>
  BY DEF BackToForm
<1>2. PageInv /\ PageTypeOK /\ SessionInv
  BY DEF TabInv, PageInv
<1>3. /\ \A x \in calls : x.kind # "full"
      /\ ~screen.crossed => \A x \in calls : x.kind = "analyze" => ~x.live
  BY <1>1, <1>2 DEF PageInv, RecoveryInv, AnalysisInv, BackToForm, Recovering, Out
<1>4. /\ screen' \in ScreenSet /\ screen'.result = None /\ screen'.text = screen.text
      /\ screen'.crossed = screen.crossed
  BY <1>1, <1>2 DEF PageTypeOK, ScreenSet, Named
<1>5. PageInv'
  BY <1>1, <1>2, <1>3, <1>4
     DEF PageInv, PageTypeOK, RecoveryInv, AnalysisInv, ReportInv, ShownInv
<1>6. SessionInv'
  BY <1>1, <1>2, SameSession
<1> QED
  BY <1>1, <1>5, <1>6
     DEF TabInv, ServerTypeOK, StoredTypeOK, SessionTypeOK, server, session, Named

\* A report page that starts again listens to its new poll only.
LEMMA retryCheckStep == TabInv /\ retryCheck => TabInv'
<1> SUFFICES ASSUME TabInv, retryCheck PROVE TabInv'
  OBVIOUS
<1> DEFINE k == Call("state", page.of, token)
           cs == Cancelled(calls)
<1>1. /\ page.at = "descargo"
      /\ calls' = cs \cup {k}
      /\ screen' = [Blank EXCEPT !.phase = "checking", !.attempts = 1]
      /\ UNCHANGED <<server, browser, session, page>>
  BY DEF retryCheck
<1>2. PageInv /\ PageTypeOK /\ SessionInv /\ page \in PageSet
  BY DEF TabInv, PageInv, PageTypeOK
<1>3. k \in CallSet /\ k.kind = "state" /\ k.live /\ k.of = page.of
  BY <1>2, CallIsTyped DEF Kinds, Call, TabInv, StoredTypeOK, PageSet
<1>4. cs \in SUBSET CallSet /\ Quiet(cs) /\ OfSession(cs) \subseteq OfSession(calls)
  BY <1>2, CancelledIsQuiet DEF PageTypeOK
<1>5. \A x \in cs : /\ x.kind \notin {"full", "state"}
                    /\ x.kind \in {"analyze", "discharge"} => ~x.live
  BY <1>4 DEF Quiet
<1>6. page = Page("descargo", page.of)
  BY <1>1, <1>2 DEF PageSet
<1>7. screen' \in ScreenSet /\ screen'.result = None /\ screen'.text = None
  BY <1>1, BlankIsTyped
<1> HIDE DEF k, cs
<1>8. PageInv'
  BY <1>1, <1>2, <1>3, <1>4, <1>5, <1>6, <1>7
     DEF PageInv, PageTypeOK, RecoveryInv, AnalysisInv, ReportInv, ShownInv
<1>9. SessionInv'
  BY <1>1, <1>2, <1>3, <1>4, SameSession DEF OfSession, browser
<1> QED
  BY <1>1, <1>8, <1>9
     DEF TabInv, ServerTypeOK, StoredTypeOK, SessionTypeOK, server, browser, session

LEMMA PersonStep == TabInv /\ Person => TabInv'
<1> SUFFICES ASSUME TabInv, Person PROVE TabInv'
  OBVIOUS
<1>1. CASE \E p \in Pages : OpenAddress(p)
  <2>1. PICK p \in Pages : OpenAddress(p)
    BY <1>1
  <2>2. p \in PageSet /\ Load(p) /\ UNCHANGED <<server, token, stored>>
    BY <2>1, PagesAreTyped DEF OpenAddress, browser
  <2>3. StoredTypeOK
    BY DEF TabInv
  <2>4. PageInv' /\ SessionInv' /\ SessionTypeOK'
    BY <2>2, <2>3, LoadedPage
  <2> QED
    BY <2>2, <2>4 DEF TabInv, ServerTypeOK, StoredTypeOK, server
<1>2. CASE \E p \in Pages : Go(p)
  BY <1>2, GoStep
<1>3. CASE \E a \in Accounts : login(a)
  BY <1>3, loginStep
<1>4. CASE pay
  <2>1. screen.result.of \in Named
    <3>1. screen.result \in Shown
      BY <1>4 DEF pay, Offered, TabInv, PageInv, PageTypeOK, ScreenSet
    <3> QED
      BY <3>1 DEF Shown
  <2> QED
    BY <1>4, <2>1, PaymentCallStep DEF pay
<1>5. CASE startCheckout
  BY <1>5, PaymentCallStep DEF startCheckout, Named
<1> QED
  BY <1>1, <1>2, <1>3, <1>4, <1>5, submitStep, BackToFormStep, logoutStep, retryCheckStep DEF Person


-----------------------------------------------------------------------------
(* Stripe, the server and the timer *)

LEMMA StripeStep == TabInv /\ StripeReturns => TabInv'
<1> SUFFICES ASSUME TabInv, StripeReturns PROVE TabInv'
  OBVIOUS
<1>1. /\ Load(Page("home", page.of)) /\ page \in PageSet /\ StoredTypeOK
      /\ UNCHANGED <<caseState, token, stored>>
  BY DEF StripeReturns, browser, TabInv, PageInv, PageTypeOK
<1>2. Page("home", page.of) \in PageSet
  BY <1>1 DEF PageSet
<1>3. PageInv' /\ SessionInv' /\ SessionTypeOK'
  BY <1>1, <1>2, LoadedPage
<1> QED
  BY <1>1, <1>3 DEF TabInv, ServerTypeOK, StoredTypeOK

LEMMA WebhookStep ==
  ASSUME TabInv, NEW c \in Cases, Webhook(c)
  PROVE  TabInv'
<1>1. /\ UNCHANGED <<browser, session, page, screen, calls>>
      /\ \/ caseState' = [caseState EXCEPT ![c] = "DISCHARGE_READY"]
         \/ caseState' = [caseState EXCEPT ![c] = "FAILED"]
  BY DEF Webhook, SetState
<1>2. ServerTypeOK'
  BY <1>1 DEF TabInv, ServerTypeOK, CaseState
<1>3. PageInv'
  BY <1>1, KeptPage DEF TabInv, PageInv, PageTypeOK
<1>4. SessionInv'
  BY <1>1, SameSession DEF TabInv, browser, OfSession
<1> QED
  BY <1>1, <1>2, <1>3, <1>4 DEF TabInv, StoredTypeOK, SessionTypeOK, browser, session

\* Another poll, or none any more.
LEMMA PollStep == TabInv /\ Poll => TabInv'
<1> SUFFICES ASSUME TabInv, Poll PROVE TabInv'
  OBVIOUS
<1> DEFINE k == Call("state", page.of, token)
<1>1. page.at = "descargo" /\ UNCHANGED <<server, browser, session, page>>
  BY DEF Poll
<1>2. PageInv /\ PageTypeOK /\ SessionInv /\ page \in PageSet /\ screen \in ScreenSet
  BY DEF TabInv, PageInv, PageTypeOK
<1>3. \/ /\ screen' = [screen EXCEPT !.attempts = @ + 1]
         /\ calls' = calls \cup {k}
      \/ /\ screen' = [screen EXCEPT !.phase = "timeout"]
         /\ calls' = calls
  BY DEF Poll, Send
<1>4. k \in CallSet /\ k.kind = "state" /\ k.live /\ k.of = page.of
  BY <1>2, CallIsTyped DEF Kinds, Call, TabInv, StoredTypeOK, PageSet
<1>5. page = Page("descargo", page.of)
  BY <1>1, <1>2 DEF PageSet
<1>6. /\ screen' \in ScreenSet /\ screen'.result = screen.result
      /\ screen'.wanted = screen.wanted /\ screen'.text = screen.text
      /\ screen'.crossed = screen.crossed
  BY <1>2, <1>3 DEF ScreenSet
<1> HIDE DEF k
<1>7. PageInv'
  BY <1>1, <1>2, <1>3, <1>4, <1>5, <1>6
     DEF PageInv, PageTypeOK, RecoveryInv, AnalysisInv, ReportInv, ShownInv
<1>8. SessionInv'
  BY <1>1, <1>2, <1>3, <1>4, SameSession DEF OfSession, browser
<1> QED
  BY <1>1, <1>7, <1>8
     DEF TabInv, ServerTypeOK, StoredTypeOK, SessionTypeOK, server, browser, session

\* An answer is attached to its call.
LEMMA AnsweredPage ==
  ASSUME PageInv, NEW x \in calls, NEW y \in CallSet, x.kind \notin SessionCalls,
         y.kind = x.kind, y.live = x.live, x.kind # "analyze" => y.of = x.of,
         calls' = (calls \ {x}) \cup {y}, UNCHANGED <<page, screen>>
  PROVE  PageInv' /\ OfSession(calls') \subseteq OfSession(calls)
<1>1. OfSession(calls') \subseteq OfSession(calls)
  BY DEF OfSession
<1>2. PageTypeOK' /\ ShownInv'
  BY DEF PageInv, PageTypeOK, ShownInv
<1>3. RecoveryInv'
  <2>1. ASSUME NEW z \in calls', z.kind = "full"
        PROVE  /\ z.live
               /\ page'.at \in Home => screen'.wanted = z.of
    <3>1. CASE z = y
      BY <2>1, <3>1 DEF PageInv, RecoveryInv
    <3>2. CASE z # y
      BY <2>1, <3>2 DEF PageInv, RecoveryInv
    <3> QED
      BY <3>1, <3>2
  <2>2. page'.at \in Home /\ page'.of # None => \E z \in calls' : z.kind = "full"
    BY DEF PageInv, RecoveryInv
  <2> QED
    BY <2>1, <2>2 DEF RecoveryInv
<1>4. AnalysisInv'
  BY DEF PageInv, AnalysisInv
<1>5. ReportInv'
  BY DEF PageInv, ReportInv
<1> QED
  BY <1>1, <1>2, <1>3, <1>4, <1>5 DEF PageInv

LEMMA AnswerStep ==
  ASSUME TabInv, NEW x \in calls, Answer(x)
  PROVE  TabInv'
<1>1. /\ UNCHANGED <<browser, session, page, screen>> /\ x.kind \notin SessionCalls
      /\ PageInv /\ SessionInv /\ x \in CallSet /\ ServerTypeOK
  BY DEF Answer, TabInv, PageInv, PageTypeOK
<1>2. ServerTypeOK' /\ PageInv' /\ OfSession(calls') \subseteq OfSession(calls)
  <2>1. ASSUME NEW r \in Replies, Answered(x, r)
        PROVE  PageInv' /\ OfSession(calls') \subseteq OfSession(calls)
    <3> DEFINE y == [x EXCEPT !.reply = r]
    <3>1. /\ y \in CallSet /\ y.kind = x.kind /\ y.live = x.live /\ y.of = x.of
      BY <1>1 DEF CallSet
    <3>2. calls' = (calls \ {x}) \cup {y}
      BY <2>1 DEF Answered
    <3> HIDE DEF y
    <3> QED
      BY <1>1, <3>1, <3>2, AnsweredPage
  <2>2. CASE Fails(x)
    BY <1>1, <2>1, <2>2 DEF Fails, server, ServerTypeOK, Replies
  <2>3. CASE Missing(x)
    BY <1>1, <2>1, <2>3 DEF Missing, server, ServerTypeOK, Replies
  <2>4. CASE AnswerRead(x)
    <3>1. x.of \in Cases
      BY <1>1, <2>4 DEF AnswerRead, Found, CallSet, Named
    <3>2. caseState[x.of] \in Replies
      BY <1>1, <3>1 DEF ServerTypeOK, Replies
    <3> QED
      BY <1>1, <2>1, <2>4, <3>2 DEF AnswerRead, server, ServerTypeOK
  <2>5. CASE AnswerDischarge(x)
    <3>1. caseState' = [caseState EXCEPT ![x.of] = "DISCHARGED"] /\ Answered(x, "text")
      BY <2>5 DEF AnswerDischarge, SetState
    <3>2. ServerTypeOK'
      BY <1>1, <3>1 DEF ServerTypeOK, CaseState
    <3> QED
      BY <2>1, <3>1, <3>2 DEF Replies
  <2>6. CASE AnswerAnalyze(x)
    <3>1. CASE Answered(x, "preview") /\ UNCHANGED server
      BY <1>1, <2>1, <3>1 DEF server, ServerTypeOK, Replies
    <3>2. CASE \E c \in Cases :
                 /\ SetState(c, IF caseState[c] \in {"none", "CREATED"} THEN "ANALYZED" ELSE caseState[c])
                 /\ calls' = (calls \ {x}) \cup {[x EXCEPT !.of = c, !.reply = caseState'[c]]}
      <4>1. PICK c \in Cases :
                 /\ SetState(c, IF caseState[c] \in {"none", "CREATED"} THEN "ANALYZED" ELSE caseState[c])
                 /\ calls' = (calls \ {x}) \cup {[x EXCEPT !.of = c, !.reply = caseState'[c]]}
        BY <3>2
      <4>2. ServerTypeOK'
        BY <1>1, <4>1 DEF ServerTypeOK, SetState, CaseState
      <4>3. caseState'[c] \in Replies
        BY <4>2 DEF ServerTypeOK, Replies
      <4> DEFINE y == [x EXCEPT !.of = c, !.reply = caseState'[c]]
      <4>4. /\ y \in CallSet /\ y.kind = x.kind /\ y.live = x.live
        BY <1>1, <4>3 DEF CallSet, Named
      <4>5. calls' = (calls \ {x}) \cup {y} /\ x.kind = "analyze"
        BY <2>6, <4>1 DEF AnswerAnalyze
      <4> HIDE DEF y
      <4> QED
        BY <1>1, <4>2, <4>4, <4>5, AnsweredPage
    <3> QED
      BY <2>6, <3>1, <3>2 DEF AnswerAnalyze
  <2>7. CASE AnswerCheckout(x)
    <3>1. caseState' = [caseState EXCEPT ![x.of] = "PAYMENT_PENDING"] /\ Answered(x, "url")
      BY <2>7 DEF AnswerCheckout, SetState
    <3>2. ServerTypeOK'
      BY <1>1, <3>1 DEF ServerTypeOK, CaseState
    <3> QED
      BY <2>1, <3>1, <3>2 DEF Replies
  <2>8. CASE AnswerPlan(x)
    BY <1>1, <2>1, <2>8 DEF AnswerPlan, server, ServerTypeOK, Replies
  <2> QED
    BY <2>2, <2>3, <2>4, <2>5, <2>6, <2>7, <2>8 DEF Answer
<1>3. SessionInv'
  BY <1>1, <1>2, SameSession DEF browser
<1> QED
  BY <1>1, <1>2, <1>3 DEF TabInv, StoredTypeOK, SessionTypeOK, browser, session

-----------------------------------------------------------------------------
(* What the tab makes of an answer *)

\* The call that has been heard is gone.
LEMMA RestIsTyped ==
  ASSUME TabInv, NEW x \in calls
  PROVE  /\ x \in CallSet /\ x.of \in Named /\ x.as \in Whose /\ x.reply \in Replies
         /\ Rest(x) \in SUBSET CallSet /\ Rest(x) \subseteq calls
         /\ OfSession(Rest(x)) \subseteq OfSession(calls)
BY DEF TabInv, PageInv, PageTypeOK, CallSet, Rest, OfSession

\* A page that is left on an answer, for another one.
LEMMA MovesOn ==
  ASSUME TabInv, NEW x \in calls, NEW p \in PageSet, NEW st \in Named,
         Mount(p, Cancelled(Rest(x)), token, st, user, ready)
  PROVE  PageInv' /\ OfSession(calls') \subseteq OfSession(calls)
<1>1. /\ Cancelled(Rest(x)) \in SUBSET CallSet /\ Quiet(Cancelled(Rest(x)))
      /\ OfSession(Cancelled(Rest(x))) \subseteq OfSession(calls)
  BY RestIsTyped, CancelledIsQuiet
<1> QED
  BY <1>1, MountedPage DEF TabInv, StoredTypeOK

LEMMA HomeHearsPage ==
  ASSUME TabInv, NEW x \in calls, HomeHears(x)
  PROVE  PageInv' /\ OfSession(calls') \subseteq OfSession(calls) /\ StoredTypeOK'
<1>1. page.at \in Home /\ x.kind = "full" /\ PageInv /\ token' = token
  BY DEF HomeHears, TabInv
<1>2. /\ x.of \in Named /\ x.reply \in Replies /\ Rest(x) \in SUBSET CallSet
      /\ Rest(x) \subseteq calls /\ OfSession(Rest(x)) \subseteq OfSession(calls)
      /\ None \in Named /\ token \in Whose
  BY RestIsTyped DEF Named, TabInv, StoredTypeOK
<1>3. /\ screen \in ScreenSet /\ screen.wanted = x.of /\ screen.text = None
      /\ Page(page.at, None) \in PageSet
  BY <1>1, <1>2 DEF PageInv, PageTypeOK, PageSet, RecoveryInv, ShownInv
<1>4. CASE stored' = x.of /\ Mount(Page("descargo", x.of), Cancelled(Rest(x)), token, x.of, user, ready)
  <2>1. Page("descargo", x.of) \in PageSet
    BY <1>2 DEF PageSet
  <2> QED
    BY <1>1, <1>2, <1>4, <2>1, MovesOn DEF StoredTypeOK
<1>5. CASE Forget(x)
  <2> DEFINE new == [Stopped EXCEPT !.last = None]
  <2>1. /\ Stopped \in ScreenSet /\ Stopped.text = None /\ Stopped.crossed = screen.crossed
        /\ Stopped.result # None => Stopped.wanted = Stopped.result.of
    BY <1>1, StoppedIsSettled
  <2>2. /\ Readdress(Page(page.at, None), Rest(x), new, token, None) /\ stored' = None
        /\ new \in ScreenSet /\ new.text = None /\ new.crossed = screen.crossed
        /\ new.result # None => new.wanted = new.result.of
    BY <1>2, <1>5, <2>1 DEF Forget, ScreenSet
  <2> HIDE DEF new
  <2>3. PageInv' /\ OfSession(calls') \subseteq OfSession(Rest(x))
    BY <1>1, <1>2, <1>3, <2>2, ReaddressedPage
  <2> QED
    BY <1>1, <1>2, <2>2, <2>3 DEF StoredTypeOK
<1>6. CASE /\ stored' = x.of
           /\ Readdress(Page(page.at, None), Rest(x), [screen EXCEPT !.last = x.of,
                 !.result = [of |-> x.of, cs |-> x.reply]], token, x.of)
  <2> DEFINE new == [screen EXCEPT !.last = x.of, !.result = [of |-> x.of, cs |-> x.reply]]
  <2>1. [of |-> x.of, cs |-> x.reply] \in Shown
    BY <1>2 DEF Shown
  <2>2. /\ new \in ScreenSet /\ new.text = None /\ new.last = x.of
        /\ new.wanted = x.of /\ new.result.of = x.of /\ new.crossed = screen.crossed
    BY <1>2, <1>3, <2>1 DEF ScreenSet
  <2>3. Readdress(Page(page.at, None), Rest(x), new, token, x.of)
    BY <1>6
  <2> HIDE DEF new
  <2>5. PageInv' /\ OfSession(calls') \subseteq OfSession(Rest(x))
    BY <1>1, <1>2, <1>3, <2>2, <2>3, ReaddressedPage
  <2> QED
    BY <1>1, <1>2, <1>6, <2>5 DEF StoredTypeOK
<1> QED
  BY <1>4, <1>5, <1>6 DEF HomeHears

LEMMA DescargoHearsPage ==
  ASSUME TabInv, NEW x \in calls, DescargoHears(x)
  PROVE  PageInv' /\ OfSession(calls') \subseteq OfSession(calls)
<1>1. /\ page.at = "descargo" /\ x.kind \in {"state", "discharge"} /\ x.live /\ PageInv
      /\ screen \in ScreenSet
  BY DEF DescargoHears, TabInv, PageInv, PageTypeOK
<1>2. /\ x.of \in Named /\ Rest(x) \in SUBSET CallSet /\ Rest(x) \subseteq calls
      /\ OfSession(Rest(x)) \subseteq OfSession(calls) /\ token \in Whose
  BY RestIsTyped DEF TabInv, StoredTypeOK
<1>3. page = Page("descargo", x.of)
  BY <1>1 DEF PageInv, ReportInv
<1>4. CASE Mount(Page("home", x.of), Cancelled(Rest(x)), token, stored, user, ready)
  <2>1. Page("home", x.of) \in PageSet /\ stored \in Named
    BY <1>2 DEF PageSet, TabInv, StoredTypeOK
  <2> QED
    BY <1>4, <2>1, MovesOn
<1>5. ASSUME NEW p \in {"error", screen.phase}, Phase(x, p)
      PROVE  PageInv' /\ OfSession(calls') \subseteq OfSession(calls)
  <2>1. /\ screen' \in ScreenSet /\ screen'.text = screen.text
        /\ page' = page /\ calls' = Rest(x)
    BY <1>1, <1>5 DEF Phase, ScreenSet
  <2> QED
    BY <1>1, <1>2, <1>3, <2>1
       DEF PageInv, PageTypeOK, RecoveryInv, AnalysisInv, ReportInv, ShownInv
<1>6. CASE /\ screen' = [screen EXCEPT !.phase = "generating"]
           /\ calls' = Rest(x) \cup {Call("discharge", x.of, token)}
           /\ UNCHANGED page
  <2> DEFINE k == Call("discharge", x.of, token)
  <2>1. k \in CallSet /\ k.kind = "discharge" /\ k.of = x.of
    BY <1>2, CallIsTyped DEF Kinds
  <2>2. screen' \in ScreenSet /\ screen'.text = screen.text
    BY <1>1, <1>6 DEF ScreenSet
  <2>3. page' = page /\ calls' = Rest(x) \cup {k}
    BY <1>6
  <2> HIDE DEF k
  <2>4. OfSession(calls') \subseteq OfSession(calls)
    BY <1>2, <2>1, <2>3 DEF OfSession
  <2> QED
    BY <1>1, <1>2, <1>3, <2>1, <2>2, <2>3, <2>4
       DEF PageInv, PageTypeOK, RecoveryInv, AnalysisInv, ReportInv, ShownInv
<1>7. CASE /\ screen' = [screen EXCEPT !.phase = "ready", !.text = x.of]
           /\ calls' = Rest(x)
           /\ UNCHANGED page
  <2>1. screen' \in ScreenSet /\ screen'.text = x.of
    BY <1>1, <1>2, <1>7 DEF ScreenSet
  <2> QED
    BY <1>1, <1>2, <1>3, <1>7, <2>1
       DEF PageInv, PageTypeOK, RecoveryInv, AnalysisInv, ReportInv, ShownInv
<1> QED
  BY <1>4, <1>5, <1>6, <1>7 DEF DescargoHears

LEMMA AnalysisArrivesPage ==
  ASSUME TabInv, NEW x \in calls, AnalysisArrives(x)
  PROVE  PageInv' /\ OfSession(calls') \subseteq OfSession(calls) /\ StoredTypeOK'
<1>1. /\ x.kind = "analyze" /\ PageInv /\ screen \in ScreenSet
      /\ calls' = Rest(x) /\ page' = page /\ token' = token /\ stored' \in {x.of, stored}
  BY DEF AnalysisArrives, TabInv, PageInv, PageTypeOK
<1>2. /\ x.of \in Named /\ x.reply \in Replies /\ Rest(x) \in SUBSET CallSet
      /\ OfSession(Rest(x)) \subseteq OfSession(calls)
  BY RestIsTyped
<1>3. StoredTypeOK'
  BY <1>1, <1>2 DEF TabInv, StoredTypeOK
<1>4. CASE x.live /\ x.reply # "error"
  <2>1. screen' = [screen EXCEPT !.result = [of |-> x.of, cs |-> x.reply]]
    BY <1>4 DEF AnalysisArrives
  <2>2. [of |-> x.of, cs |-> x.reply] \in Shown
    BY <1>2 DEF Shown
  <2>3. /\ screen' \in ScreenSet /\ screen'.wanted = screen.wanted
        /\ screen'.text = screen.text /\ screen'.crossed = screen.crossed
    BY <1>1, <2>1, <2>2 DEF ScreenSet
  <2>4. /\ page.at \in Home
        /\ ~screen.crossed =>
             /\ screen.wanted = "new"
             /\ \A y \in Rest(x) : /\ y.kind # "full"
                                   /\ y.kind = "analyze" => ~y.live
    BY <1>1, <1>4 DEF PageInv, AnalysisInv, Rest
  <2>5. page'.at \in Home /\ screen'.text = None
    BY <1>1, <2>3, <2>4 DEF PageInv, ShownInv
  <2> QED
    BY <1>1, <1>2, <1>3, <2>3, <2>4, <2>5
       DEF PageInv, PageTypeOK, RecoveryInv, AnalysisInv, ReportInv,
           ShownInv, Rest
<1>5. CASE ~(x.live /\ x.reply # "error")
  <2>1. screen' = screen
    BY <1>5 DEF AnalysisArrives
  <2>2. /\ \A y \in Rest(x) : y \in calls
        /\ \A y \in calls : y.kind = "full" => y \in Rest(x)
    BY <1>1 DEF Rest
  <2>3. PageInv'
    BY <1>1, <1>2, <2>1, <2>2, KeptPage
  <2> QED
    BY <1>1, <1>2, <1>3, <2>3
<1> QED
  BY <1>4, <1>5

LEMMA ArrivesStep ==
  ASSUME TabInv, NEW x \in calls, Arrives(x)
  PROVE  TabInv'
<1>1. UNCHANGED server /\ ServerTypeOK' /\ PageInv
  BY DEF Arrives, TabInv, ServerTypeOK, server
<1>2. /\ x.of \in Named /\ Rest(x) \in SUBSET CallSet /\ Rest(x) \subseteq calls
      /\ OfSession(Rest(x)) \subseteq OfSession(calls)
  BY RestIsTyped
<1>3. ASSUME PageInv', OfSession(calls') \subseteq OfSession(calls), StoredTypeOK',
             UNCHANGED <<token, session>>
      PROVE  TabInv'
  <2>1. SessionInv'
    BY <1>3, SameSession DEF TabInv
  <2> QED
    BY <1>1, <1>3, <2>1 DEF TabInv, SessionTypeOK, session
<1>4. CASE HomeHears(x)
  BY <1>3, <1>4, HomeHearsPage DEF HomeHears
<1>5. CASE MultaResumePage(x)
  <2>1. PICK p \in PageSet :
             Mount(p, Cancelled(Rest(x)), token, stored, user, ready)
    BY <1>2, <1>5 DEF MultaResumePage, PageSet, Named
  <2>2. StoredTypeOK' /\ UNCHANGED <<token, session>> /\ stored \in Named
    BY <1>5 DEF MultaResumePage, browser, StoredTypeOK, TabInv
  <2> QED
    BY <1>3, <2>1, <2>2, MovesOn
<1>6. CASE DescargoHears(x)
  <2>1. StoredTypeOK' /\ UNCHANGED <<token, session>>
    BY <1>6 DEF DescargoHears, browser, StoredTypeOK, TabInv
  <2> QED
    BY <1>3, <1>6, <2>1, DescargoHearsPage
<1>7. CASE AnalysisArrives(x)
  BY <1>3, <1>7, AnalysisArrivesPage DEF AnalysisArrives
<1>8. CASE CheckoutArrives(x)
  <2>1. x.kind \in {"checkout", "plan"} /\ UNCHANGED <<token, stored>> /\ StoredTypeOK'
    BY <1>8 DEF CheckoutArrives, browser, StoredTypeOK, TabInv
  <2>2. CASE \E at \in Offsite : Leave(at, x.of)
    BY <1>1, <1>2, <2>1, <2>2, LeftPage DEF TabInv
  <2>3. CASE calls' = Rest(x) /\ UNCHANGED <<session, page, screen>>
    <3>1. /\ \A y \in Rest(x) : y \in calls
          /\ \A y \in calls : y.kind = "full" => y \in Rest(x)
      BY <2>1 DEF Rest
    <3>2. PageInv'
      BY <1>1, <1>2, <2>3, <3>1, KeptPage
    <3> QED
      BY <1>2, <1>3, <2>1, <2>3, <3>2
  <2> QED
    BY <1>8, <2>2, <2>3 DEF CheckoutArrives, Offsite
<1>9. CASE Unheard(x)
  <2>1. /\ x.kind = "discharge" /\ UNCHANGED <<token, stored, session, page, screen>>
        /\ calls' = Rest(x) /\ StoredTypeOK'
    BY <1>9 DEF Unheard, browser, StoredTypeOK, TabInv
  <2>2. /\ \A y \in Rest(x) : y \in calls
        /\ \A y \in calls : y.kind = "full" => y \in Rest(x)
    BY <2>1 DEF Rest
  <2>3. PageInv'
    BY <1>1, <1>2, <2>1, <2>2, KeptPage
  <2> QED
    BY <1>2, <1>3, <2>1, <2>3
<1> QED
  BY <1>4, <1>5, <1>6, <1>7, <1>8, <1>9 DEF Arrives

\* Whichever session call is answered, the account of the token is greeted.
LEMMA SessionArrivesStep ==
  ASSUME TabInv, NEW x \in calls, SessionArrives(x)
  PROVE  TabInv'
<1>1. /\ x.of \in Named /\ x.as \in Whose /\ Rest(x) \in SUBSET CallSet
      /\ Rest(x) \subseteq calls /\ OfSession(Rest(x)) \subseteq OfSession(calls)
  BY RestIsTyped
<1>2. x.kind \in SessionCalls /\ UNCHANGED <<server, stored, overlap>> /\ PageInv /\ SessionInv
  BY DEF SessionArrives, MeArrives, LoginArrives, LogoutArrives, TabInv
<1>3. /\ \A y \in Rest(x) : y \in calls
      /\ \A y \in calls : y.kind = "full" => y \in Rest(x)
  BY <1>2 DEF Rest
<1>4. None \in Named /\ None \in Whose /\ stored \in Named /\ token \in Whose /\ user \in Whose
  BY DEF Named, Whose, TabInv, StoredTypeOK, SessionTypeOK
<1>5. /\ PageInv' /\ OfSession(calls') \subseteq OfSession(Rest(x))
      /\ token' \in Whose /\ user' \in Whose /\ ready' \in BOOLEAN
  <2>1. CASE MeArrives(x)
    <3>1. /\ Rerender(Rest(x), token', user', TRUE) /\ ready' = TRUE
          /\ token' \in Whose /\ user' \in Whose
      BY <1>1, <1>4, <2>1 DEF MeArrives
    <3> QED
      BY <1>1, <1>2, <1>3, <3>1, RerenderedPage DEF TabInv
  <2>2. CASE LoginArrives(x)
    <3>1. ready' \in BOOLEAN /\ token' \in Whose /\ user' \in Whose
      BY <1>1, <1>4, <2>2 DEF LoginArrives, TabInv, SessionTypeOK
    <3>2. CASE Navigate(Page("home", None), Rest(x), x.as, stored, x.as)
      <4>1. Page("home", None) \in PageSet /\ Page("home", None).of = None
        BY <1>4 DEF PageSet
      <4> QED
        BY <1>1, <1>2, <1>3, <1>4, <3>1, <3>2, <4>1, NavigatedPage
    <3>3. CASE calls' = Rest(x) /\ UNCHANGED <<page, screen>>
      <4>1. PageInv'
        BY <1>1, <1>2, <1>3, <3>3, KeptPage
      <4> QED
        BY <3>1, <3>3, <4>1
    <3> QED
      BY <2>2, <3>2, <3>3 DEF LoginArrives
  <2>3. CASE LogoutArrives(x)
    <3>1. /\ Rerender(Rest(x), None, None, ready) /\ ready' \in BOOLEAN
          /\ token' \in Whose /\ user' \in Whose
      BY <1>4, <2>3 DEF LogoutArrives, TabInv, SessionTypeOK
    <3> QED
      BY <1>1, <1>2, <1>3, <1>4, <3>1, RerenderedPage DEF TabInv
  <2> QED
    BY <2>1, <2>2, <2>3 DEF SessionArrives
<1>6. SessionInv'
  <2>1. \A y \in OfSession(calls') : y \in OfSession(calls) /\ y # x
    BY <1>5, <1>3 DEF OfSession, Rest
  <2>2. \A y \in OfSession(calls') : y.live
    BY <1>2, <2>1 DEF SessionInv
  <2>3. ASSUME ~overlap'
        PROVE  OfSession(calls') = {} /\ (ready' => user' = token')
    <3>1. x \in OfSession(calls) /\ ~overlap
      BY <1>2, <2>3 DEF OfSession
    <3>2. OfSession(calls') = {}
      BY <1>2, <2>1, <3>1 DEF SessionInv
    <3>3. ready' => user' = token'
      <4>1. CASE MeArrives(x)
        BY <1>2, <3>1, <4>1 DEF MeArrives, SessionInv
      <4>2. CASE LoginArrives(x)
        BY <1>2, <3>1, <4>2 DEF LoginArrives, SessionInv
      <4>3. CASE LogoutArrives(x)
        BY <4>3 DEF LogoutArrives
      <4> QED
        BY <4>1, <4>2, <4>3 DEF SessionArrives
    <3> QED
      BY <3>2, <3>3
  <2> QED
    BY <2>2, <2>3 DEF SessionInv, OfSession
<1> QED
  BY <1>2, <1>4, <1>5, <1>6
     DEF TabInv, ServerTypeOK, StoredTypeOK, SessionTypeOK, server

-----------------------------------------------------------------------------
(* The theorems *)

LEMMA TabInvInit == Init => TabInv
<1> SUFFICES ASSUME Init PROVE TabInv
  OBVIOUS
<1>1. ServerTypeOK /\ StoredTypeOK /\ SessionTypeOK
  BY DEF Init, ServerTypeOK, StoredTypeOK, SessionTypeOK, Named, Whose
<1>2. /\ page = Page("billing", None) /\ screen = Blank /\ calls = {} /\ ready = FALSE
  BY DEF Init
<1>3. PageInv
  BY <1>2, BlankIsTyped
     DEF PageInv, PageTypeOK, PageSet, Named, Offsite, RecoveryInv, AnalysisInv, ReportInv,
         ShownInv
<1>4. SessionInv
  BY <1>2 DEF SessionInv, OfSession
<1> QED
  BY <1>1, <1>3, <1>4 DEF TabInv

LEMMA TabInvStep == TabInv /\ [Next]_vars => TabInv'
<1> SUFFICES ASSUME TabInv, [Next]_vars PROVE TabInv'
  OBVIOUS
<1>1. CASE \E x \in calls : Settles(x)
  BY <1>1, AnswerStep, ArrivesStep, SessionArrivesStep DEF Settles
<1>2. CASE \E c \in Cases : Webhook(c)
  BY <1>2, WebhookStep
<1>3. CASE UNCHANGED vars
  BY <1>3
     DEF vars, server, browser, session, TabInv, ServerTypeOK, StoredTypeOK, SessionTypeOK,
         PageInv, PageTypeOK, RecoveryInv, AnalysisInv, ReportInv, ShownInv,
         SessionInv, OfSession
<1> QED
  BY <1>1, <1>2, <1>3, PersonStep, StripeStep, PollStep DEF Next

LEMMA TabInvHolds == Spec => []TabInv
BY TabInvInit, TabInvStep, PTL DEF Spec

\* For any accounts, cases and clicks: however late an answer comes, home
\* shows the case it last set out to show, and the report page a text of its
\* own case only (App.jsx:276, DescargoPage.jsx:105).  What the effect of home
\* does when it runs again under an analysis (App.jsx:331) is the exemption of
\* the property; AnalysisInv says what holds until then.
THEOREM ShownWasAsked == Spec => []ShowsWhatWasAskedLast
<1>1. TabInv => ShowsWhatWasAskedLast
  BY DEF TabInv, PageInv, RecoveryInv, ShownInv, ShowsWhatWasAskedLast, Recovering, Out
<1> QED
  BY <1>1, TabInvHolds, PTL

\* For any accounts: as long as no session call is sent while another is out,
\* the account greeted is the one of the token (AuthContext.jsx:26-33, 58-66).
THEOREM GreetsTheActing == Spec => []GreetedIsActing
<1>1. TabInv => GreetedIsActing
  BY DEF TabInv, SessionInv, GreetedIsActing
<1> QED
  BY <1>1, TabInvHolds, PTL

=============================================================================
