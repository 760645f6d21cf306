------------------------ MODULE TenantBillingProofs ------------------------
(***************************************************************************)
(* Theorems about TenantBilling, for any number of people, companies,      *)
(* requests, workers, subscriptions and changes:                           *)
(*   whoever holds a company's token, or acts in it in production,          *)
(*   registered it (AccessIsOwn);                                          *)
(*   what a company pays for belongs to the customer its portal opens, as  *)
(*   long as its checkouts do not overlap (PortalReachesSubscriptions);    *)
(*   a company with one subscription whose events were applied in order    *)
(*   ends with the tier Stripe has for it (SettledTierIsCurrent).          *)
(***************************************************************************)
EXTENDS TenantBilling, FiniteSetTheorems, TLAPS

Session == [tenant : Slugs, customer : Nat, price : Labels, meta : Labels]
Request == [pc : {"new", "hashing", "customer", "saving", "session", "done"}, who : People \cup {None}, slug : Slugs \cup {None},
            tenant : Row \cup {None}, customer : Nat, tier : Labels]

Working == {"customer", "saving", "session"}
Registered(s) == tenants[s] \in Row

TypeInv ==
    /\ tenants \in [Slugs -> Row \cup {None}]
    /\ tokens \subseteq Identity
    /\ req \in [Requests -> Request]
    /\ sessions \subseteq Session
    /\ customers \in Nat
    /\ \A id \in DOMAIN subs : id \in Subscriptions /\ subs[id] \in Sub
    /\ events \subseteq Event
    /\ work \in [Workers -> Event \cup {None}]
    /\ alone \subseteq Slugs

\* What Stripe and its events speak of: subscriptions there are, of companies
\* that registered.
EventInv ==
    /\ \A c \in sessions : Registered(c.tenant)
    /\ \A id \in DOMAIN subs : Registered(subs[id].tenant)
    /\ \A e \in events : e.id \in DOMAIN subs /\ Registered(e.sub.tenant)
    /\ \A w \in Workers : work[w] # None => Registered(work[w].sub.tenant)
                                            /\ work[w].id \in DOMAIN subs

\* A token, and in production a request with a context, are of the person of the
\* company.
AccessInv ==
    /\ \A t \in tokens : /\ Registered(t.tenant) /\ t.user = t.who
                         /\ tenants[t.tenant].user = t.who
    /\ \A r \in Requests :
          /\ req[r].pc \in {"new", "hashing"} => req[r].tenant = None
          /\ req[r].pc = "hashing" => req[r].who \in People /\ req[r].slug \in Slugs
          /\ req[r].pc \in Working => req[r].tenant # None
          /\ req[r].tenant # None => /\ req[r].slug \in Slugs /\ Registered(req[r].slug)
                                     /\ r \in Production => tenants[req[r].slug].user = req[r].who

-----------------------------------------------------------------------------
(***************************************************************************)
(* Rows: they are added, and keep their user.                              *)
(***************************************************************************)

RowsKept ==
    /\ tenants' \in [Slugs -> Row \cup {None}]
    /\ \A s \in Slugs : Registered(s) => Registered(s)' /\ tenants'[s].user = tenants[s].user

LEMMA SyncKeepsRow ==
    ASSUME NEW row \in Row, NEW id \in Subscriptions, NEW sub \in Sub
    PROVE  /\ syncStripeSubscription(row, id, sub) \in Row
           /\ syncStripeSubscription(row, id, sub).user = row.user
           /\ syncStripeSubscription(row, id, sub).customer = row.customer
<1>1. normalizeTierFromSubscription(sub) \in {"free", "pro", "enterprise"}
  BY DEF normalizeTierFromSubscription
<1>2. sub.status \in Labels
  BY DEF Sub
<1> QED
  BY <1>1, <1>2 DEF syncStripeSubscription, Row

LEMMA RegisterKeepsRows ==
    ASSUME TypeInv, AccessInv, NEW r \in Requests, RegisterCreate(r)
    PROVE  /\ RowsKept
           /\ req[r].who \in People /\ req[r].slug \in Slugs
           /\ \/ UNCHANGED <<tenants, tokens>>
              \/ /\ tenants'[req[r].slug] \in Row /\ tenants'[req[r].slug].user = req[r].who
                 /\ tenants[req[r].slug] = None /\ tenants'[req[r].slug].customer = 0
                 /\ \A s \in Slugs \ {req[r].slug} : tenants'[s] = tenants[s]
                 /\ tokens' \in {tokens, signAuthToken(req[r].who, req[r].who, req[r].slug)}
<1>1. req[r].who \in People /\ req[r].slug \in Slugs
  BY DEF AccessInv, RegisterCreate
<1> DEFINE new == [user |-> req[r].who, role |-> "admin", customer |-> 0,
                   sub |-> None, status |-> None, tier |-> "free"]
<1>2. new \in Row /\ new.user = req[r].who /\ new.customer = 0
  BY <1>1 DEF Row, Labels
<1>3. CASE UNCHANGED <<tenants, tokens>>
  BY <1>1, <1>3 DEF RowsKept, TypeInv, Registered
<1>4. CASE /\ tenants[req[r].slug] = None
           /\ tenants' = createTenantAndUserForRegister(req[r].who, req[r].slug)
           /\ tokens' \in {tokens, signAuthToken(req[r].who, req[r].who, req[r].slug)}
  <2>1. tenants' = [tenants EXCEPT ![req[r].slug] = new]
    BY <1>4 DEF createTenantAndUserForRegister
  <2> HIDE DEF new
  <2>2. tenants'[req[r].slug] = new /\ \A s \in Slugs \ {req[r].slug} : tenants'[s] = tenants[s]
    BY <1>1, <2>1 DEF TypeInv
  <2>3. ~Registered(req[r].slug)
    BY <1>4, BillingAssumption DEF Registered
  <2>4. tenants' \in [Slugs -> Row \cup {None}]
    BY <1>1, <1>2, <2>1 DEF TypeInv
  <2>5. \A s \in Slugs : Registered(s) => Registered(s)' /\ tenants'[s].user = tenants[s].user
    BY <2>2, <2>3 DEF Registered
  <2>6. tenants'[req[r].slug] \in Row /\ tenants'[req[r].slug].user = req[r].who
        /\ tenants'[req[r].slug].customer = 0
    BY <1>2, <2>2
  <2> QED
    BY <1>1, <1>4, <2>2, <2>4, <2>5, <2>6 DEF RowsKept
<1> QED
  BY <1>1, <1>3, <1>4 DEF RegisterCreate

LEMMA SaveKeepsRows ==
    ASSUME TypeInv, AccessInv, NEW r \in Requests, updateTenantStripeCustomerId(r)
    PROVE  /\ RowsKept /\ req[r].slug \in Slugs
           /\ \A s \in Slugs : Registered(s) =>
                 tenants'[s].customer = IF s = req[r].slug THEN req[r].customer ELSE tenants[s].customer
<1>1. req[r].slug \in Slugs /\ Registered(req[r].slug) /\ req[r].customer \in Nat
  BY DEF TypeInv, AccessInv, updateTenantStripeCustomerId, Working, Request
<1> DEFINE row == [tenants[req[r].slug] EXCEPT !.customer = req[r].customer]
<1>2. row \in Row /\ row.user = tenants[req[r].slug].user /\ row.customer = req[r].customer
  BY <1>1 DEF Registered, Row
<1>3. tenants' = [tenants EXCEPT ![req[r].slug] = row]
  BY DEF updateTenantStripeCustomerId
<1> HIDE DEF row
<1> QED
  BY <1>1, <1>2, <1>3 DEF RowsKept, TypeInv, Registered

LEMMA ApplyKeepsRows ==
    ASSUME TypeInv, EventInv, NEW w \in Workers, updateTenantSubscriptionState(w) \/ GiveBack(w)
    PROVE  /\ RowsKept
           /\ \A s \in Slugs : Registered(s) => tenants'[s].customer = tenants[s].customer
<1>1. work[w] \in Event /\ Registered(work[w].sub.tenant) /\ work[w].sub.tenant \in Slugs
      /\ work[w].id \in Subscriptions /\ work[w].sub \in Sub
  BY DEF TypeInv, EventInv, updateTenantSubscriptionState, GiveBack, Event, Sub
<1> DEFINE s0 == work[w].sub.tenant
           row == syncStripeSubscription(tenants[s0], work[w].id, work[w].sub)
<1>2. row \in Row /\ row.user = tenants[s0].user /\ row.customer = tenants[s0].customer
  BY <1>1, SyncKeepsRow DEF Registered
<1>3. tenants' = tenants \/ tenants' = [tenants EXCEPT ![s0] = row]
  BY DEF updateTenantSubscriptionState, GiveBack
<1> HIDE DEF row
<1> QED
  BY <1>1, <1>2, <1>3 DEF RowsKept, TypeInv, Registered

-----------------------------------------------------------------------------
(***************************************************************************)
(* Requests.                                                               *)
(***************************************************************************)

\* What a request may become: the others stay.
Becomes(r, new) == req' = [req EXCEPT ![r] = new]

\* A request as AccessInv has it.
Owned(r, new) ==
    /\ new \in Request
    /\ new.pc \in {"new", "hashing"} => new.tenant = None
    /\ new.pc = "hashing" => new.who \in People /\ new.slug \in Slugs
    /\ new.pc \in Working => new.tenant # None
    /\ new.tenant # None => /\ new.slug \in Slugs /\ Registered(new.slug)
                            /\ r \in Production => tenants[new.slug].user = new.who

\* What a step must show of the request and the tokens it makes.
LEMMA AccessStays ==
    ASSUME TypeInv, AccessInv, RowsKept,
           NEW r \in Requests, NEW new, Owned(r, new), Becomes(r, new),
           \A t \in tokens' : t \in tokens \/ /\ t \in Identity /\ t.user = t.who
                                               /\ tenants'[t.tenant] \in Row
                                               /\ tenants'[t.tenant].user = t.who
    PROVE  AccessInv' /\ req' \in [Requests -> Request] /\ tokens' \subseteq Identity
<1>1. \A x \in Requests : req'[x] = IF x = r THEN new ELSE req[x]
  BY DEF Becomes, TypeInv
<1>2. req' \in [Requests -> Request] /\ tokens' \subseteq Identity
  BY DEF Becomes, TypeInv, Owned
<1>3. \A t \in tokens' : /\ tenants'[t.tenant] \in Row /\ t.user = t.who
                         /\ tenants'[t.tenant].user = t.who
  BY DEF AccessInv, RowsKept, TypeInv, Identity, Registered
<1>4. ASSUME NEW x \in Requests
      PROVE  /\ req'[x].pc \in {"new", "hashing"} => req'[x].tenant = None
             /\ req'[x].pc = "hashing" => req'[x].who \in People /\ req'[x].slug \in Slugs
             /\ req'[x].pc \in Working => req'[x].tenant # None
             /\ req'[x].tenant # None => /\ req'[x].slug \in Slugs /\ tenants'[req'[x].slug] \in Row
                                         /\ x \in Production => tenants'[req'[x].slug].user = req'[x].who
  <2>1. CASE x = r
    BY <1>1, <2>1 DEF RowsKept, Registered, Owned
  <2>2. CASE x # r
    BY <1>1, <2>2 DEF RowsKept, AccessInv, Registered
  <2> QED
    BY <2>1, <2>2
<1> QED
  BY <1>2, <1>3, <1>4 DEF AccessInv, Registered

\* What Stripe has stays of registered companies.
LEMMA EventsStay ==
    ASSUME TypeInv, EventInv, RowsKept, UNCHANGED <<sessions, subs, events, work>>
    PROVE  EventInv'
<1>1. /\ \A c \in sessions : c.tenant \in Slugs
      /\ \A id \in DOMAIN subs : subs[id].tenant \in Slugs
      /\ \A e \in events : e.sub.tenant \in Slugs
      /\ \A w \in Workers : work[w] # None => work[w].sub.tenant \in Slugs
  BY DEF TypeInv, Session, Sub, Event
<1> QED
  BY <1>1 DEF EventInv, RowsKept

Inv == TypeInv /\ EventInv /\ AccessInv

\* A step that leaves the rows, and the calls of Stripe, alone.
LEMMA RowsStay == ASSUME TypeInv, UNCHANGED tenants PROVE RowsKept
BY DEF RowsKept, TypeInv, Registered

\* What is left to show of a step of requests.
LEMMA RequestKeeps ==
    ASSUME Inv, RowsKept, NEW r \in Requests, NEW new, Owned(r, new), Becomes(r, new),
           UNCHANGED <<tokens, subs, events, work>>,
           customers' \in Nat, alone' \subseteq alone,
           \A c \in sessions' : c \in sessions \/ (c \in Session /\ Registered(c.tenant))
    PROVE  Inv'
<1>1. AccessInv' /\ req' \in [Requests -> Request] /\ tokens' \subseteq Identity
  BY AccessStays DEF Inv
<1>2. \A c \in sessions' : tenants'[c.tenant] \in Row
  BY DEF Inv, TypeInv, EventInv, RowsKept, Session, Registered
<1>3. /\ \A id \in DOMAIN subs : tenants'[subs[id].tenant] \in Row
      /\ \A e \in events : e.id \in DOMAIN subs /\ tenants'[e.sub.tenant] \in Row
      /\ \A w \in Workers : work[w] # None => tenants'[work[w].sub.tenant] \in Row
                                              /\ work[w].id \in DOMAIN subs
  BY DEF Inv, TypeInv, EventInv, RowsKept, Sub, Event, Registered
<1>4. EventInv'
  BY <1>2, <1>3 DEF EventInv, Registered
<1>5. TypeInv'
  BY <1>1 DEF Inv, TypeInv, RowsKept
<1> QED
  BY <1>1, <1>4, <1>5 DEF Inv

-----------------------------------------------------------------------------
\* Registration, login and the steps of a checkout.
LEMMA RegisterKeeps ==
    ASSUME Inv, NEW r \in Requests, NEW who \in People, NEW s \in Slugs,
           Register(r, who, s)
    PROVE  Inv'
<1> DEFINE new == [req[r] EXCEPT !.pc = "hashing", !.who = who, !.slug = s]
<1>1. req[r] \in Request /\ req[r].tenant = None
  BY DEF Inv, TypeInv, AccessInv, Register
<1>2. new \in Request /\ new.pc = "hashing" /\ new.tenant = None /\ new.who = who /\ new.slug = s
  BY <1>1 DEF Request
<1>3. Becomes(r, new) /\ UNCHANGED <<tenants, tokens, alone>> /\ UNCHANGED billing
  BY DEF Register, Becomes
<1> HIDE DEF new
<1>4. RowsKept
  BY <1>3, RowsStay DEF Inv
<1>5. customers \in Nat
  BY DEF Inv, TypeInv
<1>6. Owned(r, new)
  BY <1>2 DEF Owned, Working
<1>7. /\ UNCHANGED <<tokens, subs, events, work>> /\ customers' \in Nat /\ alone' \subseteq alone
      /\ \A c \in sessions' : c \in sessions \/ (c \in Session /\ Registered(c.tenant))
  BY <1>3, <1>5 DEF billing
<1> QED
  BY <1>3, <1>4, <1>6, <1>7, RequestKeeps

LEMMA PortalKeeps ==
    ASSUME Inv, NEW r \in Requests, NEW t \in Identity, createPortalSession(r, t)
    PROVE  Inv'
<1> DEFINE new == [req[r] EXCEPT !.pc = "done", !.who = t.who, !.slug = t.tenant]
<1>1. req[r] \in Request /\ req[r].tenant = None /\ t \in Identity
  BY DEF Inv, TypeInv, AccessInv, createPortalSession
<1>2. new \in Request /\ new.pc = "done" /\ new.tenant = None
  BY <1>1 DEF Request, Identity
<1>3. Becomes(r, new)
      /\ UNCHANGED <<tenants, tokens, alone, subs, sessions, customers, events, work, inOrder>>
  BY DEF createPortalSession, Becomes
<1> HIDE DEF new
<1>4. RowsKept
  BY <1>3, RowsStay DEF Inv
<1>5. customers \in Nat
  BY DEF Inv, TypeInv
<1>6. Owned(r, new)
  BY <1>2 DEF Owned, Working
<1>7. /\ UNCHANGED <<tokens, subs, events, work>> /\ customers' \in Nat /\ alone' \subseteq alone
      /\ \A c \in sessions' : c \in sessions \/ (c \in Session /\ Registered(c.tenant))
  BY <1>3, <1>5
<1> QED
  BY <1>3, <1>4, <1>6, <1>7, RequestKeeps

LEMMA CheckoutKeeps ==
    ASSUME Inv, NEW r \in Requests, NEW t \in Identity, NEW tier \in {"pro", "enterprise"},
           createCheckoutSession(r, t, tier)
    PROVE  Inv'
<1> DEFINE new == [pc |-> ensureStripeCustomerForTenant(tenants[t.tenant]), who |-> t.who,
                   slug |-> t.tenant, tenant |-> tenants[t.tenant],
                   customer |-> tenants[t.tenant].customer, tier |-> tier]
<1>1. t \in Identity /\ Registered(t.tenant) /\ (r \in Production => tenants[t.tenant].user = t.who)
  <2>1. Registered(t.tenant)
    BY DEF Inv, TypeInv, Identity, Registered, createCheckoutSession, Protected,
           attachTenantContext
  <2>2. r \in Production => t \in tokens
    BY DEF createCheckoutSession, Protected, authenticateJWT
  <2> QED
    BY <2>1, <2>2 DEF Inv, AccessInv
<1>2. tenants[t.tenant].customer \in Nat /\ tenants[t.tenant] # None
  BY <1>1, BillingAssumption DEF Registered, Row
<1>3. new \in Request /\ new.pc \in {"customer", "session"} /\ new.who = t.who
      /\ new.slug = t.tenant /\ new.tenant = tenants[t.tenant]
  BY <1>1, <1>2 DEF Request, Identity, Registered, ensureStripeCustomerForTenant, Labels
<1>4. Becomes(r, new) /\ alone' \subseteq alone
      /\ UNCHANGED <<tenants, tokens>> /\ UNCHANGED billing
  BY DEF createCheckoutSession, Becomes
<1> HIDE DEF new
<1>5. RowsKept
  BY <1>4, RowsStay DEF Inv
<1>6. customers \in Nat /\ t.tenant \in Slugs
  BY <1>1 DEF Inv, TypeInv, Identity
<1>7. Owned(r, new)
  BY <1>1, <1>2, <1>3, <1>6 DEF Owned, Working
<1>8. /\ UNCHANGED <<tokens, subs, events, work>> /\ customers' \in Nat /\ alone' \subseteq alone
      /\ \A c \in sessions' : c \in sessions \/ (c \in Session /\ Registered(c.tenant))
  BY <1>4, <1>6 DEF billing
<1> QED
  BY <1>4, <1>5, <1>7, <1>8, RequestKeeps

\* The later steps of a checkout keep whose it is.
LEMMA LaterKeeps ==
    ASSUME Inv, NEW r \in Requests,
           CreateCustomer(r) \/ updateTenantStripeCustomerId(r) \/ CreateSession(r) \/ CheckoutFails(r)
    PROVE  Inv'
<1>1. /\ req[r] \in Request /\ req[r].pc \in Working /\ req[r].tenant # None
      /\ req[r].slug \in Slugs /\ Registered(req[r].slug)
      /\ r \in Production => tenants[req[r].slug].user = req[r].who
      /\ customers \in Nat /\ customers + 1 \in Nat
  BY DEF Inv, TypeInv, AccessInv, Working, CreateCustomer, updateTenantStripeCustomerId,
         CreateSession, CheckoutFails
<1>2. CASE CreateCustomer(r)
  <2> DEFINE new == [req[r] EXCEPT !.pc = "saving", !.customer = customers + 1]
  <2>1. new \in Request /\ new.pc = "saving" /\ new.who = req[r].who
        /\ new.slug = req[r].slug /\ new.tenant = req[r].tenant
    BY <1>1 DEF Request
  <2>2. req' = [req EXCEPT ![r].pc = "saving", ![r].customer = customers + 1]
    BY <1>2 DEF CreateCustomer
  <2>3. Becomes(r, new)
    BY <2>2 DEF Becomes, Inv, TypeInv
  <2>4. customers' = customers + 1
        /\ UNCHANGED <<tenants, tokens, alone, subs, sessions, portals, events, work, inOrder>>
    BY <1>2 DEF CreateCustomer
  <2> HIDE DEF new
  <2>5. RowsKept
    BY <2>4, RowsStay DEF Inv
  <2>6. Owned(r, new)
    BY <1>1, <2>1 DEF Owned, Working
  <2>7. /\ UNCHANGED <<tokens, subs, events, work>> /\ customers' \in Nat /\ alone' \subseteq alone
        /\ \A c \in sessions' : c \in sessions \/ (c \in Session /\ Registered(c.tenant))
    BY <1>1, <2>4
  <2> QED
    BY <2>3, <2>5, <2>6, <2>7, RequestKeeps
<1>3. CASE updateTenantStripeCustomerId(r)
  <2> DEFINE new == [req[r] EXCEPT !.pc = "session"]
  <2>1. new \in Request /\ new.pc = "session" /\ new.who = req[r].who
        /\ new.slug = req[r].slug /\ new.tenant = req[r].tenant
    BY <1>1 DEF Request
  <2>2. Becomes(r, new)
    BY <1>3 DEF Becomes, Inv, TypeInv, updateTenantStripeCustomerId
  <2>3. UNCHANGED <<tokens, alone>> /\ UNCHANGED billing
    BY <1>3 DEF updateTenantStripeCustomerId
  <2> HIDE DEF new
  <2>4. RowsKept
    BY <1>3, SaveKeepsRows DEF Inv
  <2>5. Owned(r, new)
    BY <1>1, <2>1 DEF Owned, Working
  <2>6. /\ UNCHANGED <<tokens, subs, events, work>> /\ customers' \in Nat /\ alone' \subseteq alone
        /\ \A c \in sessions' : c \in sessions \/ (c \in Session /\ Registered(c.tenant))
    BY <1>1, <2>3 DEF billing
  <2> QED
    BY <2>2, <2>4, <2>5, <2>6, RequestKeeps
<1>4. CASE CreateSession(r) \/ CheckoutFails(r)
  <2> DEFINE new == [req[r] EXCEPT !.pc = "done"]
  <2>1. new \in Request /\ new.pc = "done" /\ new.who = req[r].who
        /\ new.slug = req[r].slug /\ new.tenant = req[r].tenant
    BY <1>1 DEF Request
  <2>2. Becomes(r, new)
    BY <1>4 DEF Becomes, Inv, TypeInv, CreateSession, CheckoutFails
  <2>3. UNCHANGED <<tenants, tokens, alone, subs, customers, events, work>>
    BY <1>4 DEF CreateSession, CheckoutFails, billing
  <2>4. \A c \in sessions' : c \in sessions \/ (c \in Session /\ Registered(c.tenant))
    BY <1>1, <1>4 DEF CreateSession, CheckoutFails, billing, Session, Request
  <2> HIDE DEF new
  <2>5. RowsKept
    BY <2>3, RowsStay DEF Inv
  <2>6. Owned(r, new)
    BY <1>1, <2>1 DEF Owned, Working
  <2>7. UNCHANGED <<tokens, subs, events, work>> /\ customers' \in Nat /\ alone' \subseteq alone
    BY <1>1, <2>3
  <2> QED
    BY <2>2, <2>4, <2>5, <2>6, <2>7, RequestKeeps
<1> QED
  BY <1>2, <1>3, <1>4

\* Registration and login give tokens, and touch nothing of Stripe.
LEMMA TokensKeep ==
    ASSUME Inv, RowsKept, NEW r \in Requests, NEW new, Owned(r, new), Becomes(r, new),
           UNCHANGED alone, UNCHANGED billing,
           NEW who \in People, NEW s \in Slugs,
           \/ tokens' = tokens
           \/ /\ tokens' = signAuthToken(who, who, s)
              /\ tenants'[s] \in Row /\ tenants'[s].user = who
    PROVE  Inv'
<1>1. \A t \in tokens' : t \in tokens \/ /\ t \in Identity /\ t.user = t.who
                                         /\ tenants'[t.tenant] \in Row
                                         /\ tenants'[t.tenant].user = t.who
  BY DEF signAuthToken, Identity
<1>2. AccessInv' /\ req' \in [Requests -> Request] /\ tokens' \subseteq Identity
  BY <1>1, AccessStays DEF Inv
<1>3. EventInv'
  BY EventsStay DEF Inv, billing
<1>4. TypeInv'
  BY <1>2 DEF Inv, TypeInv, RowsKept, billing
<1> QED
  BY <1>2, <1>3, <1>4 DEF Inv

LEMMA RegisterCreateKeeps ==
    ASSUME Inv, NEW r \in Requests, RegisterCreate(r)
    PROVE  Inv'
<1> DEFINE new == [req[r] EXCEPT !.pc = "done"]
<1>1. req[r] \in Request /\ req[r].tenant = None
  BY DEF Inv, TypeInv, AccessInv, RegisterCreate
<1>2. new \in Request /\ new.pc = "done" /\ new.tenant = None
  BY <1>1 DEF Request
<1>3. Becomes(r, new) /\ UNCHANGED alone /\ UNCHANGED billing
  BY DEF RegisterCreate, Becomes, Inv, TypeInv
<1> HIDE DEF new
<1>4. Owned(r, new)
  BY <1>2 DEF Owned, Working
<1>5. /\ RowsKept /\ req[r].who \in People /\ req[r].slug \in Slugs
      /\ \/ tokens' = tokens
         \/ /\ tokens' = signAuthToken(req[r].who, req[r].who, req[r].slug)
            /\ tenants'[req[r].slug] \in Row /\ tenants'[req[r].slug].user = req[r].who
  BY RegisterKeepsRows DEF Inv
<1> QED
  BY <1>3, <1>4, <1>5, TokensKeep

LEMMA LoginKeeps ==
    ASSUME Inv, NEW r \in Requests, NEW who \in People, NEW s \in Slugs, Login(r, who, s)
    PROVE  Inv'
<1> DEFINE new == [req[r] EXCEPT !.pc = "done", !.who = who, !.slug = s]
<1>1. req[r] \in Request /\ req[r].tenant = None
  BY DEF Inv, TypeInv, AccessInv, Login
<1>2. new \in Request /\ new.pc = "done" /\ new.tenant = None
  BY <1>1 DEF Request
<1>3. Becomes(r, new) /\ UNCHANGED <<tenants, alone>> /\ UNCHANGED billing
  BY DEF Login, Becomes
<1> HIDE DEF new
<1>4. Owned(r, new)
  BY <1>2 DEF Owned, Working
<1>5. RowsKept
  BY <1>3, RowsStay DEF Inv
<1>6. tenants[s] # None => tenants[s] \in Row
  BY DEF Inv, TypeInv
<1>7. \/ tokens' = tokens
      \/ /\ tokens' = signAuthToken(who, who, s)
         /\ tenants'[s] \in Row /\ tenants'[s].user = who
  BY <1>3, <1>6 DEF Login, Holds
<1> QED
  BY <1>3, <1>4, <1>5, <1>7, TokensKeep

-----------------------------------------------------------------------------
(***************************************************************************)
(* Stripe and the workers.                                                 *)
(***************************************************************************)

LEMMA AccessUntouched ==
    ASSUME TypeInv, AccessInv, RowsKept, UNCHANGED <<req, tokens>>
    PROVE  AccessInv'
<1>1. \A t \in tokens : /\ tenants'[t.tenant] \in Row /\ t.user = t.who
                        /\ tenants'[t.tenant].user = t.who
  BY DEF AccessInv, RowsKept, TypeInv, Identity, Registered
<1>2. \A r \in Requests : req[r].tenant # None =>
         /\ req[r].slug \in Slugs /\ tenants'[req[r].slug] \in Row
         /\ r \in Production => tenants'[req[r].slug].user = req[r].who
  BY DEF AccessInv, RowsKept, Registered
<1> QED
  BY <1>1, <1>2 DEF AccessInv, Registered

LEMMA PayKeeps ==
    ASSUME Inv, NEW id \in Subscriptions, NEW c \in sessions, Pay(id, c)
    PROVE  Inv'
<1> DEFINE sub == [tenant |-> c.tenant, customer |-> c.customer, price |-> c.price,
                   meta |-> c.meta, status |-> "active", version |-> 1]
           made == {[kind |-> "snapshot", id |-> id, sub |-> sub],
                    [kind |-> "completed", id |-> id, sub |-> sub]}
<1>1. c \in Session /\ Registered(c.tenant)
  BY DEF Inv, TypeInv, EventInv
<1>2. sub \in Sub /\ sub.tenant = c.tenant
  BY <1>1 DEF Sub, Session, Labels
<1>3. made \subseteq Event /\ \A e \in made : e.id = id /\ e.sub = sub
  BY <1>2 DEF Event
<1>4. /\ subs' = [x \in {id} \cup DOMAIN subs |-> IF x = id THEN sub ELSE subs[x]]
      /\ events' = events \cup made
      /\ sessions' \subseteq sessions
      /\ UNCHANGED <<tenants, tokens, req, customers, portals, work, inOrder, alone>>
  BY DEF Pay
<1> HIDE DEF sub, made
<1>5. /\ DOMAIN subs' = DOMAIN subs \cup {id}
      /\ \A x \in DOMAIN subs' : subs'[x] = IF x = id THEN sub ELSE subs[x]
  BY <1>4 DEF Pay
<1>6. AccessInv'
  BY <1>4, AccessUntouched, RowsStay DEF Inv
<1>7. EventInv'
  <2>1. \A x \in sessions' : Registered(x.tenant)
    BY <1>4 DEF Inv, EventInv
  <2>2. \A x \in DOMAIN subs' : Registered(subs'[x].tenant)
    BY <1>1, <1>2, <1>5 DEF Inv, EventInv
  <2>3. \A e \in events' : e.id \in DOMAIN subs' /\ Registered(e.sub.tenant)
    BY <1>1, <1>2, <1>3, <1>4, <1>5 DEF Inv, EventInv
  <2>4. \A w \in Workers : work[w] # None => Registered(work[w].sub.tenant)
                                             /\ work[w].id \in DOMAIN subs'
    BY <1>5 DEF Inv, EventInv
  <2> QED
    BY <1>4, <2>1, <2>2, <2>3, <2>4 DEF EventInv, Registered
<1>8. TypeInv'
  BY <1>2, <1>3, <1>4, <1>5 DEF Inv, TypeInv
<1> QED
  BY <1>6, <1>7, <1>8 DEF Inv

NextVersion(sub, price, status, version) ==
    [sub EXCEPT !.price = price, !.status = status, !.version = version]

LEMMA NextVersionIsSub ==
    \A sub \in Sub, price, status \in Labels, version \in Nat :
        LET new == NextVersion(sub, price, status, version)
        IN  new \in Sub /\ new.tenant = sub.tenant /\ new.customer = sub.customer
BY DEF NextVersion, Sub

LEMMA ChangeKeeps ==
    ASSUME Inv, NEW id \in DOMAIN subs, NEW c \in Changes, Change(id, c)
    PROVE  Inv'
<1> DEFINE old == subs[id]
           sub == [old EXCEPT !.price = c.price, !.status = c.status, !.version = @ + 1]
           made == [kind |-> "snapshot", id |-> id, sub |-> sub]
<1>1. old \in Sub /\ Registered(old.tenant) /\ id \in Subscriptions
  BY DEF Inv, TypeInv, EventInv
<1>2. c.price \in Labels /\ c.status \in Labels
  BY DEF Labels
<1>3. sub \in Sub /\ sub.tenant = old.tenant /\ sub.customer = old.customer
  <2>1. old.version \in Nat /\ old.version + 1 \in Nat
    BY <1>1 DEF Sub
  <2>2. sub = NextVersion(old, c.price, c.status, old.version + 1)
    BY DEF NextVersion
  <2> HIDE DEF old, sub
  <2> QED
    BY <1>1, <1>2, <2>1, <2>2, NextVersionIsSub
<1>4. made \in Event /\ made.id = id /\ made.sub = sub
  BY <1>1, <1>3 DEF Event
<1>5. /\ subs' = [subs EXCEPT ![id] = sub] /\ events' = events \cup {made}
      /\ UNCHANGED <<tenants, tokens, req, sessions, customers, portals, work, inOrder, alone>>
  BY DEF Change
<1> HIDE DEF old, sub, made
<1>6. /\ DOMAIN subs' = DOMAIN subs
      /\ \A x \in DOMAIN subs' : subs'[x] = IF x = id THEN sub ELSE subs[x]
  BY <1>5
<1>7. AccessInv'
  BY <1>5, AccessUntouched, RowsStay DEF Inv
<1>8. EventInv'
  <2>1. \A x \in DOMAIN subs' : Registered(subs'[x].tenant)
    BY <1>1, <1>3, <1>6 DEF Inv, EventInv
  <2>2. \A e \in events' : e.id \in DOMAIN subs' /\ Registered(e.sub.tenant)
    BY <1>1, <1>3, <1>4, <1>5, <1>6 DEF Inv, EventInv
  <2> QED
    BY <1>5, <1>6, <2>1, <2>2 DEF Inv, EventInv, Registered
<1>9. TypeInv'
  <2>1. \A x \in DOMAIN subs' : x \in Subscriptions /\ subs'[x] \in Sub
    BY <1>3, <1>6 DEF Inv, TypeInv
  <2>2. events' \subseteq Event
    BY <1>4, <1>5 DEF Inv, TypeInv
  <2> QED
    BY <1>5, <2>1, <2>2 DEF Inv, TypeInv
<1> QED
  BY <1>7, <1>8, <1>9 DEF Inv

LEMMA TakeKeeps ==
    ASSUME Inv, NEW w \in Workers, NEW e \in events, Take(w, e)
    PROVE  Inv'
<1> DEFINE job == IF e.kind = "completed" THEN [e EXCEPT !.sub = subs[e.id]] ELSE e
<1>1. e \in Event /\ e.id \in DOMAIN subs /\ Registered(e.sub.tenant)
      /\ subs[e.id] \in Sub /\ Registered(subs[e.id].tenant)
  BY DEF Inv, TypeInv, EventInv
<1>2. job \in Event /\ job.id = e.id /\ Registered(job.sub.tenant)
  BY <1>1 DEF Event
<1>3. /\ work' = [work EXCEPT ![w] = job] /\ events' \subseteq events
      /\ UNCHANGED <<tenants, tokens, req, subs, sessions, customers, portals, alone>>
  BY DEF Take
<1> HIDE DEF job
<1>4. /\ work' \in [Workers -> Event \cup {None}]
      /\ \A x \in Workers : work'[x] = IF x = w THEN job ELSE work[x]
  BY <1>2, <1>3 DEF Inv, TypeInv
<1>5. AccessInv'
  BY <1>3, AccessUntouched, RowsStay DEF Inv
<1>6. \A x \in Workers : work'[x] # None => Registered(work'[x].sub.tenant)
                                            /\ work'[x].id \in DOMAIN subs
  BY <1>1, <1>2, <1>4 DEF Inv, EventInv
<1>7. EventInv'
  <2>1. \A x \in events' : x.id \in DOMAIN subs /\ Registered(x.sub.tenant)
    BY <1>3 DEF Inv, EventInv
  <2> QED
    BY <1>3, <1>6, <2>1 DEF Inv, EventInv, Registered
<1>8. TypeInv'
  BY <1>3, <1>4 DEF Inv, TypeInv
<1> QED
  BY <1>5, <1>7, <1>8 DEF Inv

LEMMA ApplyKeeps ==
    ASSUME Inv, NEW w \in Workers, updateTenantSubscriptionState(w) \/ GiveBack(w)
    PROVE  Inv'
<1>1. work[w] \in Event /\ work[w].id \in DOMAIN subs /\ Registered(work[w].sub.tenant)
      /\ work[w].sub.tenant \in Slugs
  BY DEF Inv, TypeInv, EventInv, updateTenantSubscriptionState, GiveBack, Event, Sub
<1>2. RowsKept
  BY ApplyKeepsRows DEF Inv
<1>3. /\ work' = [work EXCEPT ![w] = None]
      /\ events' \subseteq events \cup {work[w]}
      /\ UNCHANGED <<tokens, req, subs, sessions, customers, portals, alone>>
  BY DEF updateTenantSubscriptionState, GiveBack
<1>4. AccessInv'
  BY <1>2, <1>3, AccessUntouched DEF Inv
<1>5. /\ work' \in [Workers -> Event \cup {None}]
      /\ \A x \in Workers : work'[x] = IF x = w THEN None ELSE work[x]
  BY <1>3 DEF Inv, TypeInv
<1>6. EventInv'
  <2>1. \A x \in sessions : tenants'[x.tenant] \in Row
    BY <1>2 DEF Inv, TypeInv, EventInv, RowsKept, Session, Registered
  <2>2. \A id \in DOMAIN subs : tenants'[subs[id].tenant] \in Row
    BY <1>2 DEF Inv, TypeInv, EventInv, RowsKept, Sub, Registered
  <2>3. \A e \in events' : e.id \in DOMAIN subs /\ tenants'[e.sub.tenant] \in Row
    BY <1>1, <1>2, <1>3 DEF Inv, TypeInv, EventInv, RowsKept, Event, Sub, Registered
  <2>4. \A x \in Workers : work'[x] # None => tenants'[work'[x].sub.tenant] \in Row
                                             /\ work'[x].id \in DOMAIN subs
    BY <1>2, <1>5 DEF Inv, TypeInv, EventInv, RowsKept, Event, Sub, Registered
  <2> QED
    BY <1>3, <2>1, <2>2, <2>3, <2>4 DEF EventInv, Registered
<1>7. TypeInv'
  BY <1>1, <1>2, <1>3, <1>5 DEF Inv, TypeInv, RowsKept
<1> QED
  BY <1>4, <1>6, <1>7 DEF Inv

-----------------------------------------------------------------------------
LEMMA InvInit == Init => Inv
<1> SUFFICES ASSUME Init PROVE Inv
  OBVIOUS
<1>1. NewRequest \in Request /\ NewRequest.pc = "new" /\ NewRequest.tenant = None
  BY DEF NewRequest, Request, Labels
<1>2. DOMAIN subs = {}
  BY DEF Init
<1>3. TypeInv
  BY <1>1, <1>2 DEF Init, TypeInv
<1>4. EventInv
  BY <1>2 DEF Init, EventInv
<1>5. AccessInv
  BY <1>1 DEF Init, AccessInv, Working
<1> QED
  BY <1>3, <1>4, <1>5 DEF Inv

LEMMA InvNext == Inv /\ [Next]_vars => Inv'
<1> SUFFICES ASSUME Inv, [Next]_vars PROVE Inv'
  OBVIOUS
<1>1. CASE UNCHANGED vars
  BY <1>1 DEF vars, Inv, TypeInv, EventInv, AccessInv, Registered
<1>2. CASE \E r \in Requests, who \in People, s \in Slugs : Register(r, who, s) \/ Login(r, who, s)
  BY <1>2, RegisterKeeps, LoginKeeps
<1>3. CASE \E r \in Requests : RegisterCreate(r)
  BY <1>3, RegisterCreateKeeps
<1>4. CASE \E r \in Requests, t \in Identity :
              \/ createPortalSession(r, t)
              \/ \E tier \in {"pro", "enterprise"} : createCheckoutSession(r, t, tier)
  BY <1>4, PortalKeeps, CheckoutKeeps
<1>5. CASE \E r \in Requests : \/ CreateCustomer(r) \/ updateTenantStripeCustomerId(r)
                               \/ CreateSession(r) \/ CheckoutFails(r)
  BY <1>5, LaterKeeps
<1>6. CASE \E id \in Subscriptions, c \in sessions : Pay(id, c)
  BY <1>6, PayKeeps
<1>7. CASE \E id \in DOMAIN subs, c \in Changes : Change(id, c)
  BY <1>7, ChangeKeeps
<1>8. CASE \E w \in Workers : \/ \E e \in events : Take(w, e)
                              \/ updateTenantSubscriptionState(w) \/ GiveBack(w)
  BY <1>8, TakeKeeps, ApplyKeeps
<1> QED
  BY <1>1, <1>2, <1>3, <1>4, <1>5, <1>6, <1>7, <1>8 DEF Next

\* In every run, whoever holds a token of a company is the person who registered
\* it, and in production so is whoever has a request at work in it: however registrations of one slug
\* race, and whatever the events of its subscription write to the row
\* (auth.service.js:51-118, jwt.middleware.js).
THEOREM AccessStaysOwn == Spec => []AccessIsOwn
<1>1. Inv => AccessIsOwn
  BY BillingAssumption DEF Inv, AccessInv, AccessIsOwn, Registered
<1> QED
  BY <1>1, InvInit, InvNext, PTL DEF Spec

-----------------------------------------------------------------------------
(***************************************************************************)
(* The customer of a company whose checkouts do not overlap.               *)
(***************************************************************************)

Open(r, s) == req[r].slug = s /\ req[r].pc \in Working

\* At most one checkout is between the row it read and its session.  While it
\* makes the customer the row has none, so nothing was paid yet; afterwards all
\* there is has the customer of the row.
PortalInv ==
    /\ \A s \in alone : \A r, q \in Requests : Open(r, s) /\ Open(q, s) => r = q
    /\ \A s \in alone : \A r \in Requests : Open(r, s) =>
          /\ req[r].pc \in {"customer", "saving"} => tenants[s].customer = 0
          /\ req[r].pc = "saving" => req[r].customer # 0
          /\ req[r].pc = "session" => req[r].customer # 0 /\ req[r].customer = tenants[s].customer
    /\ \A c \in sessions : c.tenant \in alone =>
          c.customer # 0 /\ c.customer = tenants[c.tenant].customer
    /\ \A id \in DOMAIN subs : subs[id].tenant \in alone =>
          subs[id].customer # 0 /\ subs[id].customer = tenants[subs[id].tenant].customer

\* Rows keep their customer.
CustomersKept == \A s \in Slugs : Registered(s) => tenants'[s].customer = tenants[s].customer

\* What is paid at Stripe was a subscription, or a session.
SubsKept ==
    \A id \in DOMAIN subs' :
        \/ id \in DOMAIN subs /\ subs'[id].tenant = subs[id].tenant
                              /\ subs'[id].customer = subs[id].customer
        \/ \E c \in sessions : subs'[id].tenant = c.tenant /\ subs'[id].customer = c.customer

LEMMA SubsStay ==
    ASSUME Inv, PortalInv, CustomersKept, SubsKept, alone' \subseteq alone,
           NEW id \in DOMAIN subs', subs'[id].tenant \in alone'
    PROVE  subs'[id].customer # 0 /\ subs'[id].customer = tenants'[subs'[id].tenant].customer
<1>1. CASE id \in DOMAIN subs /\ subs'[id].tenant = subs[id].tenant
                              /\ subs'[id].customer = subs[id].customer
  BY <1>1 DEF Inv, TypeInv, EventInv, PortalInv, CustomersKept, Sub
<1>2. CASE \E c \in sessions : subs'[id].tenant = c.tenant /\ subs'[id].customer = c.customer
  BY <1>2 DEF Inv, TypeInv, EventInv, PortalInv, CustomersKept, Session
<1> QED
  BY <1>1, <1>2 DEF SubsKept

LEMMA SessionsStay ==
    ASSUME Inv, PortalInv, CustomersKept, alone' \subseteq alone,
           NEW c \in sessions, c.tenant \in alone'
    PROVE  c.customer # 0 /\ c.customer = tenants'[c.tenant].customer
BY DEF Inv, TypeInv, EventInv, PortalInv, CustomersKept, Session

\* A request that is not at work, or stays as it is.
LEMMA PortalQuiet ==
    ASSUME Inv, PortalInv, CustomersKept, SubsKept, alone' \subseteq alone,
           sessions' \subseteq sessions,
           \A x \in Requests : req'[x] = req[x] \/ req'[x].pc \notin Working
    PROVE  PortalInv'
<1>1. ASSUME NEW s \in alone', NEW r \in Requests, Open(r, s)'
      PROVE  req'[r] = req[r] /\ Open(r, s) /\ s \in Slugs /\ tenants'[s].customer = tenants[s].customer
  BY <1>1 DEF Open, Inv, TypeInv, AccessInv, CustomersKept
<1>2. \A s \in alone' : \A r, q \in Requests : Open(r, s)' /\ Open(q, s)' => r = q
  BY <1>1 DEF PortalInv
<1>3. ASSUME NEW s \in alone', NEW r \in Requests, Open(r, s)'
      PROVE  /\ req'[r].pc \in {"customer", "saving"} => tenants'[s].customer = 0
             /\ req'[r].pc = "saving" => req'[r].customer # 0
             /\ req'[r].pc = "session" => req'[r].customer # 0
                                           /\ req'[r].customer = tenants'[s].customer
  BY <1>1, <1>3 DEF PortalInv
<1> QED
  BY <1>2, <1>3, SubsStay, SessionsStay DEF PortalInv

\* The steps of one request that is at work afterwards.
LEMMA PortalOfOne ==
    ASSUME Inv, PortalInv, CustomersKept, SubsKept, alone' \subseteq alone,
           sessions' \subseteq sessions,
           NEW r \in Requests, NEW s0 \in Slugs,
           \A x \in Requests \ {r} : req'[x] = req[x],
           Open(r, s0)',
           s0 \in alone' =>
              /\ \A x \in Requests \ {r} : ~Open(x, s0)
              /\ req'[r].pc \in {"customer", "saving"} => tenants'[s0].customer = 0
              /\ req'[r].pc = "saving" => req'[r].customer # 0
              /\ req'[r].pc = "session" => req'[r].customer # 0
                                           /\ req'[r].customer = tenants'[s0].customer
    PROVE  PortalInv'
<1>1. ASSUME NEW s \in alone', NEW x \in Requests \ {r}, Open(x, s)'
      PROVE  req'[x] = req[x] /\ Open(x, s) /\ s \in Slugs /\ s # s0
             /\ tenants'[s].customer = tenants[s].customer
  BY <1>1 DEF Open, Inv, TypeInv, AccessInv, CustomersKept
<1>2. \A s \in alone' : Open(r, s)' => s = s0
  BY DEF Open
<1>3. \A s \in alone' : \A x, q \in Requests : Open(x, s)' /\ Open(q, s)' => x = q
  BY <1>1, <1>2 DEF PortalInv
<1>4. ASSUME NEW s \in alone', NEW x \in Requests, Open(x, s)'
      PROVE  /\ req'[x].pc \in {"customer", "saving"} => tenants'[s].customer = 0
             /\ req'[x].pc = "saving" => req'[x].customer # 0
             /\ req'[x].pc = "session" => req'[x].customer # 0
                                           /\ req'[x].customer = tenants'[s].customer
  <2>1. CASE x = r
    BY <1>2, <1>4, <2>1
  <2>2. CASE x # r
    BY <1>1, <1>4, <2>2 DEF PortalInv
  <2> QED
    BY <2>1, <2>2
<1> QED
  BY <1>3, <1>4, SubsStay, SessionsStay DEF PortalInv

LEMMA CustomersStay ==
    ASSUME UNCHANGED tenants
    PROVE  CustomersKept
BY DEF CustomersKept

LEMMA SubsUntouched ==
    ASSUME UNCHANGED subs
    PROVE  SubsKept
BY DEF SubsKept

LEMMA PortalCheckout ==
    ASSUME Inv, PortalInv, NEW r \in Requests, NEW t \in Identity,
           NEW tier \in {"pro", "enterprise"}, createCheckoutSession(r, t, tier)
    PROVE  PortalInv'
<1> DEFINE s0 == t.tenant
           row == tenants[s0]
<1>1. s0 \in Slugs /\ row \in Row
  BY DEF Inv, TypeInv, Identity, createCheckoutSession, Protected, attachTenantContext
<1>2. req' = [req EXCEPT ![r] =
          [pc |-> ensureStripeCustomerForTenant(row), who |-> t.who, slug |-> s0,
           tenant |-> row, customer |-> row.customer, tier |-> tier]]
      /\ alone' = (IF Checking(s0) = {} THEN alone ELSE alone \ {s0})
      /\ UNCHANGED <<tenants, tokens>> /\ UNCHANGED billing
  BY DEF createCheckoutSession
<1>3. /\ req'[r].slug = s0 /\ req'[r].customer = row.customer
      /\ req'[r].pc = IF row.customer = 0 THEN "customer" ELSE "session"
      /\ \A x \in Requests \ {r} : req'[x] = req[x]
  BY <1>2 DEF Inv, TypeInv, ensureStripeCustomerForTenant
<1>4. s0 \in alone' => \A x \in Requests : ~Open(x, s0)
  BY <1>2 DEF Checking, Open, Working
<1>5. CustomersKept /\ SubsKept /\ alone' \subseteq alone /\ sessions' \subseteq sessions
  BY <1>2, CustomersStay, SubsUntouched DEF billing
<1>6. Open(r, s0)'
  BY <1>3 DEF Open, Working
<1>7. tenants'[s0].customer = row.customer
  BY <1>2
<1> HIDE DEF s0, row
<1> QED
  BY <1>1, <1>3, <1>4, <1>5, <1>6, <1>7, PortalOfOne

LEMMA PortalCreateCustomer ==
    ASSUME Inv, PortalInv, NEW r \in Requests, CreateCustomer(r)
    PROVE  PortalInv'
<1>0. PICK s0 \in Slugs : s0 = req[r].slug
  BY DEF Inv, AccessInv, CreateCustomer, Working
<1>1. Open(r, s0) /\ customers \in Nat
  BY <1>0 DEF Inv, TypeInv, CreateCustomer, Open, Working
<1>2. req' = [req EXCEPT ![r].pc = "saving", ![r].customer = customers + 1]
      /\ UNCHANGED <<tenants, tokens, alone, subs, sessions>>
  BY DEF CreateCustomer
<1>3. /\ req'[r].slug = s0 /\ req'[r].customer = customers + 1 /\ req'[r].pc = "saving"
      /\ \A x \in Requests \ {r} : req'[x] = req[x]
  BY <1>0, <1>2 DEF Inv, TypeInv, Request
<1>4. s0 \in alone => /\ \A x \in Requests \ {r} : ~Open(x, s0)
                      /\ tenants[s0].customer = 0
  BY <1>1 DEF PortalInv, CreateCustomer
<1>5. CustomersKept /\ SubsKept /\ alone' \subseteq alone /\ sessions' \subseteq sessions
  BY <1>2, CustomersStay, SubsUntouched
<1>6. Open(r, s0)' /\ req'[r].customer # 0
  BY <1>1, <1>3 DEF Open, Working
<1>7. UNCHANGED <<tenants, alone>>
  BY <1>2
<1>8. s0 \in alone' =>
         /\ \A x \in Requests \ {r} : ~Open(x, s0)
         /\ req'[r].pc \in {"customer", "saving"} => tenants'[s0].customer = 0
         /\ req'[r].pc = "saving" => req'[r].customer # 0
         /\ req'[r].pc = "session" => req'[r].customer # 0
                                      /\ req'[r].customer = tenants'[s0].customer
  BY <1>3, <1>4, <1>6, <1>7
<1>9. \A x \in Requests \ {r} : req'[x] = req[x]
  BY <1>3
<1> QED
  BY <1>1, <1>5, <1>6, <1>8, <1>9, PortalOfOne

\* The row gets its customer: nothing was paid under another.
LEMMA PortalSave ==
    ASSUME Inv, PortalInv, NEW r \in Requests, updateTenantStripeCustomerId(r)
    PROVE  PortalInv'
<1> DEFINE s0 == req[r].slug
<1>1. s0 \in Slugs /\ Open(r, s0) /\ req[r].pc = "saving" /\ Registered(s0)
  BY DEF Inv, TypeInv, AccessInv, updateTenantStripeCustomerId, Open, Working
<1>2. /\ req'[r].slug = s0 /\ req'[r].customer = req[r].customer /\ req'[r].pc = "session"
      /\ \A x \in Requests \ {r} : req'[x] = req[x]
  BY DEF Inv, TypeInv, Request, updateTenantStripeCustomerId
<1>3. UNCHANGED <<subs, sessions, alone>>
  BY DEF updateTenantStripeCustomerId, billing
<1>4. \A s \in Slugs : Registered(s) =>
         tenants'[s].customer = IF s = s0 THEN req[r].customer ELSE tenants[s].customer
  BY SaveKeepsRows DEF Inv
<1> HIDE DEF s0
<1>5. s0 \in alone => /\ \A x \in Requests \ {r} : ~Open(x, s0)
                      /\ tenants[s0].customer = 0 /\ req[r].customer # 0
                      /\ \A c \in sessions : c.tenant # s0
                      /\ \A id \in DOMAIN subs : subs[id].tenant # s0
  BY <1>1 DEF PortalInv
<1>6. ASSUME NEW s \in alone, NEW x \in Requests \ {r}, Open(x, s)'
      PROVE  req'[x] = req[x] /\ Open(x, s) /\ s \in Slugs /\ s # s0
             /\ tenants'[s].customer = tenants[s].customer
  <2>1. req'[x] = req[x] /\ Open(x, s)
    BY <1>2, <1>6 DEF Open
  <2>2. s # s0
    BY <1>5, <2>1
  <2>3. s \in Slugs /\ Registered(s)
    BY <2>1 DEF Open, Inv, AccessInv
  <2> QED
    BY <1>4, <2>1, <2>2, <2>3
<1>7. \A s \in alone : Open(r, s)' => s = s0
  BY <1>2 DEF Open
<1>8. \A s \in alone : \A x, q \in Requests : Open(x, s)' /\ Open(q, s)' => x = q
  BY <1>6, <1>7 DEF PortalInv
<1>9. ASSUME NEW s \in alone, NEW x \in Requests, Open(x, s)'
      PROVE  /\ req'[x].pc \in {"customer", "saving"} => tenants'[s].customer = 0
             /\ req'[x].pc = "saving" => req'[x].customer # 0
             /\ req'[x].pc = "session" => req'[x].customer # 0
                                           /\ req'[x].customer = tenants'[s].customer
  <2>1. CASE x = r
    BY <1>1, <1>2, <1>4, <1>5, <1>7, <1>9, <2>1
  <2>2. CASE x # r
    BY <1>6, <1>9, <2>2 DEF PortalInv
  <2> QED
    BY <2>1, <2>2
<1>10. \A c \in sessions : c.tenant \in alone =>
          c.customer # 0 /\ c.customer = tenants'[c.tenant].customer
  BY <1>4, <1>5 DEF Inv, TypeInv, EventInv, PortalInv, Session
<1>11. \A id \in DOMAIN subs : subs[id].tenant \in alone =>
          subs[id].customer # 0 /\ subs[id].customer = tenants'[subs[id].tenant].customer
  BY <1>4, <1>5 DEF Inv, TypeInv, EventInv, PortalInv, Sub
<1> QED
  BY <1>3, <1>8, <1>9, <1>10, <1>11 DEF PortalInv

LEMMA PortalCreateSession ==
    ASSUME Inv, PortalInv, NEW r \in Requests, CreateSession(r)
    PROVE  PortalInv'
<1> DEFINE c0 == [tenant |-> req[r].slug, customer |-> req[r].customer,
                  price |-> req[r].tier, meta |-> req[r].tier]
<1>1. Open(r, c0.tenant) /\ req[r].pc = "session"
  BY DEF CreateSession, Open, Working
<1>2. c0.tenant \in alone => c0.customer # 0 /\ c0.customer = tenants[c0.tenant].customer
  BY <1>1 DEF PortalInv
<1>3. sessions' = sessions \cup {c0} /\ UNCHANGED <<tenants, alone, subs>>
  BY DEF CreateSession
<1> HIDE DEF c0
<1>4. \A x \in Requests : req'[x] = req[x] \/ req'[x].pc = "done"
  BY DEF CreateSession, Inv, TypeInv, Request
<1>5. ASSUME NEW s \in alone, NEW x \in Requests, Open(x, s)'
      PROVE  req'[x] = req[x] /\ Open(x, s)
  BY <1>4, <1>5 DEF Open, Working
<1>6. \A s \in alone : \A x, q \in Requests : Open(x, s)' /\ Open(q, s)' => x = q
  BY <1>5 DEF PortalInv
<1>7. ASSUME NEW s \in alone, NEW x \in Requests, Open(x, s)'
      PROVE  /\ req'[x].pc \in {"customer", "saving"} => tenants[s].customer = 0
             /\ req'[x].pc = "saving" => req'[x].customer # 0
             /\ req'[x].pc = "session" => req'[x].customer # 0
                                           /\ req'[x].customer = tenants[s].customer
  BY <1>5, <1>7 DEF PortalInv
<1> QED
  BY <1>2, <1>3, <1>6, <1>7 DEF PortalInv

LEMMA PortalRegister ==
    ASSUME Inv, PortalInv, NEW r \in Requests, RegisterCreate(r)
    PROVE  PortalInv'
<1>1. UNCHANGED <<subs, sessions, alone>>
  BY DEF RegisterCreate, billing
<1>2. \A x \in Requests : req'[x] = req[x] \/ req'[x].pc \notin Working
  BY DEF RegisterCreate, Inv, TypeInv, Working
<1>3. CustomersKept
  <2>1. CASE UNCHANGED tenants
    BY <2>1, CustomersStay
  <2>2. CASE tenants[req[r].slug] = None
             /\ \A s \in Slugs \ {req[r].slug} : tenants'[s] = tenants[s]
    BY <2>2, BillingAssumption DEF CustomersKept, Registered
  <2> QED
    BY <2>1, <2>2, RegisterKeepsRows DEF Inv
<1> QED
  BY <1>1, <1>2, <1>3, SubsUntouched, PortalQuiet

LEMMA PortalNext == Inv /\ PortalInv /\ [Next]_vars => PortalInv'
<1> SUFFICES ASSUME Inv, PortalInv, [Next]_vars PROVE PortalInv'
  OBVIOUS
<1>1. CASE UNCHANGED vars
  BY <1>1, CustomersStay, SubsUntouched, PortalQuiet DEF vars
<1>2. ASSUME NEW r \in Requests, NEW who \in People, NEW s \in Slugs,
             Register(r, who, s) \/ Login(r, who, s)
      PROVE  PortalInv'
  <2>1. UNCHANGED <<tenants, subs, sessions, alone>>
    BY <1>2 DEF Register, Login, billing
  <2>2. \A x \in Requests : req'[x] = req[x] \/ req'[x].pc \in {"hashing", "done"}
    <3>1. req[r] \in Request /\ req \in [Requests -> Request]
      BY DEF Inv, TypeInv
    <3>2. PICK pc \in {"hashing", "done"} :
             req' = [req EXCEPT ![r] = [req[r] EXCEPT !.pc = pc, !.who = who, !.slug = s]]
      BY <1>2 DEF Register, Login
    <3>3. [req[r] EXCEPT !.pc = pc, !.who = who, !.slug = s].pc = pc
      BY <3>1 DEF Request
    <3> QED
      BY <3>1, <3>2, <3>3
  <2> QED
    BY <2>1, <2>2, CustomersStay, SubsUntouched, PortalQuiet DEF Working
<1>3. CASE \E r \in Requests : RegisterCreate(r)
  BY <1>3, PortalRegister
<1>4. ASSUME NEW r \in Requests, NEW t \in Identity, createPortalSession(r, t)
      PROVE  PortalInv'
  <2>1. UNCHANGED <<tenants, subs, sessions, alone>>
    BY <1>4 DEF createPortalSession
  <2>2. \A x \in Requests : req'[x] = req[x] \/ req'[x].pc = "done"
    BY <1>4 DEF createPortalSession, Inv, TypeInv, Request
  <2> QED
    BY <2>1, <2>2, CustomersStay, SubsUntouched, PortalQuiet DEF Working
<1>5. CASE \E r \in Requests, t \in Identity, tier \in {"pro", "enterprise"} :
              createCheckoutSession(r, t, tier)
  BY <1>5, PortalCheckout
<1>6. CASE \E r \in Requests : CreateCustomer(r) \/ updateTenantStripeCustomerId(r) \/ CreateSession(r)
  BY <1>6, PortalCreateCustomer, PortalSave, PortalCreateSession
<1>7. ASSUME NEW r \in Requests, CheckoutFails(r)
      PROVE  PortalInv'
  <2>1. UNCHANGED <<tenants, subs, sessions, alone>>
    BY <1>7 DEF CheckoutFails, billing
  <2>2. \A x \in Requests : req'[x] = req[x] \/ req'[x].pc = "done"
    BY <1>7 DEF CheckoutFails, Inv, TypeInv, Request
  <2> QED
    BY <2>1, <2>2, CustomersStay, SubsUntouched, PortalQuiet DEF Working
<1>8. ASSUME NEW id \in Subscriptions, NEW c \in sessions, Pay(id, c)
      PROVE  PortalInv'
  <2>1. UNCHANGED <<tenants, req, alone>> /\ sessions' \subseteq sessions
    BY <1>8 DEF Pay
  <2>2. SubsKept
    BY <1>8 DEF Pay, SubsKept
  <2> QED
    BY <2>1, <2>2, CustomersStay, PortalQuiet
<1>9. ASSUME NEW id \in DOMAIN subs, NEW c \in Changes, Change(id, c)
      PROVE  PortalInv'
  <2>1. UNCHANGED <<tenants, req, alone, sessions>>
    BY <1>9 DEF Change
  <2>2. subs[id] \in Sub
    BY DEF Inv, TypeInv
  <2> DEFINE sub == [subs[id] EXCEPT !.price = c.price, !.status = c.status, !.version = @ + 1]
  <2>3. sub.tenant = subs[id].tenant /\ sub.customer = subs[id].customer
    BY <2>2 DEF Sub
  <2>4. subs' = [subs EXCEPT ![id] = sub]
    BY <1>9 DEF Change
  <2> HIDE DEF sub
  <2>5. SubsKept
    BY <2>3, <2>4 DEF SubsKept
  <2> QED
    BY <2>1, <2>5, CustomersStay, PortalQuiet
<1>10. ASSUME NEW w \in Workers, NEW e \in events, Take(w, e)
       PROVE  PortalInv'
  <2>1. UNCHANGED <<tenants, req, alone, sessions, subs>>
    BY <1>10 DEF Take
  <2> QED
    BY <2>1, CustomersStay, SubsUntouched, PortalQuiet
<1>11. ASSUME NEW w \in Workers, updateTenantSubscriptionState(w) \/ GiveBack(w)
       PROVE  PortalInv'
  <2>1. UNCHANGED <<req, alone, sessions, subs>>
    BY <1>11 DEF updateTenantSubscriptionState, GiveBack
  <2>2. CustomersKept
    BY <1>11, ApplyKeepsRows DEF Inv, CustomersKept
  <2> QED
    BY <2>1, <2>2, SubsUntouched, PortalQuiet
<1> QED
  BY <1>1, <1>2, <1>3, <1>4, <1>5, <1>6, <1>7, <1>8, <1>9, <1>10, <1>11 DEF Next

\* In every run, whatever a company can pay for, or pays for, belongs to the
\* customer in its row, the one its portal opens, as long as no two of its
\* checkouts overlapped: also when a checkout fails after it made a customer,
\* and whatever subscription events write meanwhile (stripe.service.js:29-36).
THEOREM PortalReaches == Spec => []PortalReachesSubscriptions
<1>1. Init => PortalInv
  BY DEF Init, PortalInv, Open, Working, NewRequest
<1>2. PortalInv => PortalReachesSubscriptions
  BY DEF PortalInv, PortalReachesSubscriptions, SubscriptionsOf
<1> QED
  BY <1>1, <1>2, InvInit, InvNext, PortalNext, PTL DEF Spec

-----------------------------------------------------------------------------
(***************************************************************************)
(* The tier of a company with one subscription.                            *)
(***************************************************************************)

Paid == {"pro", "enterprise"}

\* An event is of the company of its subscription, and older than Stripe has
\* it (at) or the same.
Carries(e, at) ==
    /\ e.sub.tenant = at[e.id].tenant
    /\ e.sub.version <= at[e.id].version
    /\ e.sub.version = at[e.id].version => e.sub = at[e.id]

Synced(row, id) == row.tier = Entitled(id) /\ row.status = subs[id].status

\* The snapshots of the company that wait, and what is in hand of it.
Waiting(s) == {e \in events : e.kind = "snapshot" /\ e.sub.tenant = s}
InHand(s)  == {w \in Workers : work[w] # None /\ work[w].sub.tenant = s}

\* What Stripe has is still to come, is in hand as the last snapshot, or is in
\* the row, and a completed session in hand can only write the same again.
Converging(s, id) ==
    \/ \E e \in Waiting(s) : e.sub = subs[id]
    \/ Waiting(s) = {} /\ \E w \in InHand(s) : work[w].kind = "snapshot" /\ work[w].sub = subs[id]
    \/ /\ Waiting(s) = {} /\ Synced(tenants[s], id)
       /\ \A w \in InHand(s) : work[w].sub = subs[id]

TierInv ==
    /\ \A r \in Requests : req[r].pc \in Working => req[r].tier \in Paid
    /\ \A c \in sessions : c.meta \in Paid
    /\ \A id \in DOMAIN subs : subs[id].meta \in Paid
    /\ IsFiniteSet(DOMAIN subs)
    /\ \A e \in events : Carries(e, subs)
    /\ \A w \in Workers : work[w] # None => Carries(work[w], subs)
    /\ \A s \in inOrder : /\ \A w, v \in InHand(s) : w = v
                          /\ \A id \in SubscriptionsOf(s) : SubscriptionsOf(s) = {id} => Converging(s, id)


\* Rows keep their tier and their status.
TiersKept == \A s \in Slugs : Registered(s) =>
                tenants'[s].tier = tenants[s].tier /\ tenants'[s].status = tenants[s].status

\* Whose subscription it is.
LEMMA OfWhom ==
    ASSUME Inv, NEW s, NEW id, SubscriptionsOf(s) = {id}
    PROVE  /\ id \in DOMAIN subs /\ subs[id].tenant = s /\ subs[id] \in Sub
           /\ s \in Slugs /\ Registered(s)
           /\ \A x \in DOMAIN subs : subs[x].tenant = s => x = id
BY DEF SubscriptionsOf, Inv, TypeInv, EventInv, Sub

\* A step of people and requests.
LEMMA TierQuiet ==
    ASSUME Inv, TierInv, TiersKept, UNCHANGED <<subs, events, work, inOrder>>,
           \A c \in sessions' : c \in sessions \/ c.meta \in Paid,
           \A r \in Requests : req'[r].pc \in Working => req'[r].tier \in Paid
    PROVE  TierInv'
<1>1. ASSUME NEW s \in inOrder, NEW id, SubscriptionsOf(s) = {id}
      PROVE  Converging(s, id)'
  <2>1. Converging(s, id) /\ s \in Slugs /\ Registered(s)
    BY <1>1, OfWhom DEF TierInv
  <2>2. tenants'[s].tier = tenants[s].tier /\ tenants'[s].status = tenants[s].status
    BY <2>1 DEF TiersKept
  <2> QED
    BY <2>1, <2>2 DEF Converging, Waiting, InHand, Synced, Entitled
<1>2. /\ \A e \in events : Carries(e, subs')
      /\ \A w \in Workers : work[w] # None => Carries(work[w], subs')
  BY DEF TierInv, Carries
<1> QED
  BY <1>1, <1>2 DEF TierInv, SubscriptionsOf, InHand, Carries

\* What is applied in the state Stripe has it leaves the row in that state.
LEMMA SyncIsCurrent ==
    ASSUME NEW row \in Row, NEW id \in Subscriptions, subs[id] \in Sub, subs[id].meta \in Paid
    PROVE  Synced(syncStripeSubscription(row, id, subs[id]), id)
<1> DEFINE sub == subs[id]
<1>1. CASE sub.status \in Ended
  BY <1>1 DEF Synced, Entitled, syncStripeSubscription, Row
<1>2. CASE sub.status \notin Ended
  <2>1. normalizeTierFromSubscription(sub) = Entitled(id)
    BY <1>2 DEF normalizeTierFromSubscription, Entitled, TierOfPrice, Paid
  <2>2. syncStripeSubscription(row, id, sub) =
           [row EXCEPT !.sub = id, !.status = sub.status, !.tier = normalizeTierFromSubscription(sub)]
    BY <1>2 DEF syncStripeSubscription
  <2> QED
    BY <2>1, <2>2 DEF Synced, Row
<1> QED
  BY <1>1, <1>2

LEMMA TierPay ==
    ASSUME Inv, TierInv, NEW id0 \in Subscriptions, NEW c \in sessions, Pay(id0, c)
    PROVE  TierInv'
<1> DEFINE sub == [tenant |-> c.tenant, customer |-> c.customer, price |-> c.price,
                   meta |-> c.meta, status |-> "active", version |-> 1]
           first == [kind |-> "snapshot", id |-> id0, sub |-> sub]
           done  == [kind |-> "completed", id |-> id0, sub |-> sub]
<1>1. /\ subs' = [x \in {id0} \cup DOMAIN subs |-> IF x = id0 THEN sub ELSE subs[x]]
      /\ events' = events \cup {first, done}
      /\ sessions' \subseteq sessions /\ id0 \notin DOMAIN subs
      /\ UNCHANGED <<tenants, req, work, inOrder>>
  BY DEF Pay
<1>2. /\ sub.tenant = c.tenant /\ sub.meta = c.meta /\ sub.version = 1 /\ c.meta \in Paid
      /\ first.kind = "snapshot" /\ first.id = id0 /\ first.sub = sub
      /\ done.kind = "completed" /\ done.id = id0 /\ done.sub = sub
  BY DEF TierInv
<1> HIDE DEF sub, first, done
<1>3. /\ DOMAIN subs' = DOMAIN subs \cup {id0} /\ subs'[id0] = sub
      /\ \A x \in DOMAIN subs : x # id0 /\ subs'[x] = subs[x]
  BY <1>1
<1>4. IsFiniteSet(DOMAIN subs')
  BY <1>3, FS_AddElement DEF TierInv
<1>5. \A e \in events : Carries(e, subs')
  BY <1>3 DEF Inv, EventInv, TierInv, Carries
<1>6. Carries(first, subs') /\ Carries(done, subs')
  BY <1>2, <1>3 DEF Carries
<1>7. \A w \in Workers : work[w] # None => Carries(work[w], subs')
  BY <1>3 DEF Inv, EventInv, TierInv, Carries
<1>8. ASSUME NEW s \in inOrder, NEW id, SubscriptionsOf(s)' = {id}
      PROVE  Converging(s, id)'
  <2>1. CASE s = c.tenant
    <3>1. id0 = id
      BY <1>2, <1>3, <1>8, <2>1 DEF SubscriptionsOf
    <3> QED
      BY <1>1, <1>2, <1>3, <2>1, <3>1 DEF Converging, Waiting
  <2>2. CASE s # c.tenant
    <3>1. SubscriptionsOf(s) = {id}
      BY <1>2, <1>3, <1>8, <2>2 DEF SubscriptionsOf
    <3>2. Converging(s, id) /\ id \in DOMAIN subs
      BY <3>1, OfWhom DEF TierInv
    <3>3. Waiting(s)' = Waiting(s) /\ InHand(s)' = InHand(s)
      BY <1>1, <1>2, <2>2 DEF Waiting, InHand
    <3>4. subs'[id] = subs[id]
      BY <1>3, <3>2
    <3> QED
      BY <1>1, <3>2, <3>3, <3>4 DEF Converging, Synced, Entitled
  <2> QED
    BY <2>1, <2>2
<1>9. \A e \in events' : Carries(e, subs')
  BY <1>1, <1>5, <1>6
<1>10. \A id \in DOMAIN subs' : subs'[id].meta \in Paid
  BY <1>2, <1>3 DEF TierInv
<1> QED
  BY <1>1, <1>4, <1>7, <1>8, <1>9, <1>10 DEF TierInv, InHand

LEMMA TierChange ==
    ASSUME Inv, TierInv, NEW id0 \in DOMAIN subs, NEW c \in Changes, Change(id0, c)
    PROVE  TierInv'
<1> DEFINE old == subs[id0]
           sub == [old EXCEPT !.price = c.price, !.status = c.status, !.version = @ + 1]
           made == [kind |-> "snapshot", id |-> id0, sub |-> sub]
<1>1. /\ subs' = [subs EXCEPT ![id0] = sub] /\ events' = events \cup {made}
      /\ UNCHANGED <<tenants, req, sessions, work, inOrder>>
  BY DEF Change
<1>2. old \in Sub /\ old.meta \in Paid
  BY DEF Inv, TypeInv, TierInv
<1>3. /\ sub.tenant = old.tenant /\ sub.meta = old.meta /\ sub.version = old.version + 1
      /\ old.version \in Nat
      /\ made.kind = "snapshot" /\ made.id = id0 /\ made.sub = sub
  BY <1>2 DEF Sub
<1>4. /\ DOMAIN subs' = DOMAIN subs /\ subs'[id0] = sub
      /\ \A x \in DOMAIN subs \ {id0} : subs'[x] = subs[x]
  BY <1>1
<1> HIDE DEF sub, made
<1>5. ASSUME NEW e, e \in Event, e.id \in DOMAIN subs, Carries(e, subs)
      PROVE  Carries(e, subs')
  <2>1. CASE e.id = id0
    <3>1. e.sub.version <= old.version /\ e.sub.version \in Nat /\ e.sub.tenant = old.tenant
      BY <1>5, <2>1 DEF Carries, Event, Sub
    <3> HIDE DEF old
    <3>2. e.sub.version <= sub.version /\ e.sub.version # sub.version
      BY <1>3, <3>1
    <3> QED
      BY <1>3, <1>4, <2>1, <3>1, <3>2 DEF Carries
  <2>2. CASE e.id # id0
    BY <1>4, <1>5, <2>2 DEF Carries
  <2> QED
    BY <2>1, <2>2
<1>6. \A e \in events : Carries(e, subs')
  BY <1>5 DEF Inv, TypeInv, EventInv, TierInv
<1>7. Carries(made, subs')
  BY <1>3, <1>4 DEF Carries
<1>8. \A w \in Workers : work[w] # None => Carries(work[w], subs')
  BY <1>5 DEF Inv, TypeInv, EventInv, TierInv
<1>9. ASSUME NEW s \in inOrder, NEW id, SubscriptionsOf(s)' = {id}
      PROVE  Converging(s, id)'
  <2>1. SubscriptionsOf(s) = {id}
    BY <1>3, <1>4, <1>9 DEF SubscriptionsOf
  <2>2. CASE s = old.tenant
    <3>1. id0 = id
      BY <2>1, <2>2, OfWhom
    <3> QED
      BY <1>1, <1>3, <1>4, <2>2, <3>1 DEF Converging, Waiting
  <2>3. CASE s # old.tenant
    <3>1. Converging(s, id) /\ id \in DOMAIN subs /\ id # id0
      BY <2>1, <2>3, OfWhom DEF TierInv
    <3>2. Waiting(s)' = Waiting(s) /\ InHand(s)' = InHand(s)
      BY <1>1, <1>3, <2>3 DEF Waiting, InHand
    <3>3. subs'[id] = subs[id]
      BY <1>4, <3>1
    <3> QED
      BY <1>1, <3>1, <3>2, <3>3 DEF Converging, Synced, Entitled
  <2> QED
    BY <2>2, <2>3
<1>10. \A e \in events' : Carries(e, subs')
  BY <1>1, <1>6, <1>7
<1>11. \A id \in DOMAIN subs' : subs'[id].meta \in Paid
  BY <1>2, <1>3, <1>4 DEF TierInv
<1>12. IsFiniteSet(DOMAIN subs')
  BY <1>4 DEF TierInv
<1>13. \A s \in inOrder : \A w, v \in InHand(s)' : w = v
  BY <1>1 DEF TierInv, InHand
<1>14. /\ \A r \in Requests : req[r].pc \in Working => req[r].tier \in Paid
       /\ \A x \in sessions : x.meta \in Paid
  BY DEF TierInv
<1> QED
  BY <1>1, <1>8, <1>9, <1>10, <1>11, <1>12, <1>13, <1>14 DEF TierInv

\* An event that overtakes no other is the last of its company, or an older
\* one whose successor still waits.
LEMMA TierTake ==
    ASSUME Inv, TierInv, NEW w \in Workers, NEW e \in events, Take(w, e)
    PROVE  TierInv'
<1> DEFINE job == IF e.kind = "completed" THEN [e EXCEPT !.sub = subs[e.id]] ELSE e
           s0 == e.sub.tenant
<1>1. /\ e \in Event /\ e.id \in DOMAIN subs /\ Carries(e, subs) /\ subs[e.id] \in Sub
      /\ e.kind \in {"snapshot", "completed"}
  BY DEF Inv, TypeInv, EventInv, TierInv, Event
<1>2. /\ job.id = e.id /\ job.kind = e.kind /\ job \in Event
      /\ e.kind = "completed" => job.sub = subs[e.id]
      /\ e.kind # "completed" => job = e
  BY <1>1 DEF Event
<1>3. /\ work[w] = None /\ work' = [work EXCEPT ![w] = job] /\ events' = events \ {e}
      /\ inOrder' = IF Overtakes(e) THEN inOrder \ {s0} ELSE inOrder
      /\ UNCHANGED <<tenants, req, subs, sessions>>
  BY DEF Take
<1>4. job # None
  BY <1>2, BillingAssumption
<1>5. Carries(job, subs) /\ job.sub.tenant = s0
  BY <1>1, <1>2 DEF Carries, Sub
<1> HIDE DEF job, s0
<1>6. \A x \in Workers : work'[x] = IF x = w THEN job ELSE work[x]
  BY <1>3 DEF Inv, TypeInv
<1>7. \A s : InHand(s)' = IF s = s0 THEN InHand(s) \cup {w} ELSE InHand(s)
  BY <1>3, <1>4, <1>5, <1>6 DEF InHand
<1>8. \A s : s # s0 => Waiting(s)' = Waiting(s)
  BY <1>3 DEF Waiting, s0
<1>9. s0 \in inOrder' => /\ InHand(s0) = {}
                         /\ \A o \in events : o.kind = "snapshot" /\ o.id = e.id /\ e.kind = "snapshot"
                                                => ~(o.sub.version < e.sub.version)
  BY <1>3 DEF Overtakes, InHand, s0
<1>10. ASSUME NEW s \in inOrder', NEW id, SubscriptionsOf(s) = {id}
       PROVE  Converging(s, id)'
  <2>1. /\ Converging(s, id) /\ id \in DOMAIN subs /\ subs[id] \in Sub
        /\ \A x \in DOMAIN subs : subs[x].tenant = s => x = id
    BY <1>3, <1>10, OfWhom DEF TierInv
  <2>2. CASE s # s0
    <3>1. \A x \in InHand(s) : work'[x] = work[x]
      BY <1>3, <1>6 DEF InHand
    <3> QED
      BY <1>3, <1>7, <1>8, <2>1, <2>2, <3>1 DEF Converging, Synced, Entitled
  <2>3. CASE s = s0
    <3>1. e.id = id /\ InHand(s) = {} /\ InHand(s)' = {w} /\ work'[w] = job
      BY <1>1, <1>6, <1>7, <1>9, <1>10, <2>1, <2>3 DEF Carries, s0
    <3>2. CASE \E x \in Waiting(s) : x # e /\ x.sub = subs[id]
      BY <1>3, <3>2 DEF Converging, Waiting
    <3>3. CASE e.kind = "snapshot" /\ e.sub = subs[id]
      <4>1. ASSUME NEW y \in Waiting(s), y # e PROVE FALSE
        <5>1. /\ y \in Event /\ y.kind = "snapshot" /\ y.id = id /\ Carries(y, subs)
              /\ y.id \in DOMAIN subs
          BY <2>1 DEF Waiting, Inv, TypeInv, EventInv, TierInv, Carries
        <5>2. ~(y.sub.version < e.sub.version)
          BY <1>9, <1>10, <2>3, <3>1, <3>3, <5>1 DEF Waiting
        <5>3. y.sub.version \in Nat /\ e.sub.version \in Nat /\ y.sub.version <= e.sub.version
          BY <1>1, <3>3, <5>1 DEF Carries, Event, Sub
        <5>4. y.sub = e.sub
          BY <3>3, <5>1, <5>2, <5>3 DEF Carries
        <5>5. y = e
          BY <1>1, <3>1, <3>3, <5>1, <5>4 DEF Event
        <5> QED
          BY <4>1, <5>5
      <4>2. Waiting(s)' = {}
        BY <1>3, <4>1 DEF Waiting
      <4> QED
        BY <1>2, <1>3, <3>1, <3>3, <4>2 DEF Converging
    <3>4. CASE Waiting(s) = {} /\ Synced(tenants[s], id)
      <4>1. e.kind = "completed"
        BY <1>1, <2>3, <3>4 DEF Waiting, s0
      <4>2. Waiting(s)' = {}
        BY <1>3, <3>4 DEF Waiting
      <4>3. job.sub = subs[id]
        BY <1>2, <3>1, <4>1
      <4> QED
        BY <1>3, <3>1, <3>4, <4>2, <4>3 DEF Converging, Synced, Entitled
    <3> QED
      BY <2>1, <3>1, <3>2, <3>3, <3>4 DEF Converging, Waiting
  <2> QED
    BY <2>2, <2>3
<1>11. \A s \in inOrder' : \A x, v \in InHand(s)' : x = v
  BY <1>3, <1>7, <1>9 DEF TierInv
<1>12. /\ \A x \in events' : Carries(x, subs')
       /\ \A x \in Workers : work'[x] # None => Carries(work'[x], subs')
  BY <1>3, <1>5, <1>6 DEF TierInv
<1>14. \A s : SubscriptionsOf(s)' = SubscriptionsOf(s)
  BY <1>3 DEF SubscriptionsOf
<1> QED
  BY <1>3, <1>10, <1>11, <1>12, <1>14 DEF TierInv


\* The event in hand is written, or written and given back.
LEMMA TierApply ==
    ASSUME Inv, TierInv, NEW w \in Workers, updateTenantSubscriptionState(w) \/ GiveBack(w)
    PROVE  TierInv'
<1> DEFINE e  == work[w]
           s0 == e.sub.tenant
           row == syncStripeSubscription(tenants[s0], e.id, e.sub)
<1>1. /\ e # None /\ e \in Event /\ e.id \in DOMAIN subs /\ e.id \in Subscriptions
      /\ Carries(e, subs) /\ s0 \in Slugs /\ Registered(s0) /\ subs[e.id] \in Sub
      /\ e.kind \in {"snapshot", "completed"} /\ subs[e.id].meta \in Paid
  BY DEF Inv, TypeInv, EventInv, TierInv, Event, Sub, updateTenantSubscriptionState, GiveBack
<1>2. /\ work' = [work EXCEPT ![w] = None]
      /\ UNCHANGED <<req, subs, sessions, inOrder>>
      /\ \/ tenants' = [tenants EXCEPT ![s0] = row] /\ events' = events
         \/ /\ tenants' = tenants \/ tenants' = [tenants EXCEPT ![s0] = row]
            /\ events' = events \cup {e}
  BY DEF updateTenantSubscriptionState, GiveBack
<1>3. \A x \in Workers : work'[x] = IF x = w THEN None ELSE work[x]
  BY <1>2 DEF Inv, TypeInv
<1>4. e.sub = subs[e.id] => Synced(row, e.id)
  BY <1>1, SyncIsCurrent DEF Registered
<1>5. \A s \in Slugs : tenants'[s] = tenants[s] \/ (s = s0 /\ tenants'[s] = row)
  BY <1>1, <1>2 DEF Inv, TypeInv
<1>6. tenants'[s0] = row \/ (tenants'[s0] = tenants[s0] /\ events' = events \cup {e})
  BY <1>1, <1>2 DEF Inv, TypeInv
<1>7. s0 \in inOrder => InHand(s0) = {w}
  BY <1>1 DEF TierInv, InHand
<1>8. \A s : InHand(s)' = InHand(s) \ {w}
  BY <1>3 DEF InHand
<1>10. events' = events \/ events' = events \cup {e}
  BY <1>2
<1> HIDE DEF row
<1>9. /\ \A s : Waiting(s) \subseteq Waiting(s)' /\ Waiting(s)' \subseteq Waiting(s) \cup {e}
      /\ \A s : s # s0 => Waiting(s)' = Waiting(s)
      /\ \A s : s = s0 /\ e.kind = "snapshot" /\ events' = events \cup {e} => e \in Waiting(s)'
  <2>1. ASSUME NEW s, NEW x
        PROVE  /\ x \in Waiting(s) <=> x \in events /\ x.kind = "snapshot" /\ x.sub.tenant = s
               /\ x \in Waiting(s)' <=> x \in events' /\ x.kind = "snapshot" /\ x.sub.tenant = s
    BY DEF Waiting
  <2>2. e.sub.tenant = s0
    OBVIOUS
  <2> HIDE DEF e, s0
  <2>3. \A s : Waiting(s) \subseteq Waiting(s)' /\ Waiting(s)' \subseteq Waiting(s) \cup {e}
    BY <1>10, <2>1
  <2>4. ASSUME NEW s, s # s0 PROVE Waiting(s)' = Waiting(s)
    BY <2>1, <2>2, <2>3, <2>4
  <2>5. \A s : s = s0 /\ e.kind = "snapshot" /\ events' = events \cup {e} => e \in Waiting(s)'
    BY <2>1, <2>2
  <2> QED
    BY <2>3, <2>4, <2>5
<1>11. ASSUME NEW s \in inOrder, NEW id, SubscriptionsOf(s) = {id}
       PROVE  Converging(s, id)'
  <2>1. /\ Converging(s, id) /\ id \in DOMAIN subs /\ s \in Slugs
        /\ \A x \in DOMAIN subs : subs[x].tenant = s => x = id
    BY <1>11, OfWhom DEF TierInv
  <2>2. CASE s # s0
    <3>1. InHand(s)' = InHand(s) /\ \A x \in InHand(s) : work'[x] = work[x]
      BY <1>3, <1>8, <2>2 DEF InHand
    <3>2. tenants'[s] = tenants[s] /\ Waiting(s)' = Waiting(s)
      BY <1>5, <1>9, <2>1, <2>2
    <3> QED
      BY <1>2, <2>1, <3>1, <3>2 DEF Converging, Synced, Entitled
  <2>3. CASE s = s0
    <3>1. e.id = id /\ InHand(s) = {w} /\ InHand(s)' = {}
      BY <1>1, <1>7, <1>8, <1>11, <2>1, <2>3 DEF Carries
    <3>2. CASE \E x \in Waiting(s) : x.sub = subs[id]
      BY <1>2, <1>9, <3>2 DEF Converging
    <3>3. CASE Waiting(s) = {} /\ e.sub = subs[id]
      <4>1. CASE tenants'[s] = row /\ Waiting(s)' = {}
        <5>1. Synced(row, id)
          BY <1>4, <3>1, <3>3
        <5> QED
          BY <1>2, <3>1, <4>1, <5>1 DEF Converging, Synced, Entitled
      <4>2. CASE e \in Waiting(s)'
        BY <1>2, <3>3, <4>2 DEF Converging
      <4>3. CASE tenants'[s] = tenants[s] /\ Synced(tenants[s], id) /\ Waiting(s)' = {}
        BY <1>2, <3>1, <4>3 DEF Converging, Synced, Entitled
      <4>4. Waiting(s)' = {} \/ e \in Waiting(s)'
        BY <1>9, <3>3
      <4>5. e.kind = "snapshot" \/ Synced(tenants[s], id)
        BY <1>1, <2>1, <3>1, <3>3 DEF Converging
      <4>6. tenants'[s] = row \/ (tenants'[s] = tenants[s] /\ events' = events \cup {e})
        BY <1>6, <2>3
      <4>7. CASE tenants'[s] = row
        BY <4>1, <4>2, <4>4, <4>7
      <4>8. CASE tenants'[s] = tenants[s] /\ events' = events \cup {e}
        BY <1>9, <2>3, <4>2, <4>3, <4>4, <4>5, <4>8
      <4> QED
        BY <4>6, <4>7, <4>8
    <3>4. (\E x \in Waiting(s) : x.sub = subs[id]) \/ (Waiting(s) = {} /\ e.sub = subs[id])
      BY <2>1, <3>1 DEF Converging
    <3> QED
      BY <3>2, <3>3, <3>4
  <2> QED
    BY <2>2, <2>3
<1>12. \A s \in inOrder : \A x, v \in InHand(s)' : x = v
  BY <1>8 DEF TierInv
<1>13. /\ \A x \in events' : Carries(x, subs)
       /\ \A x \in Workers : work'[x] # None => Carries(work'[x], subs)
  BY <1>1, <1>3, <1>10 DEF TierInv
<1>14. \A s : SubscriptionsOf(s)' = SubscriptionsOf(s)
  BY <1>2 DEF SubscriptionsOf
<1> QED
  BY <1>2, <1>11, <1>12, <1>13, <1>14 DEF TierInv

LEMMA TiersStay ==
    ASSUME UNCHANGED tenants
    PROVE  TiersKept
BY DEF TiersKept

\* The steps of requests: what they will ask for has one of the two paid tiers.
LEMMA TierRequest ==
    ASSUME Inv, TierInv, NEW r \in Requests,
           \/ RegisterCreate(r) \/ CreateCustomer(r) \/ updateTenantStripeCustomerId(r)
           \/ CreateSession(r) \/ CheckoutFails(r)
           \/ \E who \in People, s \in Slugs : Register(r, who, s) \/ Login(r, who, s)
           \/ \E t \in Identity : createPortalSession(r, t)
           \/ \E t \in Identity, tier \in {"pro", "enterprise"} : createCheckoutSession(r, t, tier)
    PROVE  TierInv'
<1>1. UNCHANGED <<subs, events, work, inOrder>>
  BY DEF RegisterCreate, CreateCustomer, updateTenantStripeCustomerId, CreateSession,
         CheckoutFails, Register, Login, createPortalSession, createCheckoutSession, billing
<1>2. req[r] \in Request /\ req \in [Requests -> Request]
  BY DEF Inv, TypeInv
<1>3. \A x \in Requests : req'[x].pc \in Working => req'[x].tier \in Paid
  <2>1. \A x \in Requests \ {r} : req'[x] = req[x]
    BY DEF RegisterCreate, CreateCustomer, updateTenantStripeCustomerId, CreateSession,
           CheckoutFails, Register, Login, createPortalSession, createCheckoutSession, Inv, TypeInv
  <2>2. req'[r].pc \in Working => req'[r].tier \in Paid
    <3>1. CASE RegisterCreate(r) \/ CreateSession(r) \/ CheckoutFails(r)
      BY <1>2, <3>1 DEF RegisterCreate, CreateSession, CheckoutFails, Working, Request
    <3>2. CASE CreateCustomer(r) \/ updateTenantStripeCustomerId(r)
      <4>1. req[r].pc \in Working /\ req'[r].tier = req[r].tier
        BY <1>2, <3>2 DEF CreateCustomer, updateTenantStripeCustomerId, Working, Request
      <4> QED
        BY <4>1 DEF TierInv
    <3>3. CASE \E who \in People, s \in Slugs : Register(r, who, s) \/ Login(r, who, s)
      <4>1. PICK who \in People, s \in Slugs, pc \in {"hashing", "done"} :
               req' = [req EXCEPT ![r] = [req[r] EXCEPT !.pc = pc, !.who = who, !.slug = s]]
        BY <3>3 DEF Register, Login
      <4>2. [req[r] EXCEPT !.pc = pc, !.who = who, !.slug = s].pc = pc
        BY <1>2 DEF Request
      <4> QED
        BY <1>2, <4>1, <4>2 DEF Working
    <3>4. CASE \E t \in Identity : createPortalSession(r, t)
      <4>1. PICK t \in Identity :
               req' = [req EXCEPT ![r] = [req[r] EXCEPT !.pc = "done", !.who = t.who, !.slug = t.tenant]]
        BY <3>4 DEF createPortalSession
      <4>2. [req[r] EXCEPT !.pc = "done", !.who = t.who, !.slug = t.tenant].pc = "done"
        BY <1>2 DEF Request
      <4> QED
        BY <1>2, <4>1, <4>2 DEF Working
    <3>5. CASE \E t \in Identity, tier \in {"pro", "enterprise"} : createCheckoutSession(r, t, tier)
      BY <1>2, <3>5 DEF createCheckoutSession, Paid
    <3> QED
      BY <3>1, <3>2, <3>3, <3>4, <3>5
  <2> QED
    BY <2>1, <2>2 DEF TierInv
<1>4. \A c \in sessions' : c \in sessions \/ c.meta \in Paid
  <2>1. CASE CreateSession(r)
    <3>1. req[r].tier \in Paid
      BY <2>1 DEF TierInv, CreateSession, Working
    <3> QED
      BY <2>1, <3>1 DEF CreateSession
  <2>2. CASE ~CreateSession(r)
    <3>1. UNCHANGED sessions
      BY <2>2 DEF RegisterCreate, CreateCustomer, updateTenantStripeCustomerId,
             CheckoutFails, Register, Login, createPortalSession, createCheckoutSession, billing
    <3> QED
      BY <3>1
  <2> QED
    BY <2>1, <2>2
<1>5. TiersKept
  <2>1. CASE RegisterCreate(r)
    <3>1. CASE UNCHANGED tenants
      BY <3>1, TiersStay
    <3>2. CASE tenants[req[r].slug] = None
               /\ \A s \in Slugs \ {req[r].slug} : tenants'[s] = tenants[s]
      BY <3>2, BillingAssumption DEF TiersKept, Registered
    <3> QED
      BY <2>1, <3>1, <3>2, RegisterKeepsRows DEF Inv
  <2>2. CASE updateTenantStripeCustomerId(r)
    BY <2>2 DEF updateTenantStripeCustomerId, TiersKept, Registered, Row, Inv, TypeInv
  <2>3. CASE ~RegisterCreate(r) /\ ~updateTenantStripeCustomerId(r)
    <3>1. UNCHANGED tenants
      BY <2>3 DEF CreateCustomer, CreateSession, CheckoutFails, Register, Login,
                  createPortalSession, createCheckoutSession
    <3> QED
      BY <3>1, TiersStay
  <2> QED
    BY <2>1, <2>2, <2>3
<1> QED
  BY <1>1, <1>3, <1>4, <1>5, TierQuiet

LEMMA TierNext == Inv /\ TierInv /\ [Next]_vars => TierInv'
<1> SUFFICES ASSUME Inv, TierInv, [Next]_vars PROVE TierInv'
  OBVIOUS
<1>1. CASE UNCHANGED vars
  <2>1. UNCHANGED <<tenants, subs, events, work, inOrder, sessions, req>>
    BY <1>1 DEF vars
  <2>2. \A r \in Requests : req'[r].pc \in Working => req'[r].tier \in Paid
    BY <2>1 DEF TierInv
  <2> QED
    BY <2>1, <2>2, TiersStay, TierQuiet
<1> QED
  BY <1>1, TierRequest, TierPay, TierChange, TierTake, TierApply DEF Next

LEMMA TierInit == Init => TierInv
<1> SUFFICES ASSUME Init PROVE TierInv
  OBVIOUS
<1>1. DOMAIN subs = {}
  BY DEF Init
<1> QED
  BY <1>1, FS_EmptySet DEF Init, TierInv, NewRequest, Working, InHand, SubscriptionsOf

\* In every run, a company with one subscription whose events were applied one
\* by one and in order has, once none is left, the tier and the status Stripe
\* has: with any workers, retries, events applied twice and completed sessions
\* that read a newer state (stripe.service.js:59-104, webhook.processor.js:98).
THEOREM SettledTiersAreCurrent == Spec => []SettledTierIsCurrent
<1>1. Inv /\ TierInv => SettledTierIsCurrent
  <2> SUFFICES ASSUME Inv, TierInv, NEW s \in inOrder, Settled(s),
                      Cardinality(SubscriptionsOf(s)) = 1
               PROVE  \A id \in SubscriptionsOf(s) :
                         tenants[s].tier = Entitled(id) /\ tenants[s].status = subs[id].status
    BY DEF SettledTierIsCurrent
  <2>1. IsFiniteSet(SubscriptionsOf(s))
    BY FS_Subset DEF TierInv, SubscriptionsOf
  <2>2. PICK id : SubscriptionsOf(s) = {id}
    BY <2>1, FS_Singleton
  <2>3. Converging(s, id)
    BY <2>2 DEF TierInv
  <2>4. Waiting(s) = {} /\ InHand(s) = {}
    BY DEF Settled, Waiting, InHand
  <2> QED
    BY <2>2, <2>3, <2>4 DEF Converging, Synced
<1> QED
  BY <1>1, InvInit, InvNext, TierInit, TierNext, PTL DEF Spec
=============================================================================
