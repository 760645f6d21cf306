--------------------------- MODULE TenantBilling ---------------------------
(***************************************************************************)
(* Companies and what they pay for: registration and login (auth), the     *)
(* context a protected request gets (auth/jwt.middleware.js,               *)
(* core/tenant.context.js), the checkout and the portal of a subscription  *)
(* (billing/billing.controller.js) and the events of the subscription that *)
(* set the company's tier (billing/stripe.service.js).  Stripe is external.*)
(***************************************************************************)
EXTENDS Integers, FiniteSets, TLC

CONSTANTS
  People,           \* who uses the system: each has an e-mail and a password
  Slugs,            \* of companies; a company is identified by its slug
  Requests, Workers,
  Subscriptions,    \* identities Stripe may give
  Changes,          \* what may become of a subscription: [price, status]
  Production,       \* the requests that meet a process whose NODE_ENV is "production"
  None,
  MaxCustomers, MaxVersions   \* bounds of what happens at Stripe

\* A row of Tenant with its User.
Labels == {"pro", "enterprise", "active", None}
          \cup {c.price : c \in Changes} \cup {c.status : c \in Changes}
Row == [user : People, role : {"admin"}, customer : Nat, sub : Subscriptions \cup {None},
        status : Labels, tier : {"free", "pro", "enterprise"}]

\* A subscription as an event carries it, and the event.
Sub   == [tenant : Slugs, customer : Nat, price : Labels, meta : Labels, status : Labels, version : Nat]
Event == [kind : {"snapshot", "completed"}, id : Subscriptions, sub : Sub]

ASSUME BillingAssumption == None \notin Row \cup Event /\ Production \subseteq Requests

Live == {"active", "past_due"}
Ended == {"canceled", "unpaid", "incomplete_expired"}
\* getTierForStripePriceId: the two prices of the environment.
TierOfPrice == [pro |-> "pro", enterprise |-> "enterprise"]

VARIABLES
  tenants,    \* rows of Tenant with their one User: slug -> row or None
  tokens,     \* signed tokens: [who holds it, the user, the tenant]
  req,        \* requests: what each is at, for whom, and req.tenant
  subs,       \* Stripe: subscription -> [tenant, customer, price, meta, status, version]
  sessions,   \* Stripe: checkout sessions that may be paid
  customers,  \* Stripe: customers created so far, numbered
  portals,    \* Stripe: customers a portal session was opened for
  events,     \* events not yet applied and marked
  work,       \* what each worker is applying: None, an event, or [event, sub]
  inOrder,    \* history: tenants whose events were applied one by one, in order
  alone       \* history: tenants of which no two checkouts overlapped

vars == <<tenants, tokens, req, subs, sessions, customers, portals, events, work, inOrder, alone>>
billing == <<subs, sessions, customers, portals, events, work, inOrder>>

NewRequest == [pc |-> "new", who |-> None, slug |-> None, tenant |-> None,
               customer |-> 0, tier |-> None]

Init == /\ tenants = [s \in Slugs |-> None]
        /\ tokens = {}
        /\ req = [r \in Requests |-> NewRequest]
        /\ subs = <<>> /\ sessions = {} /\ customers = 0 /\ portals = {}
        /\ events = {} /\ work = [w \in Workers |-> None]
        /\ inOrder = Slugs /\ alone = Slugs

-----------------------------------------------------------------------------
(* Registration, login, and the context of a request *)

createTenantAndUserForRegister(who, s) ==
  [tenants EXCEPT ![s] = [user |-> who, role |-> "admin", customer |-> 0,
                          sub |-> None, status |-> None, tier |-> "free"]]
signAuthToken(who, user, s) == tokens \cup {[who |-> who, user |-> user, tenant |-> s]}

\* The password is hashed before the transaction.
Register(r, who, s) ==
  /\ req[r].pc = "new"
  /\ req' = [req EXCEPT ![r] = [@ EXCEPT !.pc = "hashing", !.who = who, !.slug = s]]
  /\ UNCHANGED <<tenants, tokens, alone>> /\ UNCHANGED billing

\* The slug is unique: P2002 is a 409.  A transaction whose outcome is lost
\* may have committed; then the company exists and no token was given.
RegisterCreate(r) ==
  LET who == req[r].who  s == req[r].slug
  IN /\ req[r].pc = "hashing"
     /\ req' = [req EXCEPT ![r].pc = "done"]
     /\ \/ /\ tenants[s] # None
           /\ UNCHANGED <<tenants, tokens>>
        \/ /\ tenants[s] = None
           /\ tenants' = createTenantAndUserForRegister(who, s)
           /\ tokens' \in {tokens, signAuthToken(who, who, s)}
     /\ UNCHANGED alone /\ UNCHANGED billing

\* Mutation: the user is looked for by e-mail in all companies.
HoldsWithoutTenant(who, s) ==
  tenants[s] # None /\ \E t \in Slugs : tenants[t] # None /\ tenants[t].user = who
\* The user of that e-mail in that company.
Holds(who, s) == tenants[s] # None /\ tenants[s].user = who

\* Rows of Tenant and User keep what login reads, so its awaits are one step.
Login(r, who, s) ==
  /\ req[r].pc = "new"
  /\ req' = [req EXCEPT ![r] = [@ EXCEPT !.pc = "done", !.who = who, !.slug = s]]
  /\ tokens' = IF Holds(who, s) THEN signAuthToken(who, who, s) ELSE tokens
  /\ UNCHANGED <<tenants, alone>> /\ UNCHANGED billing

\* Who sends a request, and the user and the company it is made for.
Identity == [who : People, user : People, tenant : Slugs]

\* Mutation: the headers are believed in production too.
authenticateAnyone(r, t) == t \in Identity
\* A token is signed and kept nowhere: logging out does not end it.  Outside
\* production a request without a token is made for whom its headers
\* x-dev-user and x-dev-tenant name.
authenticateJWT(r, t) == t \in tokens \/ r \notin Production
\* That user, in that company, active; only then is there a req.tenant, the row
\* of that moment.
attachTenantContext(t) ==
  tenants[t.tenant] # None /\ tenants[t.tenant].user = t.user
requireBillingAdmin(row) == row.role = "admin"
Protected(r, t) == /\ authenticateJWT(r, t) /\ attachTenantContext(t)
                   /\ requireBillingAdmin(tenants[t.tenant])

-----------------------------------------------------------------------------
(* Checkout and portal *)

\* Mutation: a customer is made whatever the row says.
EnsureAnew(row) == "customer"
\* The next await of ensureStripeCustomerForTenant, by the row it was given.
ensureStripeCustomerForTenant(row) == IF row.customer = 0 THEN "customer" ELSE "session"

\* Requests between the row they read and their session.
Checking(s) == {r \in Requests : req[r].slug = s /\ req[r].pc \in {"customer", "saving", "session"}}

createCheckoutSession(r, t, tier) ==
  LET s == t.tenant  row == tenants[s]
  IN /\ req[r].pc = "new"
     /\ Protected(r, t)
     /\ req' = [req EXCEPT ![r] =
          [pc |-> ensureStripeCustomerForTenant(row), who |-> t.who, slug |-> s,
           tenant |-> row, customer |-> row.customer, tier |-> tier]]
     /\ alone' = IF Checking(s) = {} THEN alone ELSE alone \ {s}
     /\ UNCHANGED <<tenants, tokens>> /\ UNCHANGED billing

CreateCustomer(r) ==
  /\ req[r].pc = "customer" /\ customers < MaxCustomers
  /\ customers' = customers + 1
  /\ req' = [req EXCEPT ![r].pc = "saving", ![r].customer = customers + 1]
  /\ UNCHANGED <<tenants, tokens, alone, subs, sessions, portals, events, work, inOrder>>

updateTenantStripeCustomerId(r) ==
  /\ req[r].pc = "saving"
  /\ tenants' = [tenants EXCEPT ![req[r].slug].customer = req[r].customer]
  /\ req' = [req EXCEPT ![r].pc = "session"]
  /\ UNCHANGED <<tokens, alone>> /\ UNCHANGED billing

CreateSession(r) ==
  /\ req[r].pc = "session"
  /\ sessions' = sessions \cup {[tenant |-> req[r].slug, customer |-> req[r].customer,
                                 price |-> req[r].tier, meta |-> req[r].tier]}
  /\ req' = [req EXCEPT ![r].pc = "done"]
  /\ UNCHANGED <<tenants, tokens, alone, subs, customers, portals, events, work, inOrder>>

\* Stripe or the database rejects: a 500, with what was done so far.
CheckoutFails(r) ==
  /\ req[r].pc \in {"customer", "saving", "session"}
  /\ req' = [req EXCEPT ![r].pc = "done"]
  /\ UNCHANGED <<tenants, tokens, alone>> /\ UNCHANGED billing

createPortalSession(r, t) ==
  LET row == tenants[t.tenant]
  IN /\ req[r].pc = "new"
     /\ Protected(r, t) /\ row.customer # 0
     /\ portals' = portals \cup {row.customer}
     /\ req' = [req EXCEPT ![r] = [@ EXCEPT !.pc = "done", !.who = t.who, !.slug = t.tenant]]
     /\ UNCHANGED <<tenants, tokens, alone, subs, sessions, customers, events, work, inOrder>>

-----------------------------------------------------------------------------
(* Stripe: a session is paid, a subscription changes, an event goes out.   *)

Pay(id, c) ==
  LET sub == [tenant |-> c.tenant, customer |-> c.customer, price |-> c.price,
              meta |-> c.meta, status |-> "active", version |-> 1]
  IN /\ id \in Subscriptions \ DOMAIN subs /\ c \in sessions
     /\ subs' = [x \in {id} \cup DOMAIN subs |-> IF x = id THEN sub ELSE subs[x]]
     /\ events' = events \cup {[kind |-> "snapshot", id |-> id, sub |-> sub],
                               [kind |-> "completed", id |-> id, sub |-> sub]}
     /\ sessions' = sessions \ {c}
     /\ UNCHANGED <<tenants, tokens, req, customers, portals, work, inOrder, alone>>

\* The bank or the portal; the portal reaches the customer it was opened for.
Change(id, c) ==
  LET old == subs[id]
      sub == [old EXCEPT !.price = c.price, !.status = c.status, !.version = @ + 1]
  IN /\ old.status \in Live /\ old.version < MaxVersions
     /\ <<c.price, c.status>> # <<old.price, old.status>>
     /\ old.customer \in portals \/ (c.price = old.price /\ c.status # "canceled")
     /\ subs' = [subs EXCEPT ![id] = sub]
     /\ events' = events \cup {[kind |-> "snapshot", id |-> id, sub |-> sub]}
     /\ UNCHANGED <<tenants, tokens, req, sessions, customers, portals, work, inOrder, alone>>

-----------------------------------------------------------------------------
(* The worker applies events, in whatever order they come to it. *)

\* Mutation: what was asked for at the checkout goes before what is paid.
TierOfMetadataFirst(sub) == IF sub.meta \in DOMAIN TierOfPrice THEN sub.meta ELSE "free"
\* getTierForStripePriceId ?? metadata.targetTier; anything else is free.
normalizeTierFromSubscription(sub) ==
  LET raw == IF sub.price \in DOMAIN TierOfPrice THEN TierOfPrice[sub.price] ELSE sub.meta
  IN IF raw \in {"enterprise", "pro"} THEN raw ELSE "free"

\* Mutation: an unpaid subscription keeps its tier.
SyncKeepsTier(row, id, sub) ==
  [row EXCEPT !.sub = IF sub.status \in Ended THEN None ELSE id, !.status = sub.status,
              !.tier = normalizeTierFromSubscription(sub)]
syncStripeSubscription(row, id, sub) ==
  IF sub.status \in Ended
  THEN [row EXCEPT !.sub = None, !.status = sub.status, !.tier = "free"]
  ELSE [row EXCEPT !.sub = id, !.status = sub.status, !.tier = normalizeTierFromSubscription(sub)]

\* A snapshot older than the event in hand still waits, or another event of
\* the company is in hand.
Overtakes(e) ==
  \/ \E o \in events : /\ o.kind = "snapshot" /\ o.id = e.id
                       /\ e.kind = "snapshot" /\ o.sub.version < e.sub.version
  \/ \E w \in Workers : work[w] # None /\ work[w].sub.tenant = e.sub.tenant

\* A completed session asks Stripe for the subscription as it is now; the
\* other events carry it.
Take(w, e) ==
  /\ work[w] = None /\ e \in events
  /\ work' = [work EXCEPT ![w] = IF e.kind = "completed" THEN [e EXCEPT !.sub = subs[e.id]] ELSE e]
  /\ events' = events \ {e}
  /\ inOrder' = IF Overtakes(e) THEN inOrder \ {e.sub.tenant} ELSE inOrder
  /\ UNCHANGED <<tenants, tokens, req, subs, sessions, customers, portals, alone>>

\* metadata.tenantId names the company.
updateTenantSubscriptionState(w) ==
  LET e == work[w]
  IN /\ e # None
     /\ tenants' = [tenants EXCEPT ![e.sub.tenant] = syncStripeSubscription(@, e.id, e.sub)]
     /\ work' = [work EXCEPT ![w] = None]
     /\ UNCHANGED <<tokens, req, subs, sessions, customers, portals, events, inOrder, alone>>

\* The write or what follows it rejects, and the inbox tries the event again.
GiveBack(w) ==
  LET e == work[w]
  IN /\ e # None
     /\ tenants' \in {tenants, [tenants EXCEPT ![e.sub.tenant] = syncStripeSubscription(@, e.id, e.sub)]}
     /\ work' = [work EXCEPT ![w] = None]
     /\ events' = events \cup {e}
     /\ UNCHANGED <<tokens, req, subs, sessions, customers, portals, inOrder, alone>>

Next ==
  \/ \E r \in Requests :
       \/ \E who \in People, s \in Slugs : Register(r, who, s) \/ Login(r, who, s)
       \/ RegisterCreate(r)
       \/ \E t \in Identity : createPortalSession(r, t)
                            \/ \E tier \in {"pro", "enterprise"} : createCheckoutSession(r, t, tier)
       \/ CreateCustomer(r) \/ updateTenantStripeCustomerId(r) \/ CreateSession(r) \/ CheckoutFails(r)
  \/ \E id \in Subscriptions, c \in sessions : Pay(id, c)
  \/ \E id \in DOMAIN subs, c \in Changes : Change(id, c)
  \/ \E w \in Workers : (\E e \in events : Take(w, e)) \/ updateTenantSubscriptionState(w) \/ GiveBack(w)

Spec == Init /\ [][Next]_vars

-----------------------------------------------------------------------------
(* Properties *)

\* Whoever holds a token is the person who registered its company, whatever the
\* order of registrations and logins (auth.service.js:92, the e-mail is looked for
\* in that company only); so is whoever has a request at work there, if it met a
\* process in production (jwt.middleware.js:85), also while others do not.
AccessIsOwn ==
  /\ \A t \in tokens : tenants[t.tenant] # None /\ tenants[t.tenant].user = t.who
  /\ \A r \in Production : req[r].tenant # None => tenants[req[r].slug].user = req[r].who

\* What the company's subscription at Stripe entitles it to.
Entitled(id) ==
  LET sub == subs[id]
  IN IF sub.status \in Ended THEN "free"
     ELSE IF sub.price \in DOMAIN TierOfPrice THEN TierOfPrice[sub.price] ELSE sub.meta
SubscriptionsOf(s) == {id \in DOMAIN subs : subs[id].tenant = s}
Settled(s) == /\ \A e \in events : e.sub.tenant # s
              /\ \A w \in Workers : work[w] = None \/ work[w].sub.tenant # s

\* A company with one subscription whose events were applied in order has,
\* once they all are, the tier and the state Stripe has for it: also when a
\* completed session read a newer state than its event, and when an event was
\* applied twice (stripe.service.js:59-104).
SettledTierIsCurrent ==
  \A s \in inOrder :
    (Settled(s) /\ Cardinality(SubscriptionsOf(s)) = 1) =>
      \A id \in SubscriptionsOf(s) :
        tenants[s].tier = Entitled(id) /\ tenants[s].status = subs[id].status

\* As long as the checkouts of a company do not overlap, everything it can
\* pay for belongs to the customer in its row, the one the portal opens
\* (stripe.service.js:29-36).
PortalReachesSubscriptions ==
  \A s \in alone :
    /\ \A c \in sessions : c.tenant = s => c.customer = tenants[s].customer
    /\ \A id \in SubscriptionsOf(s) : subs[id].customer = tenants[s].customer
=============================================================================
