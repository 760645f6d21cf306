# MultaCheck: a TLA+ verification project

MultaCheck analyses traffic fines, sells the report that contests one, and is
paid through Stripe. This directory holds TLA+ models of its backend
(`backend/src/`), of a tab of its web client (`frontend/src/`) and of its
stand-alone product library (`core/`), the TLC configurations that check them
on small instances, and theorems about them that TLAPS proves for every value
of the constants.

Paths below are relative to `backend/src/` unless they name another root.

## 1. Inventory

| Component | State | Operations | Interacts with |
|---|---|---|---|
| Webhook inbox and queue (`billing/webhook*.js`, `server.js`) | `StripeWebhookInbox`, `ProcessedStripeWebhookEvent`, an in-memory FIFO and a drain flag per process | receive, persist, answer 200, enqueue, claim, run the body, mark processed or failed, retry, dead-letter, recover at boot | Stripe delivers; the body calls the case lifecycle and the subscription sync |
| Case lifecycle (`multas/multa.service.js`, `multa.persistence.js`, `multaCaseState.js`, `multa.integrity.js`) | the row of `Multa`: `caseState`, `stripeCheckoutSessionId`, `dischargeBody` | analyze, checkout, download, repair, finalize, reconcile, expire | HTTP requests, the webhook worker, the Stripe API |
| Analyze intake and quota (`usage/*`, `multas/multa.persistence.js`, `multa.concurrency.js`, `db/*`) | rows of `Multa` by user and content, `UsageDaily.analyzeCount`, in-process chains | check the quota, join the chain, find or create the row, count | HTTP middleware before, case lifecycle after |
| Subscription billing (`billing/stripe.service.js`) | the tenant's customer, subscription, tier | create the customer, open a checkout, apply subscription events | webhook worker; the tier selects the quota |
| Request orchestrator (`infra/requestOrchestrator/*`) | a map of responses with expiry | replay, run, store | wraps analyze when `MULTACHECK_HTTP_ORCHESTRATOR=1` |
| Security gateway (`infra/securityGateway/*`) | hits by limiter and bucket, offences and blocks by address, the rules once read | limit, block, load the rules, scan, record | first middleware of the API |
| Launch guards (`infra/stripecircuitbreaker.js`, `infra/launchhealth.js`, `middleware/launchratelimit.js`) | failure counters, windows | record, test, expire | read by the health report |
| Analysis pipeline and scoring (`services/multaservice.js`, `scoring/*`, `rules/*`, `infra/redisCache.js`) | the shared cache of analyses, keyed by a digest of the fine | look up, prompt the model, fall back to the local rules, store, expire | called by analyze; calls the AI gateway |
| Product analysis library (`core/*.ts` and `core/api` at the root of `src`) | a rate limit by caller, a buffer of errors | limit, sanitize, validate, run the versioned rules, fall back, report | its own entry point |
| Fraud graph (`fraud/*`) | none: a graph is built from the lot of fines it is given | build, four sliding passes, aggregate | run by operators and by the deployment gate |
| AI cost and gateway (`core/aigateway.js`, `ai/*`) | cost counters by day and month | call, track | called by the analysis pipeline |
| Telemetry, audit, analytics, cache, background queue | appended rows, counters | record, read | read by operators only |
| Authentication and tenancy (`auth/*`, `tenants/*`, `users/*`) | companies with their user, tokens | register, log in, resolve the context | every protected route |
| Web client (`frontend/src/`) | a token, a stored case, the route, the page, calls in flight | load, recover a case, analyze, pay, poll for the report, log in and out | the API; Stripe's pages |
| Scripts, chaos tools | | | HTTP |

### Where it is hard

* **Crashes between two commits.** A webhook goes through five database calls;
  the process may exit after any of them, and the queue that drives them is in
  memory.
* **Failing calls that may have committed.** A transaction that rejects may
  have been applied.
* **Redelivery and overlap.** Stripe delivers again; two processes overlap
  during a deploy; recovery queues what a live worker may hold.
* **Read, await, write.** Checkout, analyze, download and repair read a case,
  wait for Stripe, for the analysis or for the database, and write a state
  decided by what they read.
* **Check, then count.** The quota is read before the work and incremented
  after it.
* **Serializable retries.** The intake transaction is run again from the
  start, on a fresh snapshot.
* **One step of several failing.** The analysis is a chain of model prompts,
  each of which may fail; what is answered then, and cached, is a degraded
  answer.
* **Orders Stripe chooses.** A session may complete before it is paid, expire
  after another was opened, or be paid after the case moved on; the events of a
  subscription carry old states and come in any order.
* **Late answers.** A tab navigates while its calls are out; what comes back
  belongs to a page, a case or an account that may have gone.
* **Windows.** Rates, offences, blocks, replies and fraud patterns live in
  windows of time, each written by hand with its own comparison at the edge.

### What makes each component correct

* Inbox: an event answered 200 is durable; it is marked only after its effect;
  a claim excludes other workers; a settled event is not applied again; every
  acknowledged event is settled.
* Case: a paid case has its report; a report was paid for; nothing but a stale
  write takes a delivered report away; who pays gets the report.
* Intake: a created row counts once; the quota of the plan holds; no request
  is stuck behind another.
* Analysis: no fine gets the verdict of another; every request is answered,
  whatever fails; score, verdict and trace agree.
* Gateway: who is blocked deserved it, and offending is bounded.
* Orchestrator: a remembered reply is not worked out again, and is nobody
  else's.
* Tenancy and subscriptions: who acts in a company registered it; the tier is
  what Stripe has; the portal reaches what is paid.
* Fraud graph: it finds exactly the patterns there are, in any order of
  arrival; more fines never calm an accusation.
* Product library: every answer keeps the contract; who waits as told is
  served; faults stay in the report.
* Web client: a page shows what was last asked of it, greets the account that
  acts, and waits for nothing for ever.

The hazards, each at its line with the properties that watch it, are in
`PROJECT.json`.

## 2. Modules

| Module | What it is |
|---|---|
| `WebhookInbox` | the webhook path: HTTP handler, inbox, queue, worker, recovery, crash |
| `EventDelivery` | abstract specification: what that path promises of each event |
| `MultaCase` | the life of a case under overlapping requests, sessions and events |
| `CasePromise` | abstract specification: what a case promises its customer |
| `EventClaims` | abstract specification of what lies between the two: who may work on which event |
| `AnalyzeIntake` | quota, chain, transaction and count of an authenticated analyze |
| `Scoring` | the local rules: points, trust, country, verdict, and the trace that explains them |
| `MultaAnalysis` | `processMulta`: cache, model pipeline, fallbacks, answer |
| `SecurityGateway` | the edge of the API: two rate limits, rules, scan, adaptive block |
| `RequestReplay` | extends it: the analyze limit and the orchestrator that replays answers by key |
| `TenantBilling` | registration, login, tenant context, subscription checkout, portal, subscription events |
| `FraudGraph` | the graph of a lot of fines, its four sliding passes and their aggregation |
| `ProductAnalysis` | the stand-alone product: rate limit, rules, fallback, error report, simulator |
| `CaseTab` | one tab of the web client, with the server reduced to what a tab sees of it |
| `MC*` | small instances and symmetry sets for TLC |
| `WebhookInboxProofs`, `MultaCaseProofs`, `AnalyzeIntakeProofs`, `MultaAnalysisProofs`, `RequestReplayProofs`, `TenantBillingProofs`, `CaseTabProofs`, `EngineProofs` | theorems and proofs; the three refinements are in the first two, what the gateway promises in `RequestReplayProofs`, and what `FraudGraph` and `ProductAnalysis` promise in `EngineProofs` |

Each module carries mutated forms of some of its definitions (a comment
starting "Mutation:" introduces them). They belong to no behaviour of the
specification; a property is worth its run only if such a mutation breaks it.

### WebhookInbox and the code

Every `await` is a boundary between two actions; what runs between two awaits
is one action.

* `HttpFind`, `HttpLookup`, `HttpCreate`, `Enqueue` are the steps of
  `handleStripeWebhook` (`webhook.controller.js:71-132`): the look-up of the
  marker, `persistWebhookInboxFromStripeEvent` with its unique-key recovery,
  the 200, and the `setImmediate` that calls `webhookQueue.enqueue`.
* `StartJob`, `Claim`, `Body`, `MarkProcessed`, `MarkFailed`, `RetryTimer` are
  `#drain` with `processStripeWebhookJob`. `Claim` is the transaction of
  `claimWebhookInboxForProcessing`: it reads the row and, unless the row is
  taken, updates it without a further condition (`SetProcessing`,
  `webhook.persistence.js:91`). It is one action because the transaction is
  serializable (`safeTransaction.js:16`). `AfterFailure` is the catch of
  `#drain`: five attempts, then the dead letter.
* `RecoverReset` and `RecoverList` are `recoverPendingWebhooksFromDb`, run once
  after the process listens; `Age` lets a row pass `STALE_PROCESSING_MS`. The
  query reads `RecoverLimit` rows, oldest first (`Listing`). `leftOut` is a
  history of what the latest boot did not take up: the claims that were too
  young for it (`FreshClaims`) and the rows past its limit (`PastTheLimit`).
* `...Fault` actions are database calls that reject. `MarkProcessedFault` may
  have committed; a failing look-up or claim abandons the item (`ClaimFault`).
  `Crash` empties the memory of a process.
* `effects` abstracts the event's body to the number of times it committed.

### MultaCase and the code

`Analyze`, `Checkout`, `Download` and `Debug` open a request with what it read
(`saw`); `SaveAnalysis`, `CreateLooseSession`, `CreateSession`, `SaveSession`,
`SaveDischarged` and `SaveError` are its later awaits. A worker takes an event
(`Take`) and goes through `FinalizeRead`, `FinalizeWrite`, `Reconcile`,
`Overwrite` or `Expire`. Stripe is external: `Settle` pays, delays, fails or
expires a session and emits the event. `staleWrite` remembers, for the
properties only, the cases a request overwrote in a state it had not read.

The queue is in the model as far as the case depends on it. An event is in
`events` from its receipt to its mark, and in `queued` while it lies in the queue
of some process; `Requeue` puts it there, for Stripe delivers again and a boot
recovers rows, but neither is bound to. A worker that meets a
`StripeWebhookRetryError` (a finalize that finds another session, no Stripe
client, a session that cannot be retrieved) waits and tries again, `MaxAttempts`
times (`TryAgain`, `webhookQueue.js:63-77`); anything else that rejects abandons
the item at once (`WorkerFails`), and a dying process loses its queue
(`WorkerDies`). What was abandoned or lost is in `givenUp`, for the properties.

`Promise` maps the row to `CasePromise`: what a case shows is its state, and
`PAID` alone, which is half of a transaction, maps to nothing a customer may see.

### EventClaims between the two

`MultaCase` starts where `WebhookInbox` ends: `Take` is its claim, and the body
that `WebhookInbox` reduces to a count of effects is `FinalizeRead` and what
follows. Both implement `EventClaims`, with the events that have a row and no
marker as those that wait, and a worker between its claim and the end of its
attempt as a holder. `late` is `aged` in the one and empty in the other:
`MultaCase` leaves out that a boot takes the claim of a stale row away. A worker
of `MultaCase` that waits for its next attempt holds nothing, as in the code,
where the failed row may be claimed by another process meanwhile.

### AnalyzeIntake and the code

`CheckQuota` is `checkAnalyzeQuota`; `Join`, `HasTurn` and `Leave` are
`runWithConcurrencyLock`; `Begin` to `Conflict` are `safeTransaction` around
`resolveAnalyzeInTransaction`; `Count` is `incrementAnalyzeUsageForTenant`.
A transaction reads the snapshot of its first statement. That statement is the
one that waits for the advisory lock, so a row created while it waits is not
seen afterwards: `unseen` holds such rows, `late` every row written since.
A write to a late row, and any transaction others overtook, may be refused
(P2034) and is run again, at most `MAX_RETRIES` times; a create on a taken
unique key is refused (P2002), and since PostgreSQL aborts the transaction the
recovery look-ups of the code reject too. `alone` is true as long as no two
requests were between their check and their count. Anonymous requests reach no
row, and plans without a limit pass the check: both are left out, and so is
`checkFreePlanAnalyzeLimits`, which no route mounts.

### Scoring, MultaAnalysis and the code

`Scoring` keeps the names of the functions it translates. A text the user typed
(country, description) is the sequence of its pieces between colons, and a piece
is known by the phrases the rules look for in it. That is all the rules and the
key need: `fingerprintMulta` joins the fields with colons and escapes none, so
`Fingerprint` is the concatenation of the pieces, and two fines can share it.
The trust weight is in tenths; every number of the
tables is a multiple of 5, for which the code's binary products round alike.
In `MultaAnalysis` one request goes through `Hit` or `Miss` (`analysisCache.get`,
where a read error is a miss), the prompts of `runMultachekPipeline` (`Prompt`,
`PromptFails`, `Evaluate`), its error handler (`Report`, `ReportFails`), the
local rules with the gravity Ollama may give (`ApplyRules`, with the two catches
that run them again if the audit file cannot be written), and `Store`. What the
HTTP handler then shows is `fieldsFromProcessMulta`. The models are external:
their JSON has any values of the fields the code reads. Ending a cache entry
(`Expire`) may happen at any time, which covers the day it lives and evictions.

### SecurityGateway, RequestReplay and the code

A request goes through three middlewares: the two limiters of
`rateLimiterGateway.js`, and `securityGatewayCore`, of which `Arrive` is what
runs before its one await (limits, preflight, block, start of the load of the
rules) and `securityGatewayCore` what runs after it. Which text matches a
pattern is abstracted to how many do (`flags`); a file of rules that cannot be
read leaves only the bounds of shape, for the life of the process (`LoadRules`).
A request that passed and is an analyze then meets the hourly limit and the
orchestrator (`Enter`), the chain of its key (`Turn`), its handler
(`HandlerAnswers`, `HandlerFails`) and the audit line after which the chain
moves on. `offences` and `ran` are histories.

### TenantBilling and the code

`Production` is the set of requests that meet a process whose `NODE_ENV` is
`production`. Anywhere else, also where it is unset, `authenticateJWT` believes the headers `x-dev-user` and
`x-dev-tenant` of a request without a token (`jwt.middleware.js:85-109`), so a
request may be made for any `Identity`.
`Register` and `RegisterCreate` are `auth.service.js` around its hashing and its
transaction; `Login` gives a token if the e-mail is one of that company. A
protected request gets `req.tenant` from the token and the row
(`createCheckoutSession`, `createPortalSession`), a checkout may create the
customer first (`CreateCustomer`, `updateTenantStripeCustomerId`), and the
workers apply subscription events (`Take`, `updateTenantSubscriptionState`,
`GiveBack`), where a completed session asks Stripe for the subscription as it is
then. `Pay` and `Change` are Stripe's. `inOrder` and `alone` are histories that
name the companies whose events were never overtaken and whose checkouts never
overlapped. The routes of tenants and users are mounted nowhere: a company has
one user, its administrator.

### FraudGraph and the code

The engine is a function of a lot; `Ingest` adds a fine of any moment and runs
it again. `Arranged` is the stable order both a sort and a group have:
`sortRecordsByTime` lists a lot in time, `Those` lists a group in the order of
the lot. `Slices` is the sliding start index the four passes share, a window
being the set of its records; `Best` is the first of the largest windows. Each
detector has an operator for its window (`RepeatBest`, `Crossings`, ...) and one
for its signal (`RepeatSignal`, ...). `Warranted` says what each pass looks for
without windows or order. Records are normalized and have distinct ids, as the
engine asks (`FraudAssumption`, with windows not negative and thresholds of 1 or
more); wording and the text of evidence are left out.

### ProductAnalysis and the code

`analyzeMultaV1` is one call: `checkRateLimit` (`Refuse`, `Admit`), then
`runMultaCheck` with what the engine came to (`Outcome`): its own result, which
is worked out by the rules, a throw, nothing, or one of `BrokenResults`, which
stands for an engine that does not keep its contract and against which the code
guards. Fields of such a result may be missing or unknown; of a list the model
keeps how many of its members are written and how many blank, of a text a tag.
`validateAnalysisResult` and `sanitizeProductOutput` put their defaults in,
field by field, as the code does. `given` is a history of what the engine gave.
`env` is the environment: its mode, and the variable that turns the
observability logs on or off, which counts everywhere but in production
(`src/config/env.ts:59-64`).

### CaseTab and the code

A call in flight is a record with the page instance it belongs to (`live`), and
its answer is one action of the server (`Answer`) and one of the tab
(`Arrives`, `SessionArrives`): between them anything may happen. `/` and
`/dashboard` (`Home`) render one component, which React keeps from one to the
other while its recovery effect runs again (`Readdress`), since it depends on
`navigate` (`App.jsx:331`). `crossed` and `wanted` are histories. `Mount`,
`Readdress` and `Navigate` are what React does on a navigation: unmount with
clean-ups (`Cancelled`), mount, run the effects. `Person` is what a person may
do, and only what the page offers then. `StripeReturns` and `OpenAddress` load
a new document, in which nothing of the old one is left.

## 3. Runs

| Run | Instance | Shows |
|---|---|---|
| `inbox_one_process` | 1 process, 2 events, 3 deliveries, 1 crash, 1 fault, a recovery query of 1 row | durability, order of marks, the refinement of `EventDelivery`, and that nothing is forgotten but the claims too young for the boot and the rows past its limit |
| `inbox_two_processes` | 2 processes, 1 event, 2 deliveries, 1 crash or 1 fault | the refinement of `EventClaims`: the claim is exclusive and settled events are not repeated until the row is stale, also when a mark fails or commits with an error; a claim has its worker; if nothing fails every acknowledged event is settled |
| `case_overlaps` | 1 case, 2 sessions, 2 workers with 2 attempts each; 4 requests and delayed payments, or 3 requests and 1 fault; events delivered again | the paid report, what can take it away, the refinement of `CasePromise`, and that who pays at once gets the report, unless a fault made the queue lose the event |
| `case_stale` | 2 sessions, 3 requests | **violation**: a stale write takes a paid report away |
| `intake` | 2 processes, 2 users, 1 content, 1 key, 2 requests, 2 days, 1 fault | count once, quota without overlap, no stopped chain |
| `analysis` | 2 requests, about any of 3 fines that differ in one field, both about any one of 64 fines of two countries, or about 2 fines with one key; every failure | the cache serves no fine the verdict of another unless a country has a colon, every analysis is answered, the score is explained, monotone and coherent |
| `analysis_unscored` | 2 requests, 1 fine | **violation**: the report of the error handler is served, and cached, as an evaluation |
| `fraud` | lots of up to 5 fines from 3 pools, at 5 moments around the edges of the windows | the passes find exactly what there is, in any order; an accusation never calms |
| `product` | one of: 2 callers behind one address and 3 calls; 3 calls with 3 faults of the engine or one of 2 incoherent results, in 3 modes with the log variable unset, on or off; 2 calls of any of 14 bodies with faults or any of 104 results that break the contract | bounds of the limit and waiting as told; bounds of the report, and faults kept in it where the observability logs are off; contract of every answer, its verdict, and the simulator's count, through every default of validation and sanitizing |
| `gateway` | 3 requests, any of 5 that offend or of 5 that may be replayed, 4 units of time | blocks are warranted and offending is bounded; one run per key, own replies |
| `tenant_billing` | 3 requests, 2 of them to a process in production; 2 people and 2 companies, or 1 company with a subscription, 2 workers, 3 versions | own tokens, and own access in production though headers let anyone act as anyone elsewhere; the tier of Stripe; the portal's customer |
| `tab` | 2 accounts, 2 cases, 4 clicks after the first page, or 5 of one who analyzes and goes about home; every call late, failed or lost | late answers show nothing stale, greeted is acting, no page waits for ever |

**Bounds.** Two processes are what a rolling deploy runs. Two events are the
least that share a queue and a recovery list; three deliveries give one event
its redelivery while another waits. `MaxAttempts` is 2 for the code's 5: the
first retry and the dead letter are both reached, and the attempts in between
repeat the first. `RecoverLimit` stands for 100: it is 1, with two events so that one may
be past it. With two processes a behaviour has a crash or a fault, not both; the
theorems have any number of either. Two
sessions and three requests are the least in which a checkout straddles the
payment of an earlier session, and for the payments there is an analysis and two other
requests; the fourth lets a download or a repair straddle
both. In the intake, two requests suffice for a shared
key, a conflict, a race and a midnight. In the analysis, two requests are the
least of which one can meet what the other stored; the two fines with one key
differ in where a colon of the user stands; the fines differ in one
field each so that a key that forgot one would mix them up, and a model score
of 0 is the one a careless test would take for a missing score. Five fines
reach every threshold of the fraud engine (3 repeats, 4 in a spike) and pass it,
and the moments are the edges of its windows and the first past them. In the
product, two calls fill the window, so the third is refused; the bodies cover
every residue the rules tell apart, and the broken results every verdict, known
or not, with every kind of flow, and the other fields broken together. What the
limit and the report do does not depend on the body, nor the limit on what the
engine gives, so a behaviour asks one of the three questions. In the gateway a threshold of 3 is reached
by one, two or three offences, and all windows and lifetimes are short enough to
end within `MaxTime`. Three versions let an event overtake another and be
overtaken. Two attempts of the report page are a poll and a last poll, and four
clicks after the first page let a person pay, come back, change the account and
go elsewhere while calls are out; five are the least for an analysis that is
left, a second one and "Mi cuenta" before its answer. `MaxFaults`, `MaxCrashes`, `MaxCustomers`,
`MaxVersions`, `MaxCalls`, `MaxTime` and `MaxClicks` bound what the environment
does, never what the code does in answer.

**Shape of the instances.** Symmetry is used only in runs without liveness, over
the deliveries, requests, workers and sessions that nothing tells apart; where
a liveness property is checked, `MCMultaCase` takes interchangeable requests in
order instead (`InTurn`), so does `MCWebhookInbox` with deliveries and processes, and `MCCaseTab` fixes whose the first case is.
`MCRequestReplay`, `MCTenantBilling`, `MCMultaCase`, `MCProductAnalysis` and
`MCCaseTab` choose at the start what a behaviour is about (`focus`): in the first
two the halves share the clock, or the rows, and no property relates the one half
to the other; in the others every property is checked of either. Deadlock is not checked because every model
stops when its bounded deliveries, requests or clicks are used up.

**Fairness.** In `WebhookInbox`, callbacks that are pending run, timers fire and
the platform restarts a process that is down; so the steps of each delivery's
handler, of each worker, of each recovery and of each start are weakly fair.
Deliveries, exits, faults and the five minutes of `Age` are not. In `MultaCase`
only the workers are fair: the queue keeps draining while it has items and its
delays end; no user and no bank has to act, and no event has to be delivered
again. `Quiet` adds that deliveries and boots do not go on for ever: each of
them puts an event back in a queue, and a worker that finds it claimed drops it,
so that endless deliveries alone could keep a worker busy with dropping. In `AnalyzeIntake` each request's own step is fair: the
promise it waits for is settled by the runtime or by PostgreSQL. The same holds
in `MultaAnalysis`: ioredis gives up after two retries, the model clients have
timeouts, and every rejection is caught. In `CaseTab` a call is answered or
rejects (the browser ends a connection that is lost; `api.js:23-26` sets no
timeout, only the analysis has one of its own, so a server that keeps a read
open for ever is outside the assumption), what a page does with it runs, and the timer of the poll rings; the
person, the server's webhooks and Stripe owe nothing.

## 4. Where code and text disagree

Two violation runs, each with its counterexample:

1. `case_stale`: checkout and analyze write the state unconditionally, so a
   payment finalized in between is overwritten, which the monitors of
   `multa.opstelemetry.js:83-87` call a critical violation.
2. `analysis_unscored`: when a prompt fails and the error-handler prompt
   answers, its report is returned as if it were an evaluation (the schema in
   `ai/schemas.js` is applied nowhere). The local rules do not run, the user
   gets an empty yellow answer, and the cache keeps it for a day.

Met while modelling, and visible in the models as exceptions their properties
make:

* *Inbox.* A boot queues the 100 oldest pending and failed rows, and rows that
  failed for good stay among them, so a newer acknowledged event may be queued by
  no boot; `PRODUCTION.md:159` says a restart queues them. A row claimed by a process that dies is reset only at a boot more
  than five minutes after *receipt*; a quick restart leaves it in `processing`,
  and a resend is dropped as in flight. When the write of `failed` rejects, the
  error is swallowed and the retry of the same item is refused as in flight.
* *Case.* `checkout.session.async_payment_succeeded` is not handled, so a
  delayed payment that succeeds makes no report. Two paid sessions of one case
  can make two workers replace each other's session; with two attempts or more
  each of two gets through, but two workers and the checkout of a third session
  can use up the attempts of each other, so `PaidIsReported` speaks of cases with
  at most two sessions.
  The comment of `multa.persistence.js:156-158` gives the finalization as
  PAYMENT_PENDING or PAID to DISCHARGE_READY, while the code finalizes from any
  state whose session matches.
* *Intake.* `README.md:15` of the repository says administrators bypass the
  limits, and `checkAnalyzeQuota` looks at no role. `idempotencyKey` is unique
  in the whole table although it is looked up per tenant and user, so a second
  user with the same key is refused at every retry. Requests of a tenant that
  overlap are all checked against the same count, so a day can end above its
  limit.
* *Analysis.* The key of the cache joins free texts with colons and escapes none,
  so two fines, one of a country with a colon, may share it and the second is
  answered with the verdict of the first; `redisCache.js:6` says the key avoids
  collisions. A decision outside the three of the schema is shown as red; a high
  gravity the description does not support lowers the score (by design of the
  trust weight), and a red light may come with the advice to appeal.
* *Gateway.* The "ventana deslizante" of `adaptiveBlock.js:24` is a fixed window
  from the first offence. A rules file that cannot be read at the first request
  disables every pattern for the life of the process. Rows of offences of
  clients that never return are never removed.
* *Orchestrator.* The hash of the body leaves the amount out, so a request that
  differs only there is given the remembered answer. The quota is checked before
  the orchestrator: a retry with its key, after the last analysis of the day, is
  refused and not replayed.
* *Tenancy.* A registration whose answer is lost leaves the company taken: the
  second try is a 409 and only a login gets in. Logout ends no token. Wherever `NODE_ENV` is not
  `production` two headers stand for a token. A company
  may buy two subscriptions, and the end of either makes it free.
* *Fraud graph.* The pass across jurisdictions stops at the first window with a
  second one, so its severity is always 75 and its confidence may fall when
  fines are added; one window with two users accuses every user of the plate;
  keys are unique within a run, so aggregation never merges anything.
* *Product library.* A country without rules is scored by the generic ones and
  then labelled AR; a public user of another country than Argentina sees three
  headings and none of the steps. Where the observability logs are on (in
  development, and in staging when the variable says so) one quality warning
  begets another until the buffer holds nothing else. A verdict that contradicts
  itself and has no step that can be shown is replaced by the coherent fallback
  before the simulator looks, which therefore does not count it.
* *Web client.* A late `fetchMe` or logout removes the token of a newer login or
  greets the old account. "Mi cuenta" runs the recovery again, also while an
  analysis is out: a case that an abandoned analysis has stored is then shown in
  its place, and whichever answer comes last stays. A checkout that is answered late takes the tab to the
  payment from whatever page it shows. Any failure of the recovery, also a
  passing one, forgets the stored case. A customer who is back before the
  webhook is offered to pay again: nothing reads `payment=success` on that page.

## 5. Proofs

All theorems hold for every value of the constants that satisfies the module's
named assumption, so for any number of processes, events, cases, sessions,
requests, crashes and faults.

* `TypeCorrect` (`WebhookInboxProofs`): types, a worker past the look-up has an
  item, a process that is down holds nothing. It is inductive as it stands.
* `EventsAreDurable` rests on `RowInv`: an acknowledged or marked event, an
  event in a queue and one a handler is about to queue has its row.
  `DurableBeforeAck` alone is not inductive: an event is acknowledged again
  because it is marked, and only `RowInv` knows that marked events have rows.
* `ProcessedEventsWereApplied` adds `DoneInv`: a worker that is about to mark
  has committed the body, and marker and status are written together.
* `ClaimsAreExclusive` and `ProcessedEventsAreNotRepeated` rest on `ClaimInv`:
  while a row is not stale, a worker between its claim and its end keeps every
  other claim refused, its event is not marked while the body runs, and no
  other worker is on it.
* `ClaimsHaveOwners`: with `RowInv` and the
  types, `ProcessingHasOwner` is inductive: the step that gives a claim up is
  the one that changes the status, and a boot resets only rows it may.
* `NothingIsForgotten` holds for any `RecoverLimit`. `ClaimsLeft` says what a
  reset leaves behind: a claim without a worker is in `leftOut`. A boot then
  lists every recoverable row but those with `RecoverLimit` older ones
  (`ListingIsComplete`: a list in order that misses a row has `RecoverLimit`
  rows before it), those go to `leftOut`, and what a worker holds either settles
  it, claims it or queues it again behind a timer.
* `OneProcessKeepsPromise`: under the assumption that
  there is at most one process, `WebhookInbox` implements `EventDelivery` with
  `owed` the events that have a row, `applied` the count of effects and `done`
  the markers. `BodyInv` says that the event whose body runs has no marker.
* `FreshRowsKeepPromise` says the same of any number of processes, as long as no
  row goes stale before its body was run (`FreshAtWork`): `BodyInv` then follows
  from `ClaimInv`. Without that hypothesis it is false: a boot resets a stale
  row that another process is working on, and the body is committed again after
  the event is done.
* `InboxKeepsClaims` and `CaseKeepsClaims`: both models implement `EventClaims`,
  the first by `ClaimInv`, whose clauses are the guard of `Claim`; the second by
  its types. A step of a worker moves only its own claims (`OneMoves`).
* `CaseTypeCorrect`, `PaidCasesHaveReport`, `ReportsWerePaid` and
  `ReportsAreLostOnlyByStaleWrites` (`MultaCaseProofs`) rest on `CaseInv`:
  `RequestInv` (what is still true, at its write, of what a request read) and `PaymentInv` (an event that says paid, and a worker that acts on
  one, belong to a paid session of the case). The write that keeps the third is
  argued once: a step either leaves the paid states alone, writes what a paid
  case may become, or is a request that overwrote a state it had not read.
* `CasesKeepPromise`: `MultaCase` implements `CasePromise`. A write of a request
  that finds what it read is a step of the promise or shows nothing, and one that
  does not is `Overwrite`; the transaction of a worker is `Report`; Stripe's
  payment is `Pay`; all else is a stutter. That the abstract case is never half
  written says that no reader ever meets `PAID`.

* `IntakeTypeCorrect` and `QuotaHolds` (`AnalyzeIntakeProofs`): a request is past
  its wait only while it leads its line, which makes the types inductive.
  `QuotaInv` adds that, while no two requests overlapped, at most one is between
  its check and its count, and the count of the day is below the limit as long
  as there is one; a day that has not come yet has counted nothing.
* `RowsAreCountedOnce`: `CountInv` is `CountedOnce` and the finiteness of the
  counts. A count is a pair of a day and a number up to that day's usage, so the
  sum over the days is the size of a set, and each step adds or removes one
  member on each side of the inequality. The rows that are owed a count are
  matched by the requests between their commit and their increment.
* `AccessStaysOwn` and `PortalReaches` (`TenantBillingProofs`) assume only that
  `None` is no row and no event, whichever requests meet production. `Inv` holds the types,
  that what Stripe and its events speak of are companies that registered
  (`EventInv`), and that a token is of the company's own user, and so is a
  request with a context in production, where it has a token (`AccessInv`); rows
  only ever keep their user. `PortalInv` adds, for companies whose checkouts do not
  overlap, that the row has no customer while one is being made, so that nothing
  can have been paid under another when it is written.
* `SettledTiersAreCurrent`: `TierInv` says of a company whose events are taken in
  order that its row converges (`Converging`). Either a snapshot of what Stripe
  has still waits, or it is in hand as the last one, or the row has it and what
  is in hand can only write it again. The third is what `SettledTierIsCurrent`
  says of a settled company; alone it is not inductive, for every change of a
  subscription breaks it until its event is applied. An event carries what
  Stripe had at one of its versions (`Carries`), which makes the last snapshot
  the present state.
* `TracesExplainScores`, `EvidenceNeverLowersAnswers` and `VerdictsAreCoherent`
  (`MultaAnalysisProofs`) hold for any set of countries and amounts. They carry
  lemmas on the rules (`TraceIsAligned`, `EvidenceIsMonotone`,
  `RulesAreCoherent`) over to every answer, cached or not, by `VerdictInv`.
  `ScoreFacts` reduces a score to the points of its tables, and the cases of
  the gravity are left to arithmetic. Monotonicity is not evident from the
  code: the country rules add 10 below 30 and from 70 on, so they are not
  monotone, and it holds only because phrases weigh more than that step.
* `AnalysisTypeCorrect`, and `VerdictsAreOfTheirFine` from `VerdictInv`, which
  says of what was answered, is about to be stored or is in the cache that it is
  the verdict of a fine with that key; it rests on `StepsProposeOutcomes`, which
  says what a step can come up with. That it is a verdict of *this* fine unless
  a country has a colon is `PlainKeysDiffer`: with one piece each for the two
  countries, the key gives the fields back by their positions, however many
  colons the descriptions have. Without that condition it is false.

* `OneRun` and `OwnReplies` (`RequestReplayProofs`) rest on `ReplayInv`. Whoever
  waits or works under a key is in the chain of that key, once, and only its
  first works (`ChainInv`, `MemberInv`); an entry of the store is the reply of a
  run of its key (`StoreInv`); the reply of a run is in the store, or a later
  one of its key is, until its time is over (`FreshInv`); and a handler at work
  began when all earlier replies of its key had expired (`HandlerInv`), which is
  what the second look-up, under the lock, is for. `OneRunPerKey` speaks of runs
  that have ended; `HandlerInv` is what carries it over the run.
* `BlocksAreRight` rests on `GatewayInv`. Offences are kept with their times as a
  history, and the weight of a set of them is the size of a set (`Units`), so
  that it adds up. `RowInv` bounds the counter by what happened since its window
  opened, and `WindowInv` bounds, for every moment, what happened since then by
  the counter and what a closed window may have held: the window of the code is
  fixed from its first offence, so any window meets at most two of them, which
  is why the bound is twice what is below the threshold.
* `ShownWasAsked` and `GreetsTheActing` (`CaseTabProofs`) rest on `TabInv`.
  `RecoveryInv`, `AnalysisInv` and `ReportInv` say of each call that is still
  listened to which page listens and what it shows meanwhile; a page that is
  left makes its calls deaf, but for a recovery, which is replaced by the next
  and therefore is of the case that was set out for last. `AnalysisInv` ends
  where the effect of home runs again under an analysis (`crossed`), which is
  the exemption of the property, and begins again with the next one. `SessionInv` says that
  without an overlap one session call is out at most and is of the stored token.
* `SimulationIsExact`, `FaultsAreNotPushedOut`, `WaitingSufficesAlways` and
  `ProductTypeCorrect` (`EngineProofs`) rest on three invariants that
  do not need each other, except that calls are numbered by their answers.
  `AnswerInv` counts the answers of incoherent results; its lemmas follow a body
  through the engine or a broken result through validation, sanitizing, the cut
  of the flow, the release check and the fallback (`EngineIsSound`,
  `AnswerIsSound`), for any result of the shape `RawResult`. `ReportInv` keeps
  the buffer the suffix of the faults: dropping the first and appending one
  moves the suffix by one (`LastFaultsMove`). `LimitInv` says that while a block
  lasts every call it remembers expires before it does, which holds because a
  block is no shorter than the window (`Block >= Window`, 60 s both in
  `rateLimiter.ts:6-8`); with a shorter block `WaitingIsEnough` is false.
* `SignalsAreExact`, `OrderNeverShows` and `AccusationsNeverCalm` (`EngineProofs`)
  hold for any lot, windows and thresholds, and rest on `FraudInv`: the lot is a
  part of a pool, at any moments, and the report is that of the lot. All else is
  about operators. The record that n others precede takes place n + 1, so a lot
  has one list in time (`SortedAscends`, `AscendingIsUnique`), whatever order it
  came in, and a group is listed in it as it is in the lot (`ThoseAscend`): that
  is `OrderNeverShows`. The start of a sliding window is defined by a recursion on
  positions, which is solved without an induction: a least position where the
  recursion and the first record that is near enough differ leads to a smaller
  one (`StartingIsStarts`). So the window of a record is what lies at most
  `width` before it (`SlicesAreWindows`). A set of records that are close
  together is inside the window of its last (`LastWindowHolds`), and a window is
  itself such a set, so that a largest window is a largest such set
  (`BestIsLargest`) and two records that are close share a window
  (`PassWindows`): each detector finds what `Warranted` asks for
  (`RepeatsExact`, `ChainingExact`, `SpikesExact`, `CollusionExact`).
  `NeverCalmer` then compares what a lot and a larger one warrant and how much
  (`FoundGrows`); for the pass across jurisdictions it holds because the first
  window with a second one has exactly two, one more record at a time.

**Only model-checked.** All liveness (`SettledUnlessHarmed`, `PaidIsReported`,
`Answered`, `EveryRequestIsAnswered`, `WaitingEnds`): it depends on fairness,
which the prover does not handle. Every other property of a passing run is
stated by a theorem. The two properties that expect a violation are false. No
module declares a RECURSIVE operator.

## 6. Not modelled

The text of reports, prompts and explanations; the extraction of facts from text;
which text a pattern of the gateway matches; the signature check of a webhook;
password hashing and token signing; telemetry, audit and analytics rows and the
cost budget, which no decision reads; the circuit breaker and the launch signal,
which only the health report reads; the draft of the form (files, lists of
plates), wording and layout of the web client; routes that are mounted nowhere
(tenants, users, the caps of the free plan); the rule files of the product
library that nothing imports; the scripts and simulators around the program.
What is external (PostgreSQL, Stripe, Redis, the models, React and the Node
runtime) is modelled only from what the code asks of it and receives.

## 7. What could follow

`AnalyzeIntake` and `MultaCase` composed: a key that was used with another body
returns the row of the first, and the analysis of the second is stored in it.
