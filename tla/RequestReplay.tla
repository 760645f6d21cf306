--------------------------- MODULE RequestReplay ---------------------------
(***************************************************************************)
(* POST /multa/analyze behind the edge: the hourly limit, and the request  *)
(* orchestrator (infra/requestOrchestrator) that replays the answer of a   *)
(* request with the same Idempotency-Key.  What the handler does is in     *)
(* AnalyzeIntake and MultaAnalysis: here it answers or fails.              *)
(***************************************************************************)
EXTENDS SecurityGateway, Sequences

CONSTANTS
  NoIdempotencyKey,   \* the header is absent, empty or too long
  Ttl,                \* getIdempotencyTtlMs
  None                \* no reply

\* scope: the tenant of the token, or "anonymous"; identity: what
\* canonicalizeAnalyzeBody keeps of the body; rest: what it leaves out.
ReplayFields == {"scope", "key", "identity", "rest"}

ASSUME ReplayAssumption ==
  /\ Ttl \in Nat
  /\ \A a \in Arrivals : ReplayFields \subseteq DOMAIN a
  /\ {None, "error"} \cap Requests = {}

VARIABLES
  store,      \* TtlMemoryStore: composite key -> [run, expiresAt]
  chains,     \* multa.concurrency chains: composite key -> requests, in order
  reply,      \* the request whose handler made the reply, None, or "error"
  ran         \* history: when each handler began and ended, 0 for not yet

replayVars == <<store, chains, reply, ran>>
vars == <<edgeVars, replayVars>>

\* Mutation: the key forgets what was asked.
CompositeOfKeyOnly(a) == <<a.scope, a.key>>
buildCompositeCacheKey(a) == <<a.scope, a.key, a.identity>>
Keyed(r) == req[r].key # NoIdempotencyKey
CompositeKey(r) == buildCompositeCacheKey(req[r])
AllKeys == {buildCompositeCacheKey(a) : a \in Arrivals}

Init == /\ EdgeInit
        /\ store = <<>>
        /\ chains = [k \in AllKeys |-> <<>>]
        /\ reply = [r \in Requests |-> None]
        /\ ran = [r \in Requests |-> [from |-> 0, to |-> 0]]

Cached(k) == k \in DOMAIN store /\ now <= store[k].expiresAt
\* get deletes an entry that has expired, and only then.
Looked(k) == IF k \in DOMAIN store /\ now > store[k].expiresAt
             THEN [x \in DOMAIN store \ {k} |-> store[x]] ELSE store
edgeButAt == <<now, req, rules, violations, blockedUntil, offences>>

Dispatch(r) == /\ To(r, "handling")
               /\ ran' = [ran EXCEPT ![r].from = now]

\* analyzeLimiter counts by user, and these clients have one user each.
analyzeLimiter(a) == Hit("analyze", a.client).n > Limit["analyze"].ip

\* analyzeLimiter, then the orchestrator up to its first await: without a key
\* the handler runs at once; a reply is replayed; otherwise the request joins
\* the chain of its key.  Authentication and quota come before, each awaited.
Enter(r) ==
  LET k == CompositeKey(r)  over == analyzeLimiter(req[r])
  IN /\ at[r] = "passed" /\ req[r].method = "POST"
     /\ hits' = [hits EXCEPT !["analyze"] = Counted("analyze", req[r].client)]
     /\ \/ /\ over
           /\ To(r, "limited")
           /\ UNCHANGED replayVars
        \/ /\ ~over /\ ~Keyed(r)
           /\ Dispatch(r)
           /\ UNCHANGED <<store, chains, reply>>
        \/ /\ ~over /\ Keyed(r) /\ Cached(k)
           /\ reply' = [reply EXCEPT ![r] = store[k].run]
           /\ To(r, "auditing")
           /\ UNCHANGED <<store, chains, ran>>
        \/ /\ ~over /\ Keyed(r) /\ ~Cached(k)
           /\ store' = Looked(k)
           /\ chains' = [chains EXCEPT ![k] = Append(@, r)]
           /\ To(r, "queued")
           /\ UNCHANGED <<reply, ran>>
     /\ UNCHANGED edgeButAt

\* Mutation: the store is not read again under the lock.
TurnWithoutLookup(r) ==
  LET k == CompositeKey(r)
  IN /\ at[r] = "queued" /\ Head(chains[k]) = r
     /\ Dispatch(r)
     /\ UNCHANGED <<reply, store, chains, hits>> /\ UNCHANGED edgeButAt

\* The predecessor has settled, well or not; the store is read once more.
Turn(r) ==
  LET k == CompositeKey(r)
  IN /\ at[r] = "queued" /\ Head(chains[k]) = r
     /\ \/ /\ Cached(k)
           /\ reply' = [reply EXCEPT ![r] = store[k].run]
           /\ To(r, "auditing")
           /\ UNCHANGED <<store, ran>>
        \/ /\ ~Cached(k)
           /\ store' = Looked(k)
           /\ Dispatch(r)
           /\ UNCHANGED reply
     /\ UNCHANGED <<chains, hits>> /\ UNCHANGED edgeButAt

\* The store once the reply of r is set, whatever was there for its key.
Remembering(r) ==
  [k \in {CompositeKey(r)} \cup DOMAIN store |->
     IF k = CompositeKey(r) THEN [run |-> r, expiresAt |-> now + Ttl] ELSE store[k]]

HandlerAnswers(r) ==
  /\ at[r] = "handling"
  /\ reply' = [reply EXCEPT ![r] = r]
  /\ ran' = [ran EXCEPT ![r].to = now]
  /\ \/ /\ Keyed(r)
        /\ store' = Remembering(r)
        /\ To(r, "auditing")
     \/ /\ ~Keyed(r)
        /\ To(r, "answered")
        /\ UNCHANGED store
  /\ UNCHANGED <<chains, hits>> /\ UNCHANGED edgeButAt

\* Nothing is stored; the error is audited and thrown again.
HandlerFails(r) ==
  /\ at[r] = "handling"
  /\ reply' = [reply EXCEPT ![r] = "error"]
  /\ To(r, IF Keyed(r) THEN "auditing" ELSE "answered")
  /\ UNCHANGED <<store, chains, ran, hits>> /\ UNCHANGED edgeButAt

\* A settled run lets the next one go, whether it was fulfilled or rejected; a
\* request answered by the first look-up is in no chain.
Leave(r) == [k \in AllKeys |-> IF chains[k] # <<>> /\ Head(chains[k]) = r
                               THEN Tail(chains[k]) ELSE chains[k]]

\* The audit line never rejects; the request leaves the chain after it.
flushOrchestratorAudit(r) ==
  /\ at[r] = "auditing"
  /\ To(r, "answered")
  /\ chains' = Leave(r)
  /\ UNCHANGED <<store, reply, ran, hits>> /\ UNCHANGED edgeButAt

Step(r) == Enter(r) \/ Turn(r) \/ HandlerAnswers(r) \/ HandlerFails(r) \/ flushOrchestratorAudit(r)

Next == \/ EdgeNext /\ UNCHANGED replayVars
        \/ \E r \in Requests : Step(r)

Spec == Init /\ [][Next]_vars

-----------------------------------------------------------------------------
(* Properties *)

Ran(r) == ran[r].to # 0

\* While a reply is remembered its handler does not run again: of two runs of
\* one key, scope and body, the later begins after the reply of the other has
\* expired, however the requests overlap (httpAnalyzeOrchestrator.js:123-124,
\* the look-up under the lock).
OneRunPerKey ==
  \A r, s \in Requests :
    (r # s /\ Ran(r) /\ Ran(s) /\ Keyed(r) /\ Keyed(s) /\ CompositeKey(r) = CompositeKey(s))
      => ran[r].to + Ttl < ran[s].from \/ ran[s].to + Ttl < ran[r].from

\* A reply is the request's own or that of a request of the same scope that
\* had the same key and asked the same, and had succeeded: never that of
\* another tenant, key or description (httpAnalyzeOrchestrator.js:41-46).
RepliesAreOwn ==
  \A r \in Requests : reply[r] \in Requests =>
    LET s == reply[r]
    IN s = r \/ /\ Ran(s) /\ Keyed(r)
                /\ \A f \in {"scope", "key", "identity"} : req[r][f] = req[s][f]
=============================================================================
