-------------------------- MODULE SecurityGateway --------------------------
(***************************************************************************)
(* The security edge in front of /api (backend/src/infra/securityGateway), *)
(* with MULTACHECK_SECURITY_GATEWAY=1: two rate limits, the adaptive block *)
(* of a client that offends, the allowlist of routes and the scan of the   *)
(* body.  Times are in units of the windows' greatest common divisor.      *)
(***************************************************************************)
EXTENDS Integers, FiniteSets, TLC

CONSTANTS
  Requests,         \* identities of requests
  Clients,          \* addresses, as clientIp gives them
  Arrivals,         \* what may arrive: a set of records, see ArrivalType
  NoKey,            \* no X-MultaCheck-Gateway-Key, or one that is not listed
  Limit,            \* Limit[tier]: [window, ip, key]
  Threshold, Window, Block,   \* getAdaptiveViolationThreshold and its times
  AllowlistOn,      \* MULTACHECK_GATEWAY_ROUTE_ALLOWLIST=1
  MaxTime           \* bound of the clock

\* flags and shape: how many patterns of the rules file the body matches, and
\* how many bounds of size and depth it exceeds.
EdgeFields == {"client", "apiKey", "method", "probe", "listed", "flags", "shape"}

ASSUME EdgeAssumption ==
  /\ Threshold \in Nat /\ Threshold >= 2
  /\ Window \in Nat /\ Block \in Nat /\ MaxTime \in Nat
  /\ \A a \in Arrivals : /\ EdgeFields \subseteq DOMAIN a
                         /\ a.client \in Clients
                         /\ a.flags \in Nat /\ a.shape \in Nat

VARIABLES
  now,           \* Date.now()
  at,            \* how far each request is
  req,           \* what arrived
  hits,          \* the limiters' stores: tier -> bucket -> [n, resetAt]
  rules,         \* rulesLoadPromise: unread, reading, file or default
  violations,    \* violations: client -> [n, resetAt]
  blockedUntil,  \* blockedUntil, 0 where there is no entry
  offences       \* history: each recording, and whether it set the block

edgeVars == <<now, at, req, hits, rules, violations, blockedUntil, offences>>

NoRow == [n |-> 0, resetAt |-> -1]   \* a row that has ended: now > resetAt
Final == {"limited", "blocked", "unlisted", "rejected", "preflight"}

EdgeInit ==
  /\ now = 1
  /\ at = [r \in Requests |-> "new"]
  /\ req = [r \in Requests |-> CHOOSE a \in Arrivals : TRUE]
  /\ hits = [t \in DOMAIN Limit |-> <<>>]
  /\ rules = "unread"
  /\ violations = [c \in Clients |-> NoRow]
  /\ blockedUntil = [c \in Clients |-> 0]
  /\ offences = {}

-----------------------------------------------------------------------------
(* Rate limits: express-rate-limit counts by fixed windows. *)

gatewayApiKeyBucket(a) == IF a.apiKey = NoKey THEN a.client ELSE a.apiKey
max(t, a) == IF a.apiKey = NoKey THEN Limit[t].ip ELSE Limit[t].key
gatewayRateLimitSkip(a) == a.method = "OPTIONS" \/ a.probe

\* The row of bucket b after one more hit; the store starts a new window when
\* the time of the old one has come.
Hit(t, b) ==
  LET old == IF b \in DOMAIN hits[t] THEN hits[t][b] ELSE NoRow
  IN IF now >= old.resetAt
     THEN [n |-> 1, resetAt |-> now + Limit[t].window]
     ELSE [old EXCEPT !.n = @ + 1]
Counted(t, b) == (b :> Hit(t, b)) @@ hits[t]
Over(t, a) == ~gatewayRateLimitSkip(a) /\ Hit(t, gatewayApiKeyBucket(a)).n > max(t, a)

createGatewayBurstLimiter(a) == Over("burst", a)
createGatewaySustainedLimiter(a) == ~createGatewayBurstLimiter(a) /\ Over("sustained", a)
gatewayRateLimitHandler(r) == at' = [at EXCEPT ![r] = "limited"]

-----------------------------------------------------------------------------
(* The adaptive block. *)

isAdaptivelyBlocked(c) == blockedUntil[c] # 0 /\ now <= blockedUntil[c]

Remember(r, c, count, blocks) ==
  offences' = offences \cup
    {[request |-> r, client |-> c, time |-> now, weight |-> count, blocks |-> blocks]}

\* Mutation: the row of an earlier window is counted on.
RecordWithoutReset(r, c, count) ==
  LET n == violations[c].n + count
  IN /\ Remember(r, c, count, n >= Threshold)
     /\ IF n >= Threshold
        THEN /\ blockedUntil' = [blockedUntil EXCEPT ![c] = now + Block]
             /\ violations' = [violations EXCEPT ![c] = NoRow]
        ELSE /\ violations' = [violations EXCEPT ![c] = [n |-> n, resetAt |-> now + Window]]
             /\ UNCHANGED blockedUntil

recordSecurityViolations(r, c, count) ==
  LET row == IF now > violations[c].resetAt
             THEN [n |-> 0, resetAt |-> now + Window] ELSE violations[c]
      n == row.n + count
  IN /\ Remember(r, c, count, n >= Threshold)
     /\ IF n >= Threshold
        THEN /\ blockedUntil' = [blockedUntil EXCEPT ![c] = now + Block]
             /\ violations' = [violations EXCEPT ![c] = NoRow]
        ELSE /\ violations' = [violations EXCEPT ![c] = [row EXCEPT !.n = n]]
             /\ UNCHANGED blockedUntil

-----------------------------------------------------------------------------
(* A request through the three middlewares.  The only await before the     *)
(* decision is the one of the rules; those of the audit come after it.     *)

To(r, stage) == at' = [at EXCEPT ![r] = stage]

\* isAdaptivelyBlocked also forgets a block that has ended.
TestBlock(r, a) ==
  /\ blockedUntil' = [blockedUntil EXCEPT ![a.client] =
                        IF isAdaptivelyBlocked(a.client) THEN @ ELSE 0]
  /\ IF isAdaptivelyBlocked(a.client)
     THEN To(r, "blocked") /\ UNCHANGED rules
     ELSE To(r, "waiting") /\ rules' = IF rules = "unread" THEN "reading" ELSE rules

Arrive(r, a) ==
  LET b == gatewayApiKeyBucket(a)
      burst == createGatewayBurstLimiter(a)
      sustained == createGatewaySustainedLimiter(a)
  IN /\ at[r] = "new"
     /\ req' = [req EXCEPT ![r] = a]
     /\ hits' = IF gatewayRateLimitSkip(a) THEN hits
                ELSE [hits EXCEPT !["burst"] = Counted("burst", b),
                                  !["sustained"] = IF burst THEN @
                                                   ELSE Counted("sustained", b)]
     /\ \/ /\ burst \/ sustained
           /\ gatewayRateLimitHandler(r)
           /\ UNCHANGED <<rules, blockedUntil>>
        \/ /\ a.method = "OPTIONS"
           /\ To(r, "preflight")
           /\ UNCHANGED <<rules, blockedUntil>>
        \/ /\ a.method # "OPTIONS" /\ ~burst /\ ~sustained
           /\ TestBlock(r, a)
     /\ UNCHANGED <<now, violations, offences>>

\* The file, or the defaults when it cannot be read or parsed; the promise is
\* kept, so one failure decides for the life of the process.
LoadRules ==
  /\ rules = "reading"
  /\ rules' \in {"file", "default"}
  /\ UNCHANGED <<now, at, req, hits, violations, blockedUntil, offences>>

\* The default rules have no patterns, so only the shape of a body counts.
Patterns(a) == IF rules = "file" THEN a.flags ELSE 0
scanJsonBody(a) ==
  IF a.method \in {"POST", "PUT", "PATCH"}
  THEN a.shape + Patterns(a) ELSE 0

securityGatewayCore(r) ==
  LET a == req[r]  flags == scanJsonBody(a)
  IN /\ at[r] = "waiting" /\ rules \in {"file", "default"}
     /\ \/ /\ AllowlistOn /\ ~a.listed
           /\ recordSecurityViolations(r, a.client, 2)
           /\ To(r, "unlisted")
        \/ /\ ~AllowlistOn \/ a.listed
           /\ flags > 0
           /\ recordSecurityViolations(r, a.client, flags)
           /\ To(r, "rejected")
        \/ /\ ~AllowlistOn \/ a.listed
           /\ flags = 0
           /\ To(r, "passed")
           /\ UNCHANGED <<violations, blockedUntil, offences>>
     /\ UNCHANGED <<now, req, hits, rules>>

Tick == /\ now < MaxTime
        /\ now' = now + 1
        /\ UNCHANGED <<at, req, hits, rules, violations, blockedUntil, offences>>

EdgeNext == \/ Tick \/ LoadRules
            \/ \E r \in Requests : (\E a \in Arrivals : Arrive(r, a)) \/ securityGatewayCore(r)

-----------------------------------------------------------------------------
(* Properties *)

\* An offence of weight n stands for n violations.
Units(S) == UNION {{o} \X (1..o.weight) : o \in S}
Weight(S) == Cardinality(Units(S))
Between(c, from, to) == {o \in offences : o.client = c /\ from <= o.time /\ o.time <= to}

\* Nobody is blocked for less than the threshold: what set a block is a
\* threshold of offences of that client in one window that ends when the
\* block was set (adaptiveBlock.js: a row that outlives its window, or a row
\* of another client, would be counted on).
BlockIsWarranted ==
  \A c \in Clients : blockedUntil[c] # 0 =>
    Weight(Between(c, blockedUntil[c] - Block - Window, blockedUntil[c] - Block)) >= Threshold

\* How much a client can offend in any window without setting a block.  The
\* window of the code is fixed from its first offence, so bursts around its
\* end are counted apart, but never more than two windows' worth
\* (adaptiveBlock.js:34: a row that ends too early would let any number pass).
OffencesAreBounded ==
  \A o \in offences :
    LET S == Between(o.client, o.time, o.time + Window)
    IN (\A x \in S : ~x.blocks) => Weight(S) <= 2 * (Threshold - 1)

BlocksMatchOffences == BlockIsWarranted /\ OffencesAreBounded
=============================================================================
