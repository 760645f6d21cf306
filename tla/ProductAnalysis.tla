--------------------------- MODULE ProductAnalysis ---------------------------
(***************************************************************************)
(* The stand-alone product: POST analyze v1 with its own rate limit, the   *)
(* entry point runMultaCheck around the versioned engine, the rules of     *)
(* Argentina and of the other countries, the report of errors it keeps for *)
(* the life of the process, and the report of the simulator.               *)
(*                                                                         *)
(* Texts are tags, and of a list of texts the model keeps how many are     *)
(* written and how many blank.  The calls of a behaviour carry one body;   *)
(* the engine of the code always gives a coherent result, and              *)
(* runMultaCheck guards against one that does not: a few calls meet such   *)
(* an engine.                                                              *)
(***************************************************************************)
EXTENDS Integers, Sequences, FiniteSets

CONSTANTS
    Callers,      \* contexts of calls: [user, session, ip, fingerprint]
    Requests,     \* bodies: [sum, zone, plate, pais, role, intention, notification]
    BrokenResults,\* what an engine may give that does not keep its contract
    None,         \* a missing field
    MaxRequests,  \* MAX_REQUESTS
    Window,       \* WINDOW_MS
    Block,        \* BLOCK_MS
    Capacity,     \* of errorBuffer (200)
    MaxTime,      \* bound: the clock
    MaxCalls,     \* bound: calls served
    MaxFaults     \* bound: engines that do not keep their contract

\* The countries are those whose code the rules can tell apart: BR stands for one
\* without rules.  A role, a profile or a notification of another name is like
\* "guest", the default profile or None.
Roles         == {"public", "enterprise", "admin"}
Countries     == {"AR", "CL", "ES", "CO", "UY", "BR"}
Profiles      == {"administrative_defense_oriented", "sanction_procedure_oriented",
                  "traffic_violation_validation_oriented"}
Notifications == {"notified", "notified_formal", "not_notified"}

Request ==
    [sum : Nat, zone : {"estandar", "sensible"}, plate : {"regular", "irregular"},
     pais : Countries \cup {None}, role : Roles \cup {"guest"},
     intention : Profiles \cup {None}, notification : Notifications \cup {None}]

Severities == {"critical", "high", "medium", "low"}
Riesgos    == {"bajo", "medio", "alto"}
Estados    == {"impugnable", "revisable", "critico"}
Supported  == {"AR", "CL", "ES", "CO", "UY"}

\* A list of texts.
Lists == [written : Nat, blank : Nat]
List(written, blank) == [written |-> written, blank |-> blank]
IsEmpty(l) == l.written + l.blank = 0

\* What an advice is put together from.
Texts == Riesgos \cup Profiles \cup Notifications \cup {"raw", "default", "fallback"}

\* A result, with None for a field that is missing or of another type; a blank
\* recomendacion is empty, and "none" is also a constraint that is no object.
RawResult ==
    [pais : Countries \cup {None}, riesgo : Riesgos \cup {None}, estado : Estados \cup {None},
     recomendacion : Seq(Texts), decisionFlow : Lists \cup {None},
     actionPlan : Lists \cup {None}, constraint : {"none", "manual_required", "malformed"}]

\* The environments, and MULTACHECK_ENABLE_OBSERVABILITY_LOGS.
Environment ==
    [mode : {"development", "staging", "production"}, setting : {"unset", "on", "off"}]

ASSUME ProductAssumption ==
    /\ MaxRequests \in Nat \ {0} /\ Window \in Nat \ {0} /\ Block \in Nat
    /\ Block >= Window
    /\ Capacity \in Nat \ {0, 1}
    /\ MaxTime \in Nat /\ MaxCalls \in Nat /\ MaxFaults \in Nat
    /\ Requests \subseteq Request
    /\ BrokenResults \subseteq RawResult
    /\ None \notin Severities /\ None \notin Lists /\ None \notin RawResult

VARIABLES
    now,
    env,        \* config/env, read when the process starts
    request,    \* what the calls of the behaviour carry
    limiter,    \* store: of each identifier, the calls it was served with
                \* their times, and the end of its block
    comeBack,   \* when the refused callers of an identifier were told to come back
    results,    \* the answers, in order
    given,      \* what the engine gave for each of them
    buffer,     \* errorBuffer, by severity
    reported    \* the severities of all faults of engines so far

vars == <<now, env, request, limiter, comeBack, results, given, buffer, reported>>

\* Mutation: in production too.
LogsAsSet == IF env.setting = "unset" THEN env.mode = "development" ELSE env.setting = "on"

\* Never in production; elsewhere as the variable says, and else in development.
enableObservabilityLogs ==
    /\ env.mode # "production"
    /\ IF env.setting = "unset" THEN env.mode = "development" ELSE env.setting = "on"

-----------------------------------------------------------------------------
(* Who is asking, and how often. *)

buildRateLimitIdentifier(c) ==
    CASE c.user # None    -> c.user
      [] c.session # None -> c.session
      [] c.ip # None      -> c.ip
      [] OTHER            -> c.fingerprint

Identifiers == {buildRateLimitIdentifier(c) : c \in Callers}

\* cleanupOldRequests.  Calls are numbered in the order of their answers.
Recent(k) == {served \in limiter[k].times : now - served.at < Window}

Blocked(k) == limiter[k].blockedUntil > now
Full(k)    == Cardinality(Recent(k)) >= MaxRequests

\* Mutation: a refusal starts the block anew.
RefuseAnew(k) ==
    /\ Blocked(k) \/ Full(k)
    /\ limiter' = [limiter EXCEPT ![k].times = Recent(k), ![k].blockedUntil = now + Block]
    /\ comeBack' = [comeBack EXCEPT ![k] = IF @ > now THEN @ ELSE now + Block]

\* checkRateLimit refuses, and says how long to wait.
Refuse(k) ==
    \/ /\ Blocked(k)
       /\ limiter' = [limiter EXCEPT ![k].times = Recent(k)]
       /\ comeBack' = [comeBack EXCEPT ![k] = limiter[k].blockedUntil]
    \/ /\ ~Blocked(k) /\ Full(k)
       /\ limiter' = [limiter EXCEPT ![k].times = Recent(k), ![k].blockedUntil = now + Block]
       /\ comeBack' = [comeBack EXCEPT ![k] = now + Block]

\* checkRateLimit admits.
Admit(k) ==
    /\ ~Blocked(k) /\ ~Full(k)
    /\ limiter' = [limiter EXCEPT ![k].times = Recent(k) \cup {[at |-> now, call |-> Len(results)]}]
    /\ comeBack' = [comeBack EXCEPT ![k] = 0]

-----------------------------------------------------------------------------
(* The engine. *)

\* sanitizeRequest and validateInput
Sanitized(r) ==
    [r EXCEPT !.role = IF @ \in {"enterprise", "admin"} THEN @ ELSE "public",
              !.pais = IF @ = None THEN "AR" ELSE @,
              !.intention = IF @ = None THEN "administrative_defense_oriented" ELSE @,
              !.notification = IF @ \in Notifications THEN @ ELSE None]

\* The sum of the characters of a country's code.
CodeSum == [AR |-> 147, CL |-> 143, ES |-> 152, CO |-> 146, UY |-> 174, BR |-> 148]
Bar  == 124   \* '|'
Dash == 45    \* '-'

Constraint(r) == IF r.plate = "regular" THEN "none" ELSE "manual_required"

estadoDesdeRiesgo(riesgo) ==
    CASE riesgo = "alto" -> "critico" [] riesgo = "medio" -> "revisable"
      [] OTHER -> "impugnable"

\* What the rules of Argentina take the fine for.
interpretarInfraccion(r) ==
    LET seed == r.sum + 2 * Bar + CodeSum["AR"]
    IN  CASE seed % 3 = 0 -> [tipo |-> "velocidad_excesiva", zona |-> "estandar",
                              exceso |-> IF seed % 4 = 0 THEN 35 ELSE 18]
          [] seed % 3 = 1 -> [tipo |-> "estacionamiento_indebido", zona |-> r.zone, exceso |-> 0]
          [] OTHER -> [tipo |-> "documentacion_faltante", zona |-> "estandar", exceso |-> 0]

determinarRiesgo(i) ==
    CASE i.tipo = "documentacion_faltante"   -> "alto"
      [] i.tipo = "velocidad_excesiva"       -> IF i.exceso >= 25 THEN "alto" ELSE "medio"
      [] i.tipo = "estacionamiento_indebido" -> IF i.zona = "sensible" THEN "medio" ELSE "bajo"

AR_Ruleset(r) ==
    LET riesgo == determinarRiesgo(interpretarInfraccion(r))
        first  == IF r.notification \in {"notified_formal", "not_notified"}
                  THEN <<r.notification>> ELSE <<>>
    IN  [pais |-> "AR", riesgo |-> riesgo, estado |-> estadoDesdeRiesgo(riesgo),
         recomendacion |-> <<riesgo>> \o first,
         decisionFlow |-> List(3, 0), actionPlan |-> List(3 + Len(first), 0),
         constraint |-> Constraint(r)]

riesgoDesdeScore(score) ==
    CASE score >= 7 -> "alto" [] score >= 4 -> "medio" [] OTHER -> "bajo"

\* adaptarRecomendacionPorIntencion and PorNotificacion: two profiles drop the
\* text of the risk.
Advice(riesgo, r) ==
    (IF r.intention \in {"sanction_procedure_oriented", "traffic_violation_validation_oriented"}
     THEN <<r.intention>> ELSE <<r.intention, riesgo>>)
    \o (IF r.notification = None THEN <<>> ELSE <<r.notification>>)

GenericRules(r) ==
    LET score  == (r.sum + 2 * Dash + CodeSum[r.pais]) % 10
        riesgo == riesgoDesdeScore(score)
        estado == estadoDesdeRiesgo(riesgo)
    IN  [pais |-> r.pais, riesgo |-> riesgo, estado |-> estado,
         recomendacion |-> Advice(riesgo, r),
         decisionFlow |-> List(6, 0),
         actionPlan |-> List(IF r.notification = None THEN 4 ELSE 5, 0),
         constraint |-> Constraint(r)]

buildSafeDecisionFlow == List(3, 0)
buildSafeActionPlan(riesgo) == List(IF riesgo = "alto" THEN 3 ELSE 2, 0)

\* What is missing or unknown gets its default.  An empty list is kept but for a
\* critical case or a high risk; a country without rules of its own is scored and
\* then called AR.
validateAnalysisResult(x) ==
    LET riesgo == IF x.riesgo \in Riesgos THEN x.riesgo ELSE "medio"
        estado == IF x.estado \in Estados THEN x.estado ELSE "revisable"
        Usable(l, needed) == l \in Lists /\ (needed => ~IsEmpty(l))
    IN  [pais |-> IF x.pais \in Supported THEN x.pais ELSE "AR",
         riesgo |-> riesgo, estado |-> estado,
         recomendacion |-> IF x.recomendacion # <<>> THEN x.recomendacion ELSE <<"default">>,
         decisionFlow |-> IF Usable(x.decisionFlow, estado = "critico")
                          THEN x.decisionFlow ELSE buildSafeDecisionFlow,
         actionPlan |-> IF Usable(x.actionPlan, riesgo = "alto")
                        THEN x.actionPlan ELSE buildSafeActionPlan(riesgo),
         constraint |-> x.constraint]

generateResultadoAnalisis(r) ==
    validateAnalysisResult(IF r.pais = "AR" THEN AR_Ruleset(r) ELSE GenericRules(r))

-----------------------------------------------------------------------------
(* The product around the engine. *)

buildSafeFallbackOutput ==
    [pais |-> "AR", riesgo |-> "medio", estado |-> "revisable",
     recomendacion |-> <<"fallback">>, decisionFlow |-> List(3, 0),
     actionPlan |-> List(1, 0), constraint |-> "none"]

\* slice(0, n) of the steps that are written
FirstSteps(flow, n) == List(IF n < flow.written THEN n ELSE flow.written, 0)

\* Mutation: it does not know the status "critico".
SanitizeUncritical(x, role) ==
    [x EXCEPT !.decisionFlow = FirstSteps(@, IF role = "public" THEN 3 ELSE 10),
              !.actionPlan = IF @.written > 0 THEN @ ELSE List(1, 0),
              !.estado = IF @ \in {"revisable", "impugnable"} THEN @ ELSE "revisable"]

\* normalizeProductOutput and sanitizeProductOutput: the defaults once more, no
\* blank steps, and three steps for the public; the plan becomes one text.
sanitizeProductOutput(x, role) ==
    [pais |-> IF x.pais \in Countries THEN x.pais ELSE "AR",
     riesgo |-> IF x.riesgo \in Riesgos THEN x.riesgo ELSE "medio",
     estado |-> IF x.estado \in Estados THEN x.estado ELSE "revisable",
     recomendacion |-> IF x.recomendacion # <<>> THEN x.recomendacion ELSE <<"default">>,
     decisionFlow |-> FirstSteps(x.decisionFlow, IF role = "public" THEN 3 ELSE 10),
     actionPlan |-> IF x.actionPlan.written > 0 THEN x.actionPlan ELSE List(1, 0),
     constraint |-> x.constraint]

\* What the contract of the API lets out.
Releasable(x) ==
    /\ x.pais \in Supported /\ x.riesgo \in Riesgos /\ x.estado \in Estados
    /\ x.decisionFlow.written \in 1..10 /\ x.decisionFlow.blank = 0
    /\ x.recomendacion # <<>> /\ x.actionPlan.written > 0
    /\ x.constraint \in {"none", "manual_required"}

\* Mutation: it is not checked.
ReleaseUnchecked(x) == x

releaseReadinessCheck(x) == IF Releasable(x) THEN x ELSE buildSafeFallbackOutput

\* What an engine may come to, and the result it gives, if any.
Outcome == {"result", "throws", "nothing", "broken"}

Raw(outcome, r) ==
    CASE outcome = "result" -> {generateResultadoAnalisis(r)}
      [] outcome = "broken" -> BrokenResults
      [] OTHER -> {None}

\* classifyAnalysisError, of the stages engine, validation and consistency: the
\* severity a result is reported with, if any.
Severity(outcome, x) ==
    CASE outcome = "throws"  -> "critical"
      [] outcome = "nothing" -> "medium"
      [] OTHER -> LET v == validateAnalysisResult(x)
                  IN  IF v.riesgo = "alto" /\ v.estado # "critico" THEN "medium" ELSE None

Incoherent(x) == x.estado # estadoDesdeRiesgo(x.riesgo)

Answered(outcome, x, role) ==
    IF outcome \in {"throws", "nothing"} THEN buildSafeFallbackOutput
    ELSE releaseReadinessCheck(sanitizeProductOutput(validateAnalysisResult(x), role))

\* Mutation: without the limit.
RegisterUnbounded(b, severity) == Append(b, severity)

registerAnalysisError(b, severity) ==
    IF Len(b) >= Capacity THEN Append(Tail(b), severity) ELSE Append(b, severity)

\* At the end of a run: one warning begets another, where logs are on.
QualityWarning(b) ==
    IF enableObservabilityLogs /\ \E i \in DOMAIN b : b[i] \in {"low", "medium"}
    THEN registerAnalysisError(b, "low") ELSE b

\* runMultaCheck.  Strict or not, a result that does not validate ends in the
\* fallback: strict throws, and what is not strict trips over the next line.
RunMultaCheck(r, outcome, x) ==
    LET severity == Severity(outcome, x)
        logged   == IF severity = None THEN buffer ELSE registerAnalysisError(buffer, severity)
    IN  /\ results' = Append(results, Answered(outcome, x, r.role))
        /\ given' = Append(given, [outcome |-> outcome, raw |-> x])
        /\ buffer' = QualityWarning(logged)
        /\ reported' = IF severity = None THEN reported ELSE Append(reported, severity)

-----------------------------------------------------------------------------
Init ==
    /\ now = 0
    /\ env \in Environment
    /\ request \in Requests
    /\ limiter = [k \in Identifiers |-> [times |-> {}, blockedUntil |-> 0]]
    /\ comeBack = [k \in Identifiers |-> 0]
    /\ results = <<>>
    /\ given = <<>>
    /\ buffer = <<>>
    /\ reported = <<>>

Faults == Cardinality({i \in DOMAIN given : given[i].outcome # "result"})

\* analyzeMultaV1: refused ...
TurnAway(c) ==
    /\ Refuse(buildRateLimitIdentifier(c))
    /\ UNCHANGED <<now, env, request, results, given, buffer, reported>>

\* ... or served.
analyzeMultaV1(c) ==
    /\ Len(results) < MaxCalls
    /\ Admit(buildRateLimitIdentifier(c))
    /\ \E outcome \in Outcome, r \in {Sanitized(request)} :
          /\ outcome # "result" => Faults < MaxFaults
          /\ \E x \in Raw(outcome, r) : RunMultaCheck(r, outcome, x)
    /\ UNCHANGED <<now, env, request>>

Tick ==
    /\ now < MaxTime
    /\ now' = now + 1
    /\ UNCHANGED <<env, request, limiter, comeBack, results, given, buffer, reported>>

Next == Tick \/ \E c \in Callers : TurnAway(c) \/ analyzeMultaV1(c)

Spec == Init /\ [][Next]_vars

-----------------------------------------------------------------------------
\* generateSimulationReport, of the results so far
generateSimulationReport ==
    [totalCasos |-> Len(results),
     validos |-> Cardinality({i \in DOMAIN results :
                    /\ results[i].recomendacion # <<>> /\ ~IsEmpty(results[i].actionPlan)
                    /\ ~IsEmpty(results[i].decisionFlow)}),
     fallosCoherencia |-> Cardinality({i \in DOMAIN results : Incoherent(results[i])})]

\* TypeOK, and every answer keeps the contract of the API, whatever the engine did.
TypeOK ==
    /\ now \in 0..MaxTime
    /\ \A k \in Identifiers : Cardinality(limiter[k].times) <= MaxRequests
    /\ Len(buffer) <= Capacity
    /\ \A i \in DOMAIN results : Releasable(results[i])

\* The risk and the status of a result, read with their defaults.
Verdict(x) ==
    [riesgo |-> IF x.riesgo \in Riesgos THEN x.riesgo ELSE "medio",
     estado |-> IF x.estado \in Estados THEN x.estado ELSE "revisable"]

\* Something to do, or a flow that is put in the place of what is missing.
Presentable(x) ==
    /\ x # None /\ x.constraint # "malformed"
    /\ \/ x.decisionFlow = None
       \/ x.decisionFlow.written > 0
       \/ IsEmpty(x.decisionFlow) /\ x.estado = "critico"

\* SimulationSeesFaults: an answer has the verdict the engine gave, unless its result could not
\* be presented, and then it is the whole of the safe fallback; so the report of
\* the simulator counts the presentable results that were incoherent, no other and
\* none of those the fallback stands for.  What the engine of the code gives is
\* presentable and coherent.
SimulationSeesFaults ==
    /\ \A i \in DOMAIN results :
          IF Presentable(given[i].raw)
          THEN [riesgo |-> results[i].riesgo, estado |-> results[i].estado] = Verdict(given[i].raw)
          ELSE results[i] = buildSafeFallbackOutput
    /\ \A i \in DOMAIN given :
          given[i].outcome = "result" =>
              Presentable(given[i].raw) /\ ~Incoherent(Verdict(given[i].raw))
    /\ generateSimulationReport.fallosCoherencia =
          Cardinality({i \in DOMAIN given :
              Presentable(given[i].raw) /\ Incoherent(Verdict(given[i].raw))})
    /\ generateSimulationReport.validos = generateSimulationReport.totalCasos

\* WaitingIsEnough: a caller who was refused and comes back when he was told to is served,
\* unless others of his identifier were served meanwhile.
WaitingIsEnough ==
    \A k \in Identifiers :
        comeBack[k] # 0 /\ now >= comeBack[k] => ~Blocked(k) /\ ~Full(k)

\* FaultsStayReported: in production, and wherever the observability logs are off, a fault of
\* the engine stays in the report until Capacity others have come: warnings do not
\* push it out.
FaultsStayReported ==
    env.mode = "production" \/ ~enableObservabilityLogs =>
        LET n == Len(reported)
        IN  buffer = SubSeq(reported, IF n > Capacity THEN n - Capacity + 1 ELSE 1, n)
=============================================================================
