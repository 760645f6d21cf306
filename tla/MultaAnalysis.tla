--------------------------- MODULE MultaAnalysis ---------------------------
(***************************************************************************)
(* processMulta, the analysis behind POST /multa/analyze: the cache shared *)
(* by all users and processes, the three prompts of the OpenAI pipeline    *)
(* with its error handler, the local rules with the gravity an Ollama      *)
(* model may propose, and what the handler reads out of the result.        *)
(*                                                                         *)
(* One action runs from an await to the next.  The models and Redis are    *)
(* external: each call may answer anything of its kind or fail.            *)
(***************************************************************************)
EXTENDS Scoring

CONSTANTS
    Requests,      \* analyses in flight
    Batches,       \* the normalized fines they may be about, together
    ModelScores,   \* final_score values the pipeline may return (a sample of 0..100)
    HasRedis,      \* REDIS_URL is set
    HasOpenAi,     \* OPENAI_API_KEY is set and dist/ai is built
    AuditOn        \* MULTACHECK_SCORING_TRACE=1: the rules append to a file

ASSUME BatchesAssumption == Batches \subseteq [Requests -> MultaData]
ASSUME SwitchesAssumption ==
    /\ ModelScores \subseteq 0..100
    /\ HasRedis \in BOOLEAN /\ HasOpenAi \in BOOLEAN /\ AuditOn \in BOOLEAN

VARIABLES
    at,        \* the await each request is in
    content,   \* its multaData
    out,       \* the result it is about to store or has returned
    cache      \* analysisCache in Redis, by fingerprint

vars == <<at, content, out, cache>>

Awaits == {"idle", "lookup", "signals", "normalization", "rules", "handler",
           "gravity", "store", "done"}

NoScore == -1

\* The JSON object the pipeline returns: schemas.js declares its shape, and
\* nothing applies it.
Decisions    == {"invalid_fine", "questionable", "likely_valid_fine", "other"}
Reply        == [score : ModelScores \cup {NoScore}, decision : Decisions, listed : BOOLEAN]
\* What the prompt of the error handler asks for: no score and no decision.
ErrorReport  == [score |-> NoScore, decision |-> "other", listed |-> TRUE]

Result  == [by : {"nothing", "rules", "model", "failure"},
            light : {"GREEN", "YELLOW", "RED"}, score : Int]
Nothing == [by |-> "nothing", light |-> "YELLOW", score |-> NoScore]
Failure == [by |-> "failure", light |-> "YELLOW", score |-> NoScore]

ByRules(m, g) == [by |-> "rules", light |-> TrafficLight(m, g), score |-> FinalScore(m, g)]

convertAIFormat(reply) ==
    [by    |-> "model",
     light |-> CASE reply.decision = "invalid_fine" -> "GREEN"
                 [] reply.decision = "questionable" -> "YELLOW"
                 [] OTHER -> "RED",
     score |-> reply.score]

\* What the handler shows the user and writes to the row.
fieldsFromProcessMulta(result) ==
    IF result.by = "rules" \/ (result.by = "model" /\ result.score # NoScore)
    THEN [light |-> result.light, score |-> result.score]
    ELSE [light |-> "YELLOW", score |-> NoScore]

\* Mutation: the key leaves out the description.
KeyWithoutDescription(m) == m.country \o <<m.type, m.amount>>

Contents == {batch[r] : batch \in Batches, r \in Requests}

\* The key of AnalysisCache: the four fields joined with colons, which are not
\* escaped and which a country and a description may contain.
Fingerprint(m) == m.country \o <<m.type, m.amount>> \o m.description
Keys == {Fingerprint(m) : m \in Contents}
Key(r) == Fingerprint(content[r])

Init ==
    /\ at = [r \in Requests |-> "idle"]
    /\ content \in Batches
    /\ out = [r \in Requests |-> Nothing]
    /\ cache = [k \in Keys |-> Nothing]

Go(r, await) == at' = [at EXCEPT ![r] = await]

-----------------------------------------------------------------------------
Begin(r) == at[r] = "idle" /\ Go(r, "lookup") /\ UNCHANGED <<content, out, cache>>

Hit(r) ==
    /\ at[r] = "lookup"
    /\ HasRedis /\ cache[Key(r)] # Nothing
    /\ out' = [out EXCEPT ![r] = cache[Key(r)]]
    /\ Go(r, "done")
    /\ UNCHANGED <<content, cache>>

\* no entry, no Redis, or a read error
Miss(r) ==
    /\ at[r] = "lookup"
    /\ Go(r, IF HasOpenAi THEN "signals" ELSE "gravity")
    /\ UNCHANGED <<content, out, cache>>

AfterPrompt(await) == IF await = "signals" THEN "normalization" ELSE "rules"

Prompt(r) ==
    /\ at[r] \in {"signals", "normalization"}
    /\ Go(r, AfterPrompt(at[r]))
    /\ UNCHANGED <<content, out, cache>>

\* Mutation: a prompt that fails is sent again, without a bound.
PromptRetries(r) == /\ at[r] \in {"signals", "normalization", "rules"}
                    /\ Go(r, "signals")
                    /\ UNCHANGED <<content, out, cache>>

\* A prompt rejects, or its answer is no JSON object: the error handler is asked.
PromptFails(r) ==
    /\ at[r] \in {"signals", "normalization", "rules"}
    /\ Go(r, "handler")
    /\ UNCHANGED <<content, out, cache>>

\* Mutation: failures are cached as well.
ShouldCacheAll(result) == TRUE

shouldCacheAnalysisResult(result) == result.by # "failure"

\* The result is known: it is stored if it should be, and returned.
Propose(r, result) ==
    /\ out' = [out EXCEPT ![r] = result]
    /\ Go(r, IF shouldCacheAnalysisResult(result) THEN "store" ELSE "done")
    /\ UNCHANGED <<content, cache>>

\* The last resort of processMulta; only the audit record can make it throw.
LastResort(m) == {ByRules(m, "media")} \cup (IF AuditOn THEN {Failure} ELSE {})

\* The pipeline resolved.  explanation.join throws on what is not a list, and
\* the outer catch falls back to the rules with gravity "media".
Convert(r, reply) ==
    \/ reply.listed /\ Propose(r, convertAIFormat(reply))
    \/ ~reply.listed /\ \E result \in LastResort(content[r]) : Propose(r, result)

Evaluate(r) == at[r] = "rules" /\ \E reply \in Reply : Convert(r, reply)

Report(r) == at[r] = "handler" /\ Convert(r, ErrorReport)

\* The error handler fails too: analyzeWithAI catches it and returns null.
ReportFails(r) ==
    /\ at[r] = "handler"
    /\ Go(r, "gravity")
    /\ UNCHANGED <<content, out, cache>>

\* Ollama proposes a gravity ("media" when it fails or answers anything else),
\* and the rules apply; if the audit record throws they are run again, with
\* "media", by the inner and then by the outer catch.
ApplyRules(r) ==
    /\ at[r] = "gravity"
    /\ \E g \in Gravities :
          \/ Propose(r, ByRules(content[r], g))
          \/ AuditOn /\ \E result \in LastResort(content[r]) : Propose(r, result)

\* setex of what is not a failure; a write error is logged and forgotten.
Store(r) ==
    /\ at[r] = "store"
    /\ Go(r, "done")
    /\ \/ HasRedis /\ cache' = [cache EXCEPT ![Key(r)] = out[r]]
       \/ UNCHANGED cache
    /\ UNCHANGED <<content, out>>

\* The 86400 seconds of an entry are over, or Redis evicts it.
Expire(k) ==
    /\ cache[k] # Nothing
    /\ cache' = [cache EXCEPT ![k] = Nothing]
    /\ UNCHANGED <<at, content, out>>

Step(r) == \/ Hit(r) \/ Miss(r) \/ Prompt(r) \/ PromptFails(r) \/ Evaluate(r)
           \/ Report(r) \/ ReportFails(r) \/ ApplyRules(r) \/ Store(r)

Next == \/ \E r \in Requests : Begin(r) \/ Step(r)
        \/ \E k \in Keys : Expire(k)

Spec == Init /\ [][Next]_vars

\* Every external call of the path ends: ioredis gives up after two retries,
\* the OpenAI client and axios have timeouts, and each rejection is caught.
FairSpec == Spec /\ \A r \in Requests : WF_vars(Step(r))

-----------------------------------------------------------------------------
\* n is the fine m with a description that says at least as much.
SaysMore(n, m) ==
    /\ n.country = m.country /\ n.type = m.type /\ n.amount = m.amount
    /\ Described(m) => Described(n)
    /\ Says(m) \subseteq Says(n)

\* The result r holds is what the rules give, with gravity g, to the fine of q,
\* which has the same key.
IsVerdictOf(r, q, g) == out[r] = ByRules(content[q], g) /\ Key(q) = Key(r)

HasColon(text) == Len(text) > 1

\* Types, and what the position of a request says of its result: one that is
\* storing holds something worth storing, one that has answered holds an answer.
TypeOK ==
    /\ at \in [Requests -> Awaits]
    /\ content \in [Requests -> Contents]
    /\ out \in [Requests -> Result]
    /\ cache \in [Keys -> Result]
    /\ \A r \in Requests : at[r] = "store" => out[r].by \in {"rules", "model"}
    /\ \A r \in Requests : at[r] = "done" => out[r] # Nothing
    /\ \A k \in Keys : cache[k].by # "failure"

\* A verdict of the rules is one they give to this very fine, whoever worked it
\* out, for whom, in which process, and however long ago.  The one way to get the
\* verdict of another fine is a country with a colon in it: the keys of two
\* fines whose countries have none are different, whatever their descriptions.
VerdictIsOfThisFine ==
    \A r \in Requests : (at[r] = "done" /\ out[r].by = "rules") =>
        \E q \in Requests, g \in Gravities :
            /\ IsVerdictOf(r, q, g)
            /\ \/ content[q] = content[r]
               \/ HasColon(content[q].country) \/ HasColon(content[r].country)

\* What the audit trail of an analysis says is how its score came about: the
\* deltas of the trace add up to the score calculateScore gave, although the two
\* are written separately (decisionTrace.js:3, "debe mantenerse alineado").
TraceExplainsScore ==
    \A r \in Requests, g \in Gravities :
        Explained(TraceDeltas(content[r], g)) = calculateScore(content[r], g)

\* Had the description said more, the score would be no lower: neither the trust
\* weights nor the steps of the country rules (+10 below 30, +10 from 70, a cap)
\* turn evidence around, in a verdict of today or of the cache.
EvidenceNeverLowers ==
    \A r \in Requests : (at[r] = "done" /\ out[r].by = "rules") =>
        \E q \in Requests, g \in Gravities :
            /\ IsVerdictOf(r, q, g)
            /\ \A n \in MultaData :
                  SaysMore(n, content[q]) => out[r].score <= FinalScore(n, g)

\* What an answer shows does not contradict itself: a high risk is red, a red
\* light is no low risk, a green light comes with the advice to appeal, and a
\* verdict on a fine of Argentina is in 0..100 after the weights and the surcharge.
VerdictIsCoherent ==
    \A r \in Requests : out[r].by = "rules" =>
        \E q \in Requests, g \in Gravities :
            LET risk == classifyRisk(out[r].score)
            IN  /\ IsVerdictOf(r, q, g)
                /\ risk = "alto" => out[r].light = "RED"
                /\ out[r].light = "RED" => risk # "bajo"
                /\ out[r].light = "GREEN" => AppealRecommended(content[q], g)
                /\ content[q].country = Argentina => out[r].score \in 0..100

\* A request that has begun is answered, whichever of Redis, OpenAI, Ollama and
\* the audit file fail on its way.
EveryRequestIsAnswered == \A r \in Requests : at[r] = "lookup" ~> at[r] = "done"

\* "IA es opcional; reglas locales siempre aplican" (multaservice.js:272): where
\* the model gives no score the rules do, so no answer is without one.
EveryAnswerIsScored ==
    \A r \in Requests :
        at[r] = "done" => fieldsFromProcessMulta(out[r]).score # NoScore

=============================================================================
