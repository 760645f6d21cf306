------------------------------ MODULE Scoring ------------------------------
(***************************************************************************)
(* The local rules of the analysis: the points of calculateScore, the      *)
(* trust given to the gravity an AI proposes, the country adjustment, and  *)
(* the verdict drawn from them (risk, inconsistencies, appeal, traffic     *)
(* light), with the trace that explains the points.  Pure functions of the *)
(* normalized fine and of a gravity.                                       *)
(*                                                                         *)
(* A text the user typed is the sequence of its pieces between colons (one *)
(* piece when it has none), because the cache key is joined with colons; a *)
(* piece is known by the phrases the rules find in it.  Every score of the *)
(* tables is a multiple of 5, so the products by 0.3, 0.5 and 1.2 round in *)
(* binary floating point as they do in tenths.                             *)
(***************************************************************************)
EXTENDS Integers, Sequences

CONSTANTS
    Countries,     \* texts given as a country: codes, or anything else
    Amounts,       \* amounts as text, which no local rule reads ("": none)
    Descriptions,  \* texts given as a description
    Mentions       \* the phrases in each piece of a description

Types     == {"estacionamiento", "velocidad", "semaforo", "otros"}
Gravities == {"baja", "media", "alta"}
\* "prohibida", "doble fila", "emergencia"
Phrases   == {"prohibida", "doble_fila", "emergencia"}

ASSUME TextsAssumption ==
    /\ Mentions \in [DOMAIN Mentions -> SUBSET Phrases]
    /\ "" \in DOMAIN Mentions /\ Mentions[""] = {}
    /\ Countries \subseteq Seq(STRING) \ {<<>>}
    /\ Amounts \subseteq STRING
    /\ Descriptions \subseteq Seq(DOMAIN Mentions) \ {<<>>}

Argentina == <<"AR">>

Says(m)      == UNION {Mentions[m.description[i]] : i \in DOMAIN m.description}
Described(m) == m.description # <<"">>

\* What normalizeAnalyzeInput gives to processMulta: a fine of unknown type whose
\* description says "doble fila" has become one of type estacionamiento.
MultaData ==
    {m \in [country : Countries, type : Types, amount : Amounts, description : Descriptions] :
        m.type = "otros" => "doble_fila" \notin Says(m)}

BASE_RULES == [estacionamiento |-> 30, velocidad |-> 50, semaforo |-> 70, otros |-> 20]
GRAVEDAD_BONUS == [baja |-> -10, media |-> 0, alta |-> 20]
Context == [p \in Phrases |-> CASE p = "prohibida"  -> 15
                                [] p = "doble_fila" -> 20
                                [] p = "emergencia" -> 30]

Points(m, p) == IF p \in Says(m) THEN Context[p] ELSE 0
Clamp(x)     == IF x < 0 THEN 0 ELSE IF x > 100 THEN 100 ELSE x

RawScore(m, g) ==
    BASE_RULES[m.type] + GRAVEDAD_BONUS[g]
      + Points(m, "prohibida") + Points(m, "doble_fila") + Points(m, "emergencia")
      + (IF Described(m) THEN 0 ELSE -10)

calculateScore(m, g) == Clamp(RawScore(m, g))

-----------------------------------------------------------------------------
(* buildResultFromAiAnalysis *)

HasStrongEvidence(m) == Says(m) # {}

\* Mutation: what evidence does to a high gravity is swapped.
TrustSwapped(m, g) ==
    IF ~Described(m) THEN 3
    ELSE IF g # "alta" THEN 10
    ELSE IF HasStrongEvidence(m) THEN 5 ELSE 12

\* trustWeight of computeTrustedGravity, in tenths
TrustWeight(m, g) ==
    IF ~Described(m) THEN 3
    ELSE IF g # "alta" THEN 10
    ELSE IF HasStrongEvidence(m) THEN 12 ELSE 5

BaseScore(m, g) == (calculateScore(m, g) * TrustWeight(m, g) + 5) \div 10

\* Mutation: no cap.
CountryRulesUncapped(score, country) ==
    IF country = Argentina /\ (score < 30 \/ score >= 70) THEN score + 10 ELSE score

applyCountryRules(score, country) ==
    IF country # Argentina THEN score
    ELSE IF score < 30 THEN score + 10
    ELSE IF score < 70 THEN score
    ELSE IF score > 90 THEN 100 ELSE score + 10

FinalScore(m, g) == applyCountryRules(BaseScore(m, g), m.country)

classifyRisk(score) ==
    IF score >= 70 THEN "alto" ELSE IF score >= 40 THEN "medio" ELSE "bajo"

detectInconsistencies(m, g) ==
    {i \in {"contradiccion", "posible_exceso", "datos_insuficientes"} :
        CASE i = "contradiccion"       -> g = "baja" /\ "prohibida" \in Says(m)
          [] i = "posible_exceso"      -> g = "alta" /\ "prohibida" \notin Says(m)
          [] i = "datos_insuficientes" -> ~Described(m)}

AppealRecommended(m, g) ==
    \/ detectInconsistencies(m, g) # {}
    \/ FinalScore(m, g) <= 50
    \/ ~Described(m)

TrafficLight(m, g) ==
    LET score == FinalScore(m, g)
    IN  IF score >= 62 THEN "RED"
        ELSE IF \/ AppealRecommended(m, g) /\ score <= 48
                \/ detectInconsistencies(m, g) # {} /\ score <= 55
             THEN "GREEN" ELSE "YELLOW"

-----------------------------------------------------------------------------
(* buildEngineDecisionTrace: the same rules, walked through a second time. *)

TraceBefore(m, g) == BASE_RULES[m.type] + GRAVEDAD_BONUS[g]
TracePhrases(m, g) ==
    TraceBefore(m, g) + Points(m, "prohibida") + Points(m, "doble_fila")
                      + Points(m, "emergencia")

\* Mutation: the trace leaves out the penalty of an empty description.
TraceUnpenalized(m, g) == TracePhrases(m, g)

TraceRaw(m, g) == IF Described(m) THEN TracePhrases(m, g) ELSE TracePhrases(m, g) - 10

\* The delta of each step, in the order of the steps.
TraceDeltas(m, g) ==
    <<BASE_RULES[m.type], GRAVEDAD_BONUS[g],
      Points(m, "prohibida"), Points(m, "doble_fila"), Points(m, "emergencia"),
      TraceRaw(m, g) - TracePhrases(m, g),
      Clamp(TraceRaw(m, g)) - TraceRaw(m, g)>>

Explained(d) == d[1] + d[2] + d[3] + d[4] + d[5] + d[6] + d[7]
=============================================================================
