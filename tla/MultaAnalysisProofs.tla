------------------------ MODULE MultaAnalysisProofs ------------------------
(* Theorems about Scoring, for all countries, amounts and descriptions, and *)
(* about MultaAnalysis, for all requests and fines.                         *)
EXTENDS MultaAnalysis, SequenceTheorems, TLAPS

-----------------------------------------------------------------------------
(* The points. *)

LEMMA PointsValues ==
    ASSUME NEW m \in MultaData
    PROVE  /\ Points(m, "prohibida")  = IF "prohibida" \in Says(m) THEN 15 ELSE 0
           /\ Points(m, "doble_fila") = IF "doble_fila" \in Says(m) THEN 20 ELSE 0
           /\ Points(m, "emergencia") = IF "emergencia" \in Says(m) THEN 30 ELSE 0
  BY DEF Points, Context, Phrases

LEMMA OnePiece == ASSUME NEW x, NEW text, text = <<x>> PROVE \A i \in DOMAIN text : text[i] = x
  <1>1. DOMAIN text = {1} /\ text[1] = x
    OBVIOUS
  <1> QED
    BY <1>1

LEMMA FineFields ==
    ASSUME NEW m \in MultaData
    PROVE  /\ m.type \in Types /\ Described(m) \in BOOLEAN /\ m.country \in Countries
           /\ Says(m) \subseteq Phrases
           /\ Says(m) # {} => Described(m)
  <1>1. /\ m.type \in Types /\ m.country \in Countries
        /\ m.description \in Seq(DOMAIN Mentions)
    BY TextsAssumption DEF MultaData
  <1>2. \A i \in DOMAIN m.description : m.description[i] \in DOMAIN Mentions
    BY <1>1
  <1>3. Says(m) \subseteq Phrases
    BY <1>2, TextsAssumption DEF Says
  <1>4. ASSUME ~Described(m) PROVE Says(m) = {}
    <2>1. m.description = <<"">>
      BY <1>4 DEF Described
    <2>2. \A i \in DOMAIN m.description : m.description[i] = ""
      BY <2>1, OnePiece
    <2> QED
      BY <2>2, TextsAssumption DEF Says
  <1> QED
    BY <1>1, <1>3, <1>4 DEF Described

LEMMA TableValues ==
    /\ BASE_RULES["estacionamiento"] = 30
    /\ BASE_RULES["velocidad"] = 50
    /\ BASE_RULES["semaforo"] = 70
    /\ BASE_RULES["otros"] = 20
    /\ GRAVEDAD_BONUS["baja"] = -10
    /\ GRAVEDAD_BONUS["media"] = 0
    /\ GRAVEDAD_BONUS["alta"] = 20
  BY DEF BASE_RULES, GRAVEDAD_BONUS

LEMMA TableIntegers ==
    /\ \A t \in Types : BASE_RULES[t] \in Int
    /\ \A g \in Gravities : GRAVEDAD_BONUS[g] \in Int
  BY TableValues DEF Types, Gravities

\* The trace adds up to the score, for every fine and gravity.
LEMMA TraceIsAligned ==
    ASSUME NEW m \in MultaData, NEW g \in Gravities
    PROVE  Explained(TraceDeltas(m, g)) = calculateScore(m, g)
  <1>1. /\ BASE_RULES[m.type] \in Int /\ GRAVEDAD_BONUS[g] \in Int
        /\ Described(m) \in BOOLEAN
    BY FineFields, TableIntegers
  <1>2. /\ Points(m, "prohibida") \in Int /\ Points(m, "doble_fila") \in Int
        /\ Points(m, "emergencia") \in Int
    BY PointsValues
  <1>3. TracePhrases(m, g) \in Int
    BY <1>1, <1>2 DEF TracePhrases, TraceBefore
  <1>4. TraceRaw(m, g) = RawScore(m, g)
    BY <1>1, <1>2 DEF TraceRaw, TracePhrases, TraceBefore, RawScore
  <1>5. TraceRaw(m, g) \in Int
    BY <1>1, <1>3 DEF TraceRaw
  <1>6. Clamp(TraceRaw(m, g)) \in Int
    BY <1>5 DEF Clamp
  <1>7. Explained(TraceDeltas(m, g)) =
            TracePhrases(m, g) + (TraceRaw(m, g) - TracePhrases(m, g))
                               + (Clamp(TraceRaw(m, g)) - TraceRaw(m, g))
    BY <1>1, <1>2, <1>3, <1>5, <1>6 DEF Explained, TraceDeltas, TracePhrases, TraceBefore
  <1> QED
    BY <1>3, <1>4, <1>5, <1>6, <1>7 DEF calculateScore

-----------------------------------------------------------------------------
(* The verdict. *)

\* The score of a described fine, and of one without description, from the
\* points of its type, its gravity and its phrases.
LEMMA ScoreFacts ==
    ASSUME NEW m \in MultaData, NEW g \in Gravities
    PROVE  /\ RawScore(m, g) = BASE_RULES[m.type] + GRAVEDAD_BONUS[g]
                + (IF "prohibida" \in Says(m) THEN 15 ELSE 0)
                + (IF "doble_fila" \in Says(m) THEN 20 ELSE 0)
                + (IF "emergencia" \in Says(m) THEN 30 ELSE 0)
                + (IF Described(m) THEN 0 ELSE -10)
           /\ BASE_RULES[m.type] \in {20, 30, 50, 70}
           /\ GRAVEDAD_BONUS[g] = IF g = "baja" THEN -10 ELSE IF g = "media" THEN 0 ELSE 20
           /\ HasStrongEvidence(m) <=>
                "prohibida" \in Says(m) \/ "doble_fila" \in Says(m) \/ "emergencia" \in Says(m)
           /\ Says(m) # {} => Described(m)
  <1>1. RawScore(m, g) = BASE_RULES[m.type] + GRAVEDAD_BONUS[g]
                + (IF "prohibida" \in Says(m) THEN 15 ELSE 0)
                + (IF "doble_fila" \in Says(m) THEN 20 ELSE 0)
                + (IF "emergencia" \in Says(m) THEN 30 ELSE 0)
                + (IF Described(m) THEN 0 ELSE -10)
    BY PointsValues DEF RawScore
  <1>2. BASE_RULES[m.type] \in {20, 30, 50, 70}
    BY FineFields, TableValues DEF Types
  <1>3. GRAVEDAD_BONUS[g] = IF g = "baja" THEN -10 ELSE IF g = "media" THEN 0 ELSE 20
    BY TableValues DEF Gravities
  <1>4. HasStrongEvidence(m) <=>
                "prohibida" \in Says(m) \/ "doble_fila" \in Says(m) \/ "emergencia" \in Says(m)
    BY FineFields DEF HasStrongEvidence, Phrases
  <1> QED
    BY <1>1, <1>2, <1>3, <1>4, FineFields

\* More evidence never lowers the final score.
LEMMA EvidenceIsMonotone ==
    ASSUME NEW m \in MultaData, NEW n \in MultaData, NEW g \in Gravities,
           SaysMore(n, m)
    PROVE  FinalScore(m, g) <= FinalScore(n, g)
  <1> USE DEF SaysMore
  <1> DEFINE b == BASE_RULES[m.type]
  <1>0. /\ Described(m) \in BOOLEAN /\ Described(n) \in BOOLEAN
        /\ b \in {20, 30, 50, 70} /\ BASE_RULES[n.type] = b
    BY FineFields, ScoreFacts
  <1>1. /\ "prohibida" \in Says(m) => "prohibida" \in Says(n)
        /\ "doble_fila" \in Says(m) => "doble_fila" \in Says(n)
        /\ "emergencia" \in Says(m) => "emergencia" \in Says(n)
    OBVIOUS
  <1>2. CASE g = "baja"
    BY <1>0, <1>1, <1>2, ScoreFacts, SMTT(60)
    DEF FinalScore, applyCountryRules, BaseScore, TrustWeight, calculateScore, Clamp
  <1>3. CASE g = "media"
    BY <1>0, <1>1, <1>3, ScoreFacts, SMTT(60)
    DEF FinalScore, applyCountryRules, BaseScore, TrustWeight, calculateScore, Clamp
  <1>4. CASE g = "alta"
    BY <1>0, <1>1, <1>4, ScoreFacts, SMTT(60)
    DEF FinalScore, applyCountryRules, BaseScore, TrustWeight, calculateScore, Clamp
  <1> QED
    BY <1>2, <1>3, <1>4 DEF Gravities

LEMMA ScoreIsInt ==
    ASSUME NEW m \in MultaData, NEW g \in Gravities
    PROVE  FinalScore(m, g) \in Int /\ (m.country = Argentina => FinalScore(m, g) \in 0..100)
  <1>1. RawScore(m, g) \in Int
    BY ScoreFacts, FineFields
  <1>2. calculateScore(m, g) \in 0..100
    BY <1>1 DEF calculateScore, Clamp
  <1>3. TrustWeight(m, g) \in {3, 5, 10, 12}
    BY DEF TrustWeight
  <1>4. BaseScore(m, g) \in 0..120
    BY <1>2, <1>3 DEF BaseScore
  <1> QED
    BY <1>4 DEF FinalScore, applyCountryRules

\* Risk, light, advice and range agree in every verdict.
LEMMA RulesAreCoherent ==
    ASSUME NEW m \in MultaData, NEW g \in Gravities
    PROVE  /\ classifyRisk(FinalScore(m, g)) = "alto" => TrafficLight(m, g) = "RED"
           /\ TrafficLight(m, g) = "RED" => classifyRisk(FinalScore(m, g)) # "bajo"
           /\ TrafficLight(m, g) = "GREEN" => AppealRecommended(m, g)
           /\ m.country = Argentina => FinalScore(m, g) \in 0..100
  <1>1. FinalScore(m, g) \in Int
    BY ScoreIsInt
  <1>2. classifyRisk(FinalScore(m, g)) = "alto" => TrafficLight(m, g) = "RED"
    BY <1>1 DEF classifyRisk, TrafficLight
  <1>3. TrafficLight(m, g) = "RED" => classifyRisk(FinalScore(m, g)) # "bajo"
    BY <1>1 DEF classifyRisk, TrafficLight
  <1>4. TrafficLight(m, g) = "GREEN" => AppealRecommended(m, g)
    BY <1>1 DEF AppealRecommended, TrafficLight
  <1> QED
    BY <1>2, <1>3, <1>4, ScoreIsInt

-----------------------------------------------------------------------------
(* The analysis. *)

LEMMA ContentsAreFines ==
    /\ Contents \subseteq MultaData
    /\ \A batch \in Batches : batch \in [Requests -> Contents]
  <1>1. Contents \subseteq MultaData
    BY BatchesAssumption DEF Contents
  <1>2. ASSUME NEW batch \in Batches
        PROVE  batch \in [Requests -> Contents]
    BY BatchesAssumption DEF Contents
  <1> QED
    BY <1>1, <1>2

LEMMA ByRulesIsResult ==
    ASSUME NEW m \in Contents, NEW g \in Gravities
    PROVE  ByRules(m, g) \in Result /\ ByRules(m, g).by = "rules"
  <1>1. FinalScore(m, g) \in Int
    BY ContentsAreFines, ScoreIsInt
  <1>2. TrafficLight(m, g) \in {"GREEN", "YELLOW", "RED"}
    BY DEF TrafficLight
  <1> QED
    BY <1>1, <1>2 DEF ByRules, Result

LEMMA ModelIsResult ==
    ASSUME NEW reply \in Reply
    PROVE  convertAIFormat(reply) \in Result /\ convertAIFormat(reply).by = "model"
  <1>0. \A x \in ModelScores \cup {NoScore} : x \in Int
    BY SwitchesAssumption DEF NoScore
  <1>1. reply.score \in Int
    <2>1. reply.score \in ModelScores \cup {NoScore}
      BY DEF Reply
    <2> QED
      BY <1>0, <2>1
  <1> QED
    BY <1>1 DEF convertAIFormat, Result

LEMMA ErrorReportIsReply == ErrorReport \in Reply
  BY DEF ErrorReport, Reply, Decisions

LEMMA ConstantResults ==
    /\ Nothing \in Result /\ Failure \in Result
    /\ Nothing.by = "nothing" /\ Failure.by = "failure"
  BY DEF Nothing, Failure, Result, NoScore

\* What the last resort gives: the rules with "media", or a failure.
LEMMA LastResorts ==
    ASSUME NEW m \in Contents, NEW result \in LastResort(m)
    PROVE  result = ByRules(m, "media") \/ result = Failure
  BY SwitchesAssumption DEF LastResort

\* The results a step can come up with for a fine.
Outcomes(m) == {ByRules(m, g) : g \in Gravities} \cup {convertAIFormat(x) : x \in Reply}
                  \cup {Failure}

LEMMA OutcomesAreResults ==
    ASSUME NEW m \in Contents, NEW result \in Outcomes(m)
    PROVE  /\ result \in Result
           /\ result.by \in {"rules", "model", "failure"}
           /\ result.by = "rules" => \E g \in Gravities : result = ByRules(m, g)
  BY ByRulesIsResult, ModelIsResult, ConstantResults DEF Outcomes

LEMMA StepsProposeOutcomes ==
    ASSUME NEW r \in Requests, content[r] \in Contents,
           Evaluate(r) \/ Report(r) \/ ApplyRules(r)
    PROVE  \E result \in Outcomes(content[r]) : Propose(r, result)
  <1>1. ASSUME NEW result \in LastResort(content[r])
        PROVE  result \in Outcomes(content[r])
    BY <1>1, LastResorts DEF Outcomes, Gravities
  <1>2. ASSUME NEW reply \in Reply, Convert(r, reply)
        PROVE  \E result \in Outcomes(content[r]) : Propose(r, result)
    BY <1>1, <1>2 DEF Convert, Outcomes
  <1>3. CASE Evaluate(r)
    BY <1>2, <1>3 DEF Evaluate
  <1>4. CASE Report(r)
    BY <1>2, <1>4, ErrorReportIsReply DEF Report
  <1>5. CASE ApplyRules(r)
    BY <1>1, <1>5 DEF ApplyRules, Outcomes
  <1> QED
    BY <1>3, <1>4, <1>5

-----------------------------------------------------------------------------
(* Types. *)

\* Every reachable state is type-correct, and a failure is never stored.
THEOREM AnalysisTypeCorrect == Spec => []TypeOK
  <1>1. Init => TypeOK
    BY ConstantResults, ContentsAreFines DEF Init, TypeOK, Awaits
  <1>2. TypeOK /\ [Next]_vars => TypeOK'
    <2> SUFFICES ASSUME TypeOK, [Next]_vars
                 PROVE  TypeOK'
      OBVIOUS
    <2> USE DEF TypeOK, Go, Awaits
    <2>1. CASE UNCHANGED vars
      BY <2>1 DEF vars
    <2>2. ASSUME NEW r \in Requests, Begin(r)
          PROVE  TypeOK'
      BY <2>2 DEF Begin
    <2>3. ASSUME NEW r \in Requests, Hit(r)
          PROVE  TypeOK'
      BY <2>3 DEF Hit, Key, Keys
    <2>4. ASSUME NEW r \in Requests, Miss(r)
          PROVE  TypeOK'
      BY <2>4 DEF Miss
    <2>5. ASSUME NEW r \in Requests, Prompt(r)
          PROVE  TypeOK'
      BY <2>5 DEF Prompt, AfterPrompt
    <2>6. ASSUME NEW r \in Requests, PromptFails(r) \/ ReportFails(r)
          PROVE  TypeOK'
      BY <2>6 DEF PromptFails, ReportFails
    <2>7. ASSUME NEW r \in Requests, Evaluate(r) \/ Report(r) \/ ApplyRules(r)
          PROVE  TypeOK'
      <3>1. PICK result \in Outcomes(content[r]) : Propose(r, result)
        BY <2>7, StepsProposeOutcomes
      <3>2. result \in Result /\ result.by \in {"rules", "model", "failure"}
        BY OutcomesAreResults
      <3>3. result # Nothing
        BY <3>2, ConstantResults
      <3> QED
        BY <3>1, <3>2, <3>3 DEF Propose, shouldCacheAnalysisResult
    <2>8. ASSUME NEW r \in Requests, Store(r)
          PROVE  TypeOK'
      <3>1. out[r] # Nothing /\ out[r].by # "failure"
        BY <2>8, ConstantResults DEF Store
      <3> QED
        BY <2>8, <3>1 DEF Store
    <2>9. ASSUME NEW k \in Keys, Expire(k)
          PROVE  TypeOK'
      BY <2>9, ConstantResults DEF Expire
    <2> QED
      BY <2>1, <2>2, <2>3, <2>4, <2>5, <2>6, <2>7, <2>8, <2>9 DEF Next, Step
  <1> QED
    BY <1>1, <1>2, PTL DEF Spec

-----------------------------------------------------------------------------
(* The cache never gives a fine the verdict of another. *)

Justified(k, result) ==
    result.by = "rules" =>
        \E q \in Requests, g \in Gravities : result = ByRules(content[q], g) /\ Key(q) = k

\* The invariant: it must speak of what is about to be stored and of the cache,
\* not only of what has been answered.
VerdictInv ==
    /\ \A r \in Requests : Justified(Key(r), out[r])
    /\ \A k \in Keys : Justified(k, cache[k])

LEMMA VerdictInvariant == Spec => []VerdictInv
  <1>1. Init => VerdictInv
    BY ConstantResults DEF Init, VerdictInv, Justified
  <1>2. TypeOK /\ VerdictInv /\ [Next]_vars => VerdictInv'
    <2> SUFFICES ASSUME TypeOK, VerdictInv, [Next]_vars
                 PROVE  VerdictInv'
      OBVIOUS
    <2> USE DEF VerdictInv
    <2>0. content \in [Requests -> Contents] /\ out \in [Requests -> Result]
          /\ cache \in [Keys -> Result] /\ \A r \in Requests : Key(r) \in Keys
      BY DEF TypeOK, Key, Keys
    <2>1. content' = content /\ \A r \in Requests : Key(r)' = Key(r)
      BY DEF Next, vars, Begin, Step, Hit, Miss, Prompt, PromptFails, Evaluate, Report, Convert,
             Propose, ReportFails, ApplyRules, Store, Expire, Key
    <2> DEFINE Known(k, result) ==
                  result.by = "rules" =>
                      \E q \in Requests, g \in Gravities :
                          result = ByRules(content[q], g) /\ Key(q) = k
    <2>3. /\ \A r \in Requests : Known(Key(r), out[r])
          /\ \A k \in Keys : Known(k, cache[k])
      BY DEF Justified
    <2>4. SUFFICES /\ \A r \in Requests : Known(Key(r), out'[r])
                   /\ \A k \in Keys : Known(k, cache'[k])
      BY <2>1, <2>4 DEF Justified
    <2>5. CASE UNCHANGED <<out, cache>>
      BY <2>3, <2>5
    <2>6. ASSUME NEW r \in Requests, Hit(r)
          PROVE  /\ \A x \in Requests : Known(Key(x), out'[x])
                 /\ \A k \in Keys : Known(k, cache'[k])
      <3>1. Known(Key(r), cache[Key(r)])
        BY <2>0, <2>3
      <3>2. out' = [out EXCEPT ![r] = cache[Key(r)]] /\ cache' = cache
        BY <2>6 DEF Hit
      <3> HIDE DEF Known
      <3> QED
        BY <2>0, <2>3, <3>1, <3>2
    <2>7. ASSUME NEW r \in Requests, Evaluate(r) \/ Report(r) \/ ApplyRules(r)
          PROVE  /\ \A x \in Requests : Known(Key(x), out'[x])
                 /\ \A k \in Keys : Known(k, cache'[k])
      <3>1. PICK result \in Outcomes(content[r]) : Propose(r, result)
        BY <2>0, <2>7, StepsProposeOutcomes
      <3>2. Known(Key(r), result)
        BY <2>0, OutcomesAreResults
      <3>3. out' = [out EXCEPT ![r] = result] /\ cache' = cache
        BY <3>1 DEF Propose
      <3> HIDE DEF Known
      <3> QED
        BY <2>0, <2>3, <3>2, <3>3
    <2>8. ASSUME NEW r \in Requests, Store(r)
          PROVE  /\ \A x \in Requests : Known(Key(x), out'[x])
                 /\ \A k \in Keys : Known(k, cache'[k])
      <3>1. out' = out /\ (cache' = cache \/ cache' = [cache EXCEPT ![Key(r)] = out[r]])
        BY <2>8 DEF Store
      <3> HIDE DEF Known
      <3> QED
        BY <2>0, <2>3, <3>1
    <2>9. ASSUME NEW c \in Keys, Expire(c)
          PROVE  /\ \A x \in Requests : Known(Key(x), out'[x])
                 /\ \A k \in Keys : Known(k, cache'[k])
      <3>1. \A k : Known(k, Nothing)
        BY ConstantResults
      <3>2. out' = out /\ cache' = [cache EXCEPT ![c] = Nothing]
        BY <2>9 DEF Expire
      <3> HIDE DEF Known
      <3> QED
        BY <2>0, <2>3, <3>1, <3>2
    <2>10. ASSUME NEW r \in Requests, Begin(r) \/ Miss(r) \/ Prompt(r) \/ PromptFails(r)
                                      \/ ReportFails(r)
           PROVE  UNCHANGED <<out, cache>>
      BY <2>10 DEF Begin, Miss, Prompt, PromptFails, ReportFails
    <2> QED
      BY <2>5, <2>6, <2>7, <2>8, <2>9, <2>10 DEF Next, Step, vars
  <1> QED
    BY <1>1, <1>2, AnalysisTypeCorrect, PTL DEF Spec

\* The positions of a key whose first field is one piece.
LEMMA KeyPositions ==
    ASSUME NEW S, NEW c \in S, NEW t \in S, NEW a \in S, NEW d \in Seq(S),
           NEW key, key = <<c>> \o <<t, a>> \o d
    PROVE  /\ Len(key) = 3 + Len(d)
           /\ key[1] = c /\ key[2] = t /\ key[3] = a
           /\ \A i \in 1..Len(d) : key[i + 3] = d[i]
  <1> DEFINE head == <<c>> \o <<t, a>>
  <1>1. head \in Seq(S) /\ Len(head) = 3 /\ head[1] = c /\ head[2] = t /\ head[3] = a
    <2>1. <<c>> \in Seq(S) /\ <<t, a>> \in Seq(S)
      OBVIOUS
    <2>2. Len(<<c>>) = 1 /\ Len(<<t, a>>) = 2
      OBVIOUS
    <2> QED
      BY <2>1, <2>2, ConcatProperties
  <1> HIDE DEF head
  <1>2. /\ Len(head \o d) = Len(head) + Len(d) /\ Len(d) \in Nat
        /\ \A i \in 1..(Len(head) + Len(d)) :
              (head \o d)[i] = IF i <= Len(head) THEN head[i] ELSE d[i - Len(head)]
    BY <1>1, ConcatProperties, LenProperties
  <1>3. key = head \o d
    BY DEF head
  <1>4. /\ Len(key) = 3 + Len(d) /\ Len(d) \in Nat
        /\ \A i \in 1..(3 + Len(d)) : key[i] = IF i <= 3 THEN head[i] ELSE d[i - 3]
    BY <1>1, <1>2, <1>3
  <1>5. key[1] = head[1] /\ key[2] = head[2] /\ key[3] = head[3]
    BY <1>4
  <1>6. \A i \in 1..Len(d) : key[i + 3] = d[i]
    BY <1>4
  <1> QED
    BY <1>1, <1>4, <1>5, <1>6

LEMMA LongerAlphabet ==
    ASSUME NEW A, NEW B, A \subseteq B, NEW text \in Seq(A)
    PROVE  text \in Seq(B)
  OBVIOUS

\* A text with no colon is its one piece.
LEMMA PlainText ==
    ASSUME NEW S, NEW text \in Seq(S), text # <<>>, ~HasColon(text)
    PROVE  text[1] \in S /\ text = <<text[1]>>
  <1>1. Len(text) \in Nat /\ DOMAIN text = 1..Len(text)
    BY LenProperties
  <1>2. Len(text) # 0
    BY EmptySeq
  <1>3. Len(text) = 1
    BY <1>1, <1>2 DEF HasColon
  <1>4. text[1] \in S
    BY <1>1, <1>3
  <1>5. <<text[1]>> \in Seq(S) /\ Len(<<text[1]>>) = 1 /\ <<text[1]>>[1] = text[1]
    BY <1>4
  <1>6. \A i \in 1..Len(text) : text[i] = <<text[1]>>[i]
    BY <1>3
  <1> QED
    BY <1>3, <1>4, <1>5, <1>6, SeqEqual

\* Two fines whose countries have no colon and that share a key are the same:
\* the first three pieces of the key are the first three fields, and the rest is
\* the description, with as many colons as it has.
LEMMA PlainKeysDiffer ==
    ASSUME NEW m \in MultaData, NEW n \in MultaData,
           ~HasColon(m.country), ~HasColon(n.country), Fingerprint(m) = Fingerprint(n)
    PROVE  m = n
  <1>1. ASSUME NEW x \in MultaData, ~HasColon(x.country)
        PROVE  /\ x.description \in Seq(STRING \cup Types \cup DOMAIN Mentions)
               /\ Len(Fingerprint(x)) = 3 + Len(x.description)
               /\ x.country = <<Fingerprint(x)[1]>>
               /\ x.type = Fingerprint(x)[2] /\ x.amount = Fingerprint(x)[3]
               /\ \A i \in 1..Len(x.description) : x.description[i] = Fingerprint(x)[i + 3]
    <2> DEFINE S == STRING \cup Types \cup DOMAIN Mentions
    <2>1. /\ x.country \in Countries /\ x.type \in Types /\ x.amount \in Amounts
          /\ x.description \in Descriptions
      BY DEF MultaData
    <2>2. x.country \in Seq(STRING) /\ x.country # <<>>
      BY <2>1, TextsAssumption
    <2>9. Descriptions \subseteq Seq(DOMAIN Mentions)
      BY TextsAssumption
    <2>10. DOMAIN Mentions \subseteq S
      OBVIOUS
    <2>3. x.description \in Seq(S)
      <3> HIDE DEF S
      <3>1. x.description \in Seq(DOMAIN Mentions)
        BY <2>1, <2>9
      <3> QED
        BY <2>10, <3>1, LongerAlphabet
    <2>12. x.amount \in STRING
      BY <2>1, TextsAssumption
    <2>4. x.type \in S /\ x.amount \in S
      BY <2>1, <2>12
    <2>5. x.country[1] \in STRING /\ x.country = <<x.country[1]>>
      BY <1>1, <2>2, PlainText
    <2>6. x.country[1] \in S
      BY <2>5
    <2>7. Fingerprint(x) = <<x.country[1]>> \o <<x.type, x.amount>> \o x.description
      BY <2>5 DEF Fingerprint
    <2> HIDE DEF S
    <2>8. /\ Len(Fingerprint(x)) = 3 + Len(x.description)
          /\ Fingerprint(x)[1] = x.country[1]
          /\ Fingerprint(x)[2] = x.type /\ Fingerprint(x)[3] = x.amount
          /\ \A i \in 1..Len(x.description) : Fingerprint(x)[i + 3] = x.description[i]
      BY <2>3, <2>4, <2>6, <2>7, KeyPositions
    <2> QED
      BY <2>3, <2>5, <2>8 DEF S
  <1>2. m.country = n.country /\ m.type = n.type /\ m.amount = n.amount
    BY <1>1
  <1>3. m.description = n.description
    <2>1. Len(m.description) = Len(n.description)
      BY <1>1, LenProperties
    <2>2. \A i \in 1..Len(m.description) : m.description[i] = n.description[i]
      BY <1>1, <2>1
    <2> QED
      BY <1>1, <2>1, <2>2, SeqEqual
  <1> QED
    BY <1>2, <1>3 DEF MultaData

\* A verdict of the rules, cached or not, is one they give to this very fine, or
\* one of the two fines has a country with a colon: with plain countries, no two
\* fines share a key, for any descriptions.
THEOREM VerdictsAreOfTheirFine == Spec => []VerdictIsOfThisFine
  <1>1. TypeOK /\ VerdictInv => VerdictIsOfThisFine
    <2> SUFFICES ASSUME TypeOK, VerdictInv, NEW r \in Requests, out[r].by = "rules"
                 PROVE  \E q \in Requests, g \in Gravities :
                          /\ IsVerdictOf(r, q, g)
                          /\ \/ content[q] = content[r]
                             \/ HasColon(content[q].country) \/ HasColon(content[r].country)
      BY DEF VerdictIsOfThisFine
    <2>1. PICK q \in Requests, g \in Gravities : IsVerdictOf(r, q, g)
      BY DEF VerdictInv, Justified, IsVerdictOf
    <2>2. content[q] \in MultaData /\ content[r] \in MultaData
      BY ContentsAreFines DEF TypeOK
    <2>3. Fingerprint(content[q]) = Fingerprint(content[r])
      BY <2>1 DEF IsVerdictOf, Key
    <2> QED
      BY <2>1, <2>2, <2>3, PlainKeysDiffer
  <1> QED
    BY <1>1, VerdictInvariant, AnalysisTypeCorrect, PTL

-----------------------------------------------------------------------------
(* What the rules say of every fine holds of every answer. *)

\* The deltas of the trace of an analysis add up to its score.
THEOREM TracesExplainScores == Spec => []TraceExplainsScore
  <1>1. TypeOK => TraceExplainsScore
    BY TraceIsAligned, ContentsAreFines DEF TypeOK, TraceExplainsScore
  <1> QED
    BY <1>1, AnalysisTypeCorrect, PTL

\* A description that said more would not have lowered the score of an answer.
THEOREM EvidenceNeverLowersAnswers == Spec => []EvidenceNeverLowers
  <1>1. TypeOK /\ VerdictInv => EvidenceNeverLowers
    <2> SUFFICES ASSUME TypeOK, VerdictInv,
                        NEW r \in Requests, out[r].by = "rules"
                 PROVE  \E q \in Requests, g \in Gravities :
                          /\ IsVerdictOf(r, q, g)
                          /\ \A n \in MultaData :
                                SaysMore(n, content[q]) => out[r].score <= FinalScore(n, g)
      BY DEF EvidenceNeverLowers
    <2>1. PICK q \in Requests, g \in Gravities : IsVerdictOf(r, q, g)
      BY DEF VerdictInv, Justified, IsVerdictOf
    <2>2. content[q] \in MultaData
      BY ContentsAreFines DEF TypeOK
    <2>3. out[r].score = FinalScore(content[q], g)
      BY <2>1 DEF IsVerdictOf, ByRules
    <2> QED
      BY <2>1, <2>2, <2>3, EvidenceIsMonotone
  <1> QED
    BY <1>1, VerdictInvariant, AnalysisTypeCorrect, PTL

\* Risk, light, advice and range agree in every answer of the rules.
THEOREM VerdictsAreCoherent == Spec => []VerdictIsCoherent
  <1>1. TypeOK /\ VerdictInv => VerdictIsCoherent
    <2> SUFFICES ASSUME TypeOK, VerdictInv,
                        NEW r \in Requests, out[r].by = "rules"
                 PROVE  \E q \in Requests, g \in Gravities :
                          /\ IsVerdictOf(r, q, g)
                          /\ classifyRisk(out[r].score) = "alto" => out[r].light = "RED"
                          /\ out[r].light = "RED" => classifyRisk(out[r].score) # "bajo"
                          /\ out[r].light = "GREEN" => AppealRecommended(content[q], g)
                          /\ content[q].country = Argentina => out[r].score \in 0..100
      BY DEF VerdictIsCoherent
    <2>1. PICK q \in Requests, g \in Gravities : IsVerdictOf(r, q, g)
      BY DEF VerdictInv, Justified, IsVerdictOf
    <2>2. content[q] \in MultaData
      BY ContentsAreFines DEF TypeOK
    <2>3. /\ out[r].score = FinalScore(content[q], g)
          /\ out[r].light = TrafficLight(content[q], g)
      BY <2>1 DEF IsVerdictOf, ByRules
    <2> QED
      BY <2>1, <2>2, <2>3, RulesAreCoherent
  <1> QED
    BY <1>1, VerdictInvariant, AnalysisTypeCorrect, PTL
=============================================================================
