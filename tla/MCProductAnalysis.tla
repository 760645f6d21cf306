------------------------- MODULE MCProductAnalysis -------------------------
(* An instance of ProductAnalysis for TLC.  A behaviour is about one of three *)
(* things that do not depend on each other: the limit (focus "limit": callers *)
(* behind one address, and the clock), the report (focus "report": every      *)
(* environment, calls that meet faults) or the engine (focus "engine": two    *)
(* calls of every body, with every result that breaks the contract).          *)
EXTENDS ProductAnalysis

VARIABLE focus

Context(user, ip) == [user |-> user, session |-> None, ip |-> ip, fingerprint |-> "f"]

\* A user, and a stranger behind the user's address.
TwoCallers == {Context("u", "a"), Context(None, "a")}
OneCaller  == {Context(None, None)}
AllCallers == TwoCallers \cup OneCaller

Body(sum, zone, plate, pais, role, intention, notification) ==
    [sum |-> sum, zone |-> zone, plate |-> plate, pais |-> pais, role |-> role,
     intention |-> intention, notification |-> notification]

OneBody == {Body(1, "estandar", "regular", "AR", "public", None, None)}

\* Sums of characters on either side of every limit of the rules, and every
\* country, role, profile and notification.
Bodies ==
    {Body(s, "estandar", "regular", "AR", "public", None, None) : s \in 1..4}
    \cup {Body(s, "sensible", "irregular", None, "admin", None, "notified_formal") : s \in {0, 2}}
    \cup {Body(s, "estandar", "regular", "CL", "guest", None, "notified") : s \in {0, 1, 3, 4}}
    \cup {Body(1, "estandar", "regular", p, "enterprise", "sanction_procedure_oriented",
               "not_notified") : p \in {"ES", "CO", "UY", "BR"}}

Gives(pais, riesgo, estado, recomendacion, flow, plan, constraint) ==
    [pais |-> pais, riesgo |-> riesgo, estado |-> estado, recomendacion |-> recomendacion,
     decisionFlow |-> flow, actionPlan |-> plan, constraint |-> constraint]

\* A high risk that is not critical, with no step to take; a low one that is.
TwoBroken == {Gives("AR", "alto", "revisable", <<"raw">>, List(0, 0), List(2, 0), "none"),
              Gives("AR", "bajo", "critico", <<"raw">>, List(0, 0), List(2, 0), "none")}

\* Every verdict, known or not, with a flow that is missing, empty, blank, half
\* blank or too long; and the other fields of the contract broken together.
ManyBroken ==
    {Gives("AR", riesgo, estado, <<"raw">>, flow, List(2, 0), "none") :
        riesgo \in Riesgos \cup {None}, estado \in Estados \cup {None},
        flow \in {None, List(0, 0), List(0, 1), List(1, 1), List(12, 0)}}
    \cup {Gives(pais, riesgo, "critico", <<>>, List(2, 0), plan, constraint) :
        pais \in {None, "BR"}, riesgo \in {"alto", "bajo"},
        plan \in {None, List(0, 0), List(3, 1)},
        constraint \in {"manual_required", "malformed"}}
AllBroken == TwoBroken \cup ManyBroken

InProduction == [mode |-> "production", setting |-> "unset"]

IdentifiersOf(callers) == {buildRateLimitIdentifier(c) : c \in callers}
OnlyCalledBy(callers) ==
    \A k \in Identifiers \ IdentifiersOf(callers) :
        limiter'[k] = limiter[k] /\ comeBack'[k] = comeBack[k]

MCInit ==
    /\ Init
    /\ \/ focus = "limit" /\ request \in OneBody /\ env = InProduction
       \/ focus = "report" /\ request \in OneBody
       \/ focus = "engine" /\ env = InProduction

InFocus ==
    CASE focus = "limit"  -> OnlyCalledBy(TwoCallers) /\ Faults' = 0
      [] focus = "report" -> /\ OnlyCalledBy(OneCaller)
                             /\ \A i \in DOMAIN given' :
                                   given'[i].outcome = "broken" => given'[i].raw \in TwoBroken
      [] focus = "engine" -> OnlyCalledBy(OneCaller) /\ now' = 0

MCNext == /\ focus = "engine" => Len(results) < 2
          /\ Next /\ UNCHANGED focus /\ InFocus

MCSpec == MCInit /\ [][MCNext]_<<vars, focus>>
=============================================================================
