-------------------------- MODULE MCMultaAnalysis --------------------------
(* Small instances of MultaAnalysis, with all inputs of Scoring for two     *)
(* countries: the one the rules single out, and another.                    *)
EXTENDS MultaAnalysis, TLC

CONSTANTS q1, q2

TwoRequests == {q1, q2}
LowestScore == {0}

\* The phrases in each piece, the pieces that are another field included.
SomeMentions == [p \in {"", "nada", "prohibida", "doble fila", "emergencia", "otros"} |->
                    CASE p = "prohibida"  -> {"prohibida"}
                      [] p = "doble fila" -> {"doble_fila"}
                      [] p = "emergencia" -> {"emergencia"}
                      [] OTHER            -> {}]

\* A description with every choice of phrases, and none at all.
EveryChoice == {<<"">>, <<"nada">>, <<"prohibida">>, <<"doble fila">>, <<"emergencia">>,
                <<"prohibida", "doble fila">>, <<"prohibida", "emergencia">>,
                <<"doble fila", "emergencia">>, <<"prohibida", "doble fila", "emergencia">>}

Plain == [country |-> <<"AR">>, type |-> "velocidad", amount |-> "100",
          description |-> <<"nada">>]

\* Two fines with one key: AR:velocidad:100:prohibida:otros::nada
Long == [Plain EXCEPT !.description = <<"prohibida", "otros", "", "nada">>]
Odd  == [country |-> <<"AR", "velocidad", "100", "prohibida">>, type |-> "otros",
         amount |-> "", description |-> <<"nada">>]
OneKey == {[q \in TwoRequests |-> IF q = q1 THEN Long ELSE Odd]}

SomeCountries    == {<<"AR">>, <<"UY">>, Odd.country}
SomeAmounts      == {"100", ""}
SomeDescriptions == EveryChoice \cup {Long.description}

\* Fines that differ in one field each: what is said, and the country.
ThreeFines == {Plain, [Plain EXCEPT !.description = <<"prohibida">>],
                      [Plain EXCEPT !.country = <<"UY">>]}

\* Two analyses of any of the three, of any one fine, and of one key.
AlikeOrThree == [TwoRequests -> ThreeFines] \cup OneKey
                  \cup {[q \in TwoRequests |-> m] :
                           m \in {x \in MultaData : /\ x.amount = "100"
                                                    /\ ~HasColon(x.country)
                                                    /\ x.description \in EveryChoice}}
PlainOnly == {[q \in TwoRequests |-> Plain]}
=============================================================================
