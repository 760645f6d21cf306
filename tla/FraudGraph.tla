----------------------------- MODULE FraudGraph -----------------------------
(***************************************************************************)
(* The fraud signal engine: it sorts a lot of fines by time, links each to *)
(* its jurisdiction, plate and user, looks for four patterns with sliding  *)
(* windows and merges the signals it finds.  The engine keeps nothing: the *)
(* state is the lot, which grows, and the report of its last run.          *)
(*                                                                         *)
(* Records are normalized (no blank or padded plate, user, jurisdiction)   *)
(* and have distinct ids, as the engine's own documentation asks.          *)
(***************************************************************************)
EXTENDS Integers, Sequences, FiniteSets, FiniteSetsExt

CONSTANTS
    Pools,         \* sequences of records, dates aside: what a lot may be made of
    Labels,        \* plates, users, jurisdictions and violation types
    Times,         \* the moments fines happen at
    Blank,         \* no plate, no user; in a key, no violation type
    H24, D7, D30,  \* the windows
    Repeats,       \* thresholdCount of the repeats
    Burst          \* threshold of the spikes

\* FraudInputRecord.  Of an id only the order among the others matters.
Record ==
    [id : Int, at : Int, plate : Labels \cup {Blank}, user : Labels \cup {Blank},
     jurisdiction : Labels, type : Labels]

ASSUME FraudAssumption ==
    /\ H24 \in Nat /\ D7 \in Nat /\ D30 \in Nat
    /\ Repeats \in Nat \ {0} /\ Burst \in Nat \ {0}
    /\ Times \subseteq Int
    /\ Pools \subseteq Seq(Record)
    /\ \A p \in Pools : \A i, j \in DOMAIN p : p[i].id = p[j].id => i = j

VARIABLES
    pool,     \* where the fines come from
    batch,    \* the lot: the records in the order they came
    report    \* result of runFraudSignalGraphEngine

fraudVars == <<pool, batch, report>>

Entries(s) == {s[i] : i \in DOMAIN s}

-----------------------------------------------------------------------------
(* The graph. *)

Before(a, b) == a.at < b.at \/ (a.at = b.at /\ a.id < b.id)

\* The records of s at the positions P: the one that n others of P precede, in
\* the relation R, takes place n + 1.  (The concatenation makes TLC build it once.)
Arranged(s, P, R) ==
    <<>> \o [n \in 1..Cardinality(P) |->
        s[CHOOSE i \in P : Cardinality({j \in P : <<j, i>> \in R}) = n - 1]]

\* Mutation: the order of arrival decides a tie.
SortedUnstable(s) ==
    LET P == DOMAIN s
    IN  Arranged(s, P, {p \in P \X P : \/ s[p[1]].at < s[p[2]].at
                                       \/ s[p[1]].at = s[p[2]].at /\ p[1] < p[2]})

sortRecordsByTime(s) ==
    LET P == DOMAIN s
    IN  Arranged(s, P, {p \in P \X P : Before(s[p[1]], s[p[2]])})

\* A group: the records of s in G, in the order of s.
Those(s, G) ==
    LET P == {i \in DOMAIN s : s[i] \in G}
    IN  Arranged(s, P, {p \in P \X P : p[1] < p[2]})

Node(kind, label) == <<kind, label>>
Violation(r)      == Node("violation", r.id)

\* Edges start at the fine of a record.
EdgesOf(r) ==
    {<<Violation(r), Node("jurisdiction", r.jurisdiction)>>}
    \cup {<<Violation(r), Node("vehicle", r.plate)>> : x \in {r.plate} \ {Blank}}
    \cup {<<Violation(r), Node("user", r.user)>>     : x \in {r.user} \ {Blank}}

buildFraudGraph(s) ==
    LET edges == UNION {EdgesOf(r) : r \in Entries(s)}
    IN  [edges |-> edges, nodes |-> {e[1] : e \in edges} \cup {e[2] : e \in edges}]

-----------------------------------------------------------------------------
(* Windows. *)

\* Mutation: the window never closes.
SlicesOpen(s, width) == [i \in DOMAIN s |-> {s[k] : k \in 1..i}]

\* The windows of a sliding pass over s: for each record, those from the start of
\* the window up to it.  The start only moves forward, past the records that
\* are further than `width` before it.
Slices(s, width) ==
    LET start[i \in 0..Len(s)] ==
            IF i = 0 THEN 1
            ELSE Min({k \in start[i - 1]..i : s[i].at - s[k].at <= width})
    IN  [i \in DOMAIN s |-> {s[k] : k \in start[i]..i}]

\* The first of the longest.
Best(slices) ==
    slices[Min({i \in DOMAIN slices :
                   \A j \in DOMAIN slices : Cardinality(slices[j]) <= Cardinality(slices[i])})]

Clamp(x) == Max({0, Min({100, x})})

\* Mutation: the severity falls with the count.
SeverityInverted(count, threshold) == Clamp(100 - 15 * (count - threshold + 1))

severityFromCount(count, threshold) ==
    IF count < threshold THEN 0 ELSE Clamp(40 + 15 * (count - threshold + 1))

confidenceFromEvidence(evidence, edges) ==
    Clamp(50 + Min({40, evidence * 8}) + Min({10, edges * 2}))

Signal(type, key, severity, evidenceCount, edges, nodes) ==
    [type |-> type, key |-> key, severity |-> severity,
     confidence |-> confidenceFromEvidence(evidenceCount, Cardinality(edges)),
     evidence |-> nodes]

-----------------------------------------------------------------------------
(* The four detectors, on the sorted records and the graph. *)

Plates(G) == {r.plate : r \in G} \ {Blank}
Users(G)  == {r.user : r \in G} \ {Blank}
Jurisdictions(G) == {r.jurisdiction : r \in G}
Fines(G)  == {Violation(r) : r \in G}

\* The groups the detectors slide over.
OfType(G, k)   == {r \in G : <<r.plate, r.type>> = k}
OfPlate(G, p)  == {r \in G : r.plate = p}
OfEntity(G, n) == {r \in G : n \in {Node("vehicle", r.plate), Node("user", r.user)}}
Signed(G, p)   == {r \in G : r.plate = p /\ r.user # Blank}

\* A sliding pass over a group, in the order of the lot.
Pass(s, G, width) == Slices(Those(s, G), width)

\* Plate and violation type: their best window is long enough.
RepeatBest(s, k) == Best(Pass(s, OfType(Entries(s), k), D7))

RepeatSignal(s, graph, k) ==
    LET best  == RepeatBest(s, k)
        edges == {e \in graph.edges : e[1] \in Fines(best) /\ e[2] = Node("vehicle", k[1])}
    IN  Signal("repeats", k, severityFromCount(Cardinality(best), Repeats),
               Cardinality(best), edges, Fines(best) \cup {Node("vehicle", k[1])})

detectHighFrequencyRepeats(s, graph) ==
    LET groups == {<<r.plate, r.type>> : r \in {x \in Entries(s) : x.plate # Blank}}
    IN  {RepeatSignal(s, graph, k) :
            k \in {g \in groups : Cardinality(RepeatBest(s, g)) >= Repeats}}

\* A plate: the first window with a second jurisdiction ends the search.
ChainingPass(s, p) == Pass(s, OfPlate(Entries(s), p), D30)
Crossings(slices)  ==
    {j \in DOMAIN slices : Cardinality(Jurisdictions(slices[j])) >= 2}

ChainingSignal(s, graph, p) ==
    LET slices == ChainingPass(s, p)
        first  == slices[Min(Crossings(slices))]
        jurs   == Jurisdictions(first)
        edges  == {e \in graph.edges :
                      \/ e[2] = Node("vehicle", p)
                      \/ e[2][1] = "jurisdiction" /\ e[1] \in Fines(first)}
    IN  Signal("chaining", <<p, Blank>>, Clamp(35 + 20 * Cardinality(jurs)),
               Cardinality(first), edges,
               {Node("vehicle", p)} \cup {Node("jurisdiction", j) : j \in jurs})

detectCrossJurisdictionChaining(s, graph) ==
    {ChainingSignal(s, graph, p) :
        p \in {q \in Plates(Entries(s)) : Crossings(ChainingPass(s, q)) # {}}}

\* A plate or a user: the best window is long enough.
Entities(G) ==
    {Node("vehicle", p) : p \in Plates(G)} \cup {Node("user", u) : u \in Users(G)}
SpikeBest(s, n) == Best(Pass(s, OfEntity(Entries(s), n), H24))

SpikeSignal(s, graph, n) ==
    LET best  == SpikeBest(s, n)
        edges == {e \in graph.edges : e[1] \in Fines(best)}
    IN  Signal("spikes", <<n, Blank>>, severityFromCount(Cardinality(best), Burst),
               Cardinality(best), edges, Fines(best))

detectTemporalClusterSpikes(s, graph) ==
    {SpikeSignal(s, graph, n) :
        n \in {m \in Entities(Entries(s)) : Cardinality(SpikeBest(s, m)) >= Burst}}

\* A plate: one window with two users accuses all the users of the plate.
Colluding(slices) == \E j \in DOMAIN slices : Cardinality(Users(slices[j])) >= 2

CollusionSignal(s, graph, p) ==
    LET recs  == Signed(Entries(s), p)
        users == Users(recs)
        edges == {e \in graph.edges : e[2] = Node("vehicle", p) /\ e[1] \in Fines(recs)}
    IN  Signal("collusion", <<p, Blank>>, Clamp(45 + 18 * (Cardinality(users) - 2)),
               Cardinality(users), edges,
               {Node("vehicle", p)} \cup {Node("user", u) : u \in users})

detectSharedEntityCollusion(s, graph) ==
    {CollusionSignal(s, graph, p) :
        p \in {q \in Plates(Entries(s)) : Colluding(Pass(s, Signed(Entries(s), q), D7))}}

-----------------------------------------------------------------------------
(* Aggregation and the run. *)

stableSignalKey(x) == <<x.type, x.key>>

\* Signals of one key become one, with the largest scores and all the evidence.
Merge(signals) ==
    LET one == CHOOSE x \in signals : TRUE
    IN  [one EXCEPT !.severity = Max({x.severity : x \in signals}),
                    !.confidence = Max({x.confidence : x \in signals}),
                    !.evidence = UNION {x.evidence : x \in signals}]

aggregateFraudSignals(signals) ==
    LET merged == {Merge({x \in signals : stableSignalKey(x) = k}) :
                      k \in {stableSignalKey(x) : x \in signals}}
    IN  [signals |-> merged, raw |-> Cardinality(signals),
         maxSeverity |-> Max({0} \cup {x.severity : x \in merged})]

runFraudSignalGraphEngine(s) ==
    LET sorted == sortRecordsByTime(s)
        graph  == buildFraudGraph(sorted)
    IN  aggregateFraudSignals(detectHighFrequencyRepeats(sorted, graph)
                              \cup detectCrossJurisdictionChaining(sorted, graph)
                              \cup detectTemporalClusterSpikes(sorted, graph)
                              \cup detectSharedEntityCollusion(sorted, graph))

-----------------------------------------------------------------------------
FraudInit ==
    /\ pool \in Pools
    /\ batch = <<>>
    /\ report = runFraudSignalGraphEngine(<<>>)

\* Another fine of the pool, of any moment, joins the lot and the engine runs.
Ingest ==
    /\ Len(batch) < Len(pool)
    /\ \E at \in Times : batch' = Append(batch, [pool[Len(batch) + 1] EXCEPT !.at = at])
    /\ report' = runFraudSignalGraphEngine(batch')
    /\ UNCHANGED pool

FraudSpec == FraudInit /\ [][Ingest]_fraudVars

-----------------------------------------------------------------------------
\* What the detectors look for, said without windows: records that are all
\* within `width` of each other.
Together(group, width) == \A a, b \in group : a.at - b.at <= width

Warranted ==
    LET lot == Entries(batch)
        Close(members, width) == {g \in SUBSET members : Together(g, width)}
    IN  {<<"repeats", <<r.plate, r.type>>>> : r \in {x \in lot : x.plate # Blank /\
             \E g \in Close({y \in lot : y.plate = x.plate /\ y.type = x.type}, D7) :
                 Cardinality(g) >= Repeats}}
        \cup {<<"chaining", <<r.plate, Blank>>>> : r \in {x \in lot : x.plate # Blank /\
             \E y \in lot : y.plate = x.plate /\ y.jurisdiction # x.jurisdiction
                            /\ Together({x, y}, D30)}}
        \cup {<<"spikes", <<n, Blank>>>> : n \in
             {m \in Entities(lot) :
                 \E g \in Close(OfEntity(lot, m), H24) : Cardinality(g) >= Burst}}
        \cup {<<"collusion", <<r.plate, Blank>>>> : r \in {x \in lot : x.plate # Blank /\
             x.user # Blank /\ \E y \in lot : y.plate = x.plate /\ y.user \notin {x.user, Blank}
                                             /\ Together({x, y}, D7)}}

\* A signal is raised exactly when the lot holds fines that warrant it: the
\* sliding passes, which look at consecutive records only and stop at the first
\* hit, neither miss a pattern nor invent one.
SignalsAreWarranted == {stableSignalKey(x) : x \in report.signals} = Warranted

\* More fines never calm an accusation: a signal of the last report stays, and
\* is not less severe, whenever the new fine happened.
NeverCalmer ==
    [][\A x \in report.signals : \E y \in report'.signals :
          stableSignalKey(y) = stableSignalKey(x) /\ y.severity >= x.severity]_fraudVars

\* The report is that of the set of fines: the order they came in, ties
\* included, changes nothing.
OrderIsIrrelevant ==
    runFraudSignalGraphEngine([i \in DOMAIN batch |-> batch[Len(batch) + 1 - i]]) = report
=============================================================================
