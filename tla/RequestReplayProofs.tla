------------------------ MODULE RequestReplayProofs ------------------------
(***************************************************************************)
(* Theorems about the orchestrator and the edge, for every number of       *)
(* requests and clients, every limit, threshold and time to live, and a    *)
(* clock without bound: a remembered reply is not worked out again, a      *)
(* reply goes only to whom it belongs, and blocks match offences.          *)
(***************************************************************************)
EXTENDS RequestReplay, SequenceTheorems, FiniteSetTheorems, TLAPS

(***************************************************************************)
(* The invariant of the orchestrator.                                      *)
(***************************************************************************)

Stages == {"new", "waiting", "passed", "queued", "handling", "auditing", "answered"} \cup Final
Begun == {"queued", "handling", "auditing"}     \* where a request may be in a chain

ReplayTypeOK ==
  /\ now \in Nat /\ now >= 1
  /\ at \in [Requests -> Stages]
  /\ req \in [Requests -> Arrivals \cup {CHOOSE a \in Arrivals : TRUE}]
  /\ \A r \in Requests : at[r] # "new" => req[r] \in Arrivals
  /\ chains \in [AllKeys -> Seq(Requests)]
  /\ store \in [DOMAIN store -> [run : Requests, expiresAt : Nat]]
  /\ reply \in [Requests -> Requests \cup {None, "error"}]
  /\ ran \in [Requests -> [from : Nat, to : Nat]]

\* A chain holds each of its requests once; all but the first wait.
ChainInv ==
  \A k \in AllKeys :
    /\ \A i \in 1..Len(chains[k]) :
         /\ Keyed(chains[k][i]) /\ CompositeKey(chains[k][i]) = k
         /\ at[chains[k][i]] \in Begun
         /\ i # 1 => at[chains[k][i]] = "queued"
    /\ \A i, j \in 1..Len(chains[k]) : chains[k][i] = chains[k][j] => i = j

\* Whoever waits or works under a key is in the chain of that key.
Holds(r) == at[r] = "queued" \/ (at[r] = "handling" /\ Keyed(r))
InChain(r) == \E i \in 1..Len(chains[CompositeKey(r)]) : chains[CompositeKey(r)][i] = r
MemberInv == \A r \in Requests : Holds(r) => InChain(r)

\* No handler began or ended after now, and none that is still to end did.
ClockInv ==
  \A r \in Requests :
    /\ ran[r].from <= now /\ ran[r].to <= now
    /\ Ran(r) => at[r] \in {"auditing", "answered"}

\* An entry of the store is the reply of a run of its key, with its time.
StoreInv ==
  \A k \in DOMAIN store :
    LET s == store[k].run
    IN /\ s \in Requests /\ Ran(s) /\ Keyed(s) /\ CompositeKey(s) = k
       /\ store[k].expiresAt = ran[s].to + Ttl

\* The reply of a run is remembered for its time.
Remembered(s) ==
  \/ ran[s].to + Ttl < now
  \/ /\ CompositeKey(s) \in DOMAIN store
     /\ ran[s].to + Ttl <= store[CompositeKey(s)].expiresAt
FreshInv == \A s \in Requests : Ran(s) /\ Keyed(s) => Remembered(s)

\* A handler at work began when every earlier reply of its key had expired.
SameKey(r, s) == Keyed(r) /\ Keyed(s) /\ CompositeKey(r) = CompositeKey(s)
After(r, s) == ran[s].to + Ttl < ran[r].from
HandlerInv ==
  \A r, s \in Requests : at[r] = "handling" /\ Ran(s) /\ SameKey(r, s) => After(r, s)

\* A reply is there once the handler has ended or was spared.
ReplyInv == \A r \in Requests : reply[r] \in Requests => at[r] \in {"auditing", "answered"}

ReplayInv == /\ ReplayTypeOK /\ ChainInv /\ MemberInv /\ ClockInv /\ StoreInv
             /\ FreshInv /\ HandlerInv /\ ReplyInv /\ OneRunPerKey /\ RepliesAreOwn

(***************************************************************************)
(* What a step leaves alone.                                               *)
(***************************************************************************)

\* What a request asked is settled once it has arrived.
AsksStay == \A x \in Requests : at[x] # "new" => req'[x] = req[x]

\* How a step may move a request that neither joins nor leaves a chain.
Moves(x) ==
  \/ at'[x] = at[x]
  \/ /\ at[x] \notin Begun /\ at'[x] # "queued"
     /\ at'[x] = "handling" => ~Keyed(x)'
  \/ at[x] = "handling" /\ (at'[x] = "auditing" \/ ~Keyed(x))
       /\ at'[x] \in {"auditing", "answered"}
  \/ /\ at[x] = "queued" /\ at'[x] \in {"handling", "auditing"}
     /\ Head(chains[CompositeKey(x)]) = x

LEMMA KeyOfRequest ==
    ASSUME ReplayTypeOK, NEW r \in Requests, at[r] # "new"
    PROVE  CompositeKey(r) \in AllKeys
BY DEF ReplayTypeOK, CompositeKey, AllKeys

LEMMA ChainsStay ==
    ASSUME ReplayInv, chains' = chains, AsksStay, \A x \in Requests : Moves(x)
    PROVE  ChainInv' /\ MemberInv'
<1> USE DEF ReplayInv
<1>1. ASSUME NEW k \in AllKeys, NEW i \in 1..Len(chains[k])
      PROVE  /\ chains[k][i] \in Requests /\ at[chains[k][i]] \in Begun
             /\ Keyed(chains[k][i])' /\ (CompositeKey(chains[k][i]) = k)'
             /\ at'[chains[k][i]] \in Begun
             /\ i # 1 => at'[chains[k][i]] = "queued"
  <2> DEFINE x == chains[k][i]
  <2>1. x \in Requests
    BY ElementOfSeq DEF ReplayTypeOK
  <2>2. /\ Keyed(x) /\ CompositeKey(x) = k /\ at[x] \in Begun
        /\ i # 1 => at[x] = "queued"
    BY DEF ChainInv
  <2>3. req'[x] = req[x]
    BY <2>1, <2>2 DEF AsksStay, Begun
  <2>4. (i # 1) => Head(chains[k]) # x
    <3> SUFFICES ASSUME i # 1, Head(chains[k]) = x PROVE FALSE
      OBVIOUS
    <3>1. chains[k] \in Seq(Requests) /\ Len(chains[k]) \in Nat
      BY DEF ReplayTypeOK
    <3>2. chains[k] # <<>> /\ 1 \in 1..Len(chains[k])
      BY <3>1
    <3>3. Head(chains[k]) = chains[k][1]
      BY <3>1, <3>2
    <3> QED
      BY <3>2, <3>3 DEF ChainInv
  <2>5. Moves(x)
    BY <2>1
  <2>6. Keyed(x)' /\ (CompositeKey(x) = k)'
    BY <2>2, <2>3 DEF Keyed, CompositeKey
  <2>7. at'[x] \in Begun /\ (i # 1 => at'[x] = "queued")
    BY <2>2, <2>4, <2>5 DEF Moves, Begun
  <2> QED
    BY <2>1, <2>2, <2>6, <2>7
<1>2. ChainInv'
  <2> SUFFICES ASSUME NEW k \in AllKeys
               PROVE  /\ \A i \in 1..Len(chains[k]) :
                           /\ Keyed(chains[k][i])' /\ (CompositeKey(chains[k][i]) = k)'
                           /\ at'[chains[k][i]] \in Begun
                           /\ i # 1 => at'[chains[k][i]] = "queued"
                      /\ \A i, j \in 1..Len(chains[k]) : chains[k][i] = chains[k][j] => i = j
    BY DEF ChainInv, Keyed, CompositeKey
  <2>1. \A i, j \in 1..Len(chains[k]) : chains[k][i] = chains[k][j] => i = j
    BY DEF ChainInv
  <2> QED
    BY <1>1, <2>1
<1>3. MemberInv'
  <2> SUFFICES ASSUME NEW x \in Requests, Holds(x)' PROVE InChain(x)'
    BY DEF MemberInv
  <2>1. Moves(x)
    OBVIOUS
  <2>2. at[x] \in Begun
    BY <2>1 DEF Moves, Holds, Begun
  <2>3. req'[x] = req[x]
    BY <2>2 DEF AsksStay, Begun
  <2>4. Holds(x)
    BY <2>1, <2>2, <2>3 DEF Moves, Holds, Begun, Keyed
  <2>5. InChain(x)
    BY <2>4 DEF MemberInv
  <2> QED
    BY <2>3, <2>5 DEF InChain, CompositeKey
<1> QED
  BY <1>2, <1>3

\* The store with an expired entry taken out, or as it was.
LEMMA StoreStays ==
    ASSUME ReplayInv, NEW d \in SUBSET DOMAIN store,
           store' = [k \in d |-> store[k]],
           \A k \in DOMAIN store \ d : now > store[k].expiresAt,
           \A x \in Requests : ran'[x].to = ran[x].to,
           now' \in Nat, now <= now', AsksStay
    PROVE  StoreInv' /\ FreshInv'
<1> USE DEF ReplayInv
<1>1. ASSUME NEW s \in Requests, Ran(s)
      PROVE  Ran(s)' /\ Keyed(s)' = Keyed(s) /\ CompositeKey(s)' = CompositeKey(s)
  <2>1. req'[s] = req[s]
    BY <1>1 DEF ClockInv, AsksStay
  <2> QED
    BY <1>1, <2>1 DEF Ran, Keyed, CompositeKey
<1>2. StoreInv'
  BY <1>1 DEF StoreInv
<1>3. ASSUME NEW s \in Requests, Ran(s), Keyed(s), Remembered(s)
      PROVE  Remembered(s)'
  <2>1. ran[s].to \in Nat /\ now \in Nat /\ Ttl \in Nat
    BY ReplayAssumption DEF ReplayTypeOK
  <2>2. CompositeKey(s)' = CompositeKey(s)
    BY <1>1, <1>3
  <2>3. CASE ran[s].to + Ttl < now
    BY <2>1, <2>3 DEF Remembered
  <2>4. CASE /\ CompositeKey(s) \in DOMAIN store
             /\ ran[s].to + Ttl <= store[CompositeKey(s)].expiresAt
    <3>1. CASE CompositeKey(s) \in d
      <4>1. store'[CompositeKey(s)] = store[CompositeKey(s)]
            /\ CompositeKey(s) \in DOMAIN store'
        BY <3>1
      <4> QED
        BY <4>1, <2>2, <2>4 DEF Remembered
    <3>2. CASE CompositeKey(s) \notin d
      <4>1. now > store[CompositeKey(s)].expiresAt
        BY <2>4, <3>2
      <4>2. store[CompositeKey(s)].expiresAt \in Nat
        BY <2>4 DEF ReplayTypeOK
      <4> QED
        BY <4>1, <4>2, <2>1, <2>4 DEF Remembered
    <3> QED
      BY <3>1, <3>2
  <2> QED
    BY <1>3, <2>3, <2>4 DEF Remembered
<1>4. FreshInv'
  <2> SUFFICES ASSUME NEW s \in Requests, Ran(s)', Keyed(s)' PROVE Remembered(s)'
    BY DEF FreshInv
  <2>1. Ran(s)
    BY DEF Ran
  <2>2. Keyed(s)
    BY <2>1, <1>1
  <2> QED
    BY <1>3, <2>1, <2>2 DEF FreshInv
<1> QED
  BY <1>2, <1>4

\* A reply x holds stays its own while no run is forgotten.
OwnReply(x, s) ==
  s = x \/ /\ Ran(s) /\ Keyed(x)
           /\ \A f \in {"scope", "key", "identity"} : req[x][f] = req[s][f]

LEMMA RepliesStay ==
    ASSUME ReplayInv, AsksStay, NEW x \in Requests, NEW s \in Requests,
           at[x] # "new", OwnReply(x, s),
           \A y \in Requests : Ran(y) => ran'[y].to = ran[y].to
    PROVE  OwnReply(x, s)'
<1> USE DEF ReplayInv
<1>1. req'[x] = req[x]
  BY DEF AsksStay
<1>2. CASE s = x
  BY <1>2 DEF OwnReply
<1>3. CASE s # x
  <2>1. Ran(s) /\ at[s] # "new"
    BY <1>3 DEF OwnReply, ClockInv
  <2>2. req'[s] = req[s] /\ Ran(s)'
    BY <2>1 DEF AsksStay, Ran
  <2> QED
    BY <1>1, <1>3, <2>2 DEF OwnReply, Keyed
<1> QED
  BY <1>2, <1>3

\* Every reply that stays in its place stays its owner's.
LEMMA OwnRepliesStay ==
    ASSUME ReplayInv, AsksStay,
           \A y \in Requests : Ran(y) => ran'[y].to = ran[y].to,
           \A x \in Requests : \/ reply'[x] = reply[x]
                               \/ reply'[x] \notin Requests
                               \/ \E s \in Requests :
                                    reply'[x] = s /\ at[x] # "new" /\ OwnReply(x, s)'
    PROVE  RepliesAreOwn'
<1> USE DEF ReplayInv
<1>1. ASSUME NEW x \in Requests, NEW s \in Requests, reply'[x] = s
      PROVE  OwnReply(x, s)'
  <2>1. CASE reply'[x] = reply[x]
    <3>1. reply[x] = s /\ at[x] # "new" /\ OwnReply(x, s)
      BY <1>1, <2>1 DEF RepliesAreOwn, OwnReply, ReplyInv
    <3> QED
      BY <3>1, RepliesStay
  <2>2. CASE reply'[x] # reply[x]
    BY <1>1, <2>2
  <2> QED
    BY <2>1, <2>2
<1> QED
  BY <1>1 DEF RepliesAreOwn, OwnReply

\* Nobody begins a handler under a key, and none ends.
LEMMA RunsStay ==
    ASSUME ReplayInv, AsksStay,
           \A x \in Requests :
             /\ ran'[x].to = ran[x].to
             /\ \/ ran'[x] = ran[x]
                \/ at[x] # "new" /\ ~Keyed(x),
           \A x \in Requests : at'[x] = "handling" => at[x] = "handling" \/ ~Keyed(x)'
    PROVE  HandlerInv' /\ OneRunPerKey'
<1> USE DEF ReplayInv
<1>1. ASSUME NEW x \in Requests, at[x] # "new"
      PROVE  /\ Keyed(x)' = Keyed(x) /\ CompositeKey(x)' = CompositeKey(x)
             /\ Ran(x)' = Ran(x)
             /\ Keyed(x) => ran'[x] = ran[x]
  BY <1>1 DEF AsksStay, Keyed, CompositeKey, Ran
<1>2. ASSUME NEW x \in Requests, Ran(x)'
      PROVE  at[x] # "new"
  BY <1>2 DEF ClockInv, Ran
<1>3. HandlerInv'
  <2> SUFFICES ASSUME NEW r \in Requests, NEW s \in Requests,
                      at'[r] = "handling", Ran(s)', SameKey(r, s)'
               PROVE  After(r, s)'
    BY DEF HandlerInv
  <2>1. at[r] = "handling" /\ Ran(s) /\ SameKey(r, s)
    BY <1>1, <1>2 DEF SameKey
  <2>2. After(r, s)
    BY <2>1 DEF HandlerInv
  <2>3. ran'[r] = ran[r] /\ ran'[s] = ran[s]
    BY <2>1, <1>1, <1>2 DEF SameKey
  <2> QED
    BY <2>2, <2>3 DEF After
<1>4. OneRunPerKey'
  <2> SUFFICES ASSUME NEW r \in Requests, NEW s \in Requests, r # s,
                      Ran(r)', Ran(s)', SameKey(r, s)'
               PROVE  After(s, r)' \/ After(r, s)'
    BY DEF OneRunPerKey, SameKey, After
  <2>1. Ran(r) /\ Ran(s) /\ SameKey(r, s)
    BY <1>1, <1>2 DEF SameKey
  <2>2. After(s, r) \/ After(r, s)
    BY <2>1 DEF OneRunPerKey, SameKey, After
  <2>3. ran'[r] = ran[r] /\ ran'[s] = ran[s]
    BY <2>1, <1>1, <1>2 DEF SameKey
  <2> QED
    BY <2>2, <2>3 DEF After
<1> QED
  BY <1>3, <1>4

\* A request under a key begins its handler: its look-up found no reply.
LEMMA DispatchKeeps ==
    ASSUME ReplayInv, AsksStay, NEW r \in Requests,
           at[r] = "queued", ~Cached(CompositeKey(r)),
           at' = [at EXCEPT ![r] = "handling"],
           ran' = [ran EXCEPT ![r].from = now]
    PROVE  HandlerInv' /\ OneRunPerKey'
<1> USE DEF ReplayInv
<1>1. ~Ran(r)
  BY DEF ClockInv
<1>2. ASSUME NEW x \in Requests, at[x] # "new"
      PROVE  /\ Keyed(x)' = Keyed(x) /\ CompositeKey(x)' = CompositeKey(x)
             /\ ran'[x].to = ran[x].to /\ Ran(x)' = Ran(x)
             /\ x # r => ran'[x] = ran[x]
  BY <1>2 DEF AsksStay, Keyed, CompositeKey, Ran, ReplayTypeOK
<1>3. ASSUME NEW x \in Requests, Ran(x)'
      PROVE  at[x] # "new" /\ Ran(x) /\ x # r
  <2>1. Ran(x)
    BY <1>3 DEF Ran, ReplayTypeOK
  <2> QED
    BY <2>1, <1>1 DEF ClockInv
<1>4. HandlerInv'
  <2> SUFFICES ASSUME NEW x \in Requests, NEW s \in Requests,
                      at'[x] = "handling", Ran(s)', SameKey(x, s)'
               PROVE  After(x, s)'
    BY DEF HandlerInv
  <2>0. at[x] # "new"
    BY DEF ReplayTypeOK
  <2>1. Ran(s) /\ SameKey(x, s) /\ s # r /\ at[s] # "new"
    BY <2>0, <1>2, <1>3 DEF SameKey
  <2>2. CASE x # r
    <3>1. After(x, s)
      BY <2>1, <2>2 DEF HandlerInv, ReplayTypeOK
    <3>2. ran'[x] = ran[x] /\ ran'[s] = ran[s]
      BY <2>0, <2>1, <2>2, <1>2
    <3> QED
      BY <3>1, <3>2 DEF After
  <2>3. CASE x = r
    <3>1. Remembered(s) /\ CompositeKey(s) = CompositeKey(r)
      BY <2>1, <2>3 DEF FreshInv, SameKey
    <3>2. CompositeKey(r) \in DOMAIN store => store[CompositeKey(r)].expiresAt \in Nat
      BY DEF ReplayTypeOK
    <3>3. now \in Nat /\ ran[s].to \in Nat /\ Ttl \in Nat
      BY ReplayAssumption DEF ReplayTypeOK
    <3>4. ran[s].to + Ttl < now
      BY <3>1, <3>2, <3>3 DEF Remembered, Cached
    <3>5. ran'[r].from = now /\ ran'[s] = ran[s]
      BY <2>1, <1>2 DEF ReplayTypeOK
    <3> QED
      BY <3>4, <3>5, <2>3 DEF After
  <2> QED
    BY <2>2, <2>3
<1>5. OneRunPerKey'
  <2> SUFFICES ASSUME NEW x \in Requests, NEW s \in Requests, x # s,
                      Ran(x)', Ran(s)', SameKey(x, s)'
               PROVE  After(s, x)' \/ After(x, s)'
    BY DEF OneRunPerKey, SameKey, After
  <2>1. Ran(x) /\ Ran(s) /\ SameKey(x, s)
    BY <1>2, <1>3 DEF SameKey
  <2>2. After(s, x) \/ After(x, s)
    BY <2>1 DEF OneRunPerKey, SameKey, After
  <2>3. ran'[x] = ran[x] /\ ran'[s] = ran[s]
    BY <1>2, <1>3
  <2> QED
    BY <2>2, <2>3 DEF After
<1> QED
  BY <1>4, <1>5

(***************************************************************************)
(* The first look-up and the edge.                                         *)
(***************************************************************************)

\* The edge brings a request up to "passed" or ends it, and moves the clock.
EdgeMoves ==
  /\ now' \in Nat /\ now <= now'
  /\ req' \in [Requests -> Arrivals \cup {CHOOSE a \in Arrivals : TRUE}]
  /\ at' \in [Requests -> Stages]
  /\ AsksStay
  /\ \A x \in Requests : at'[x] # "new" => req'[x] \in Arrivals
  /\ \A x \in Requests :
       \/ at'[x] = at[x]
       \/ /\ at[x] \in {"new", "waiting"}
          /\ at'[x] \in Final \cup {"waiting", "passed"}

LEMMA EdgeEffect ==
    ASSUME ReplayTypeOK, EdgeNext
    PROVE  EdgeMoves
<1> USE DEF ReplayTypeOK, EdgeMoves, AsksStay
<1>1. CASE Tick
  BY <1>1 DEF Tick
<1>2. CASE LoadRules
  BY <1>2 DEF LoadRules
<1>3. ASSUME NEW r \in Requests, NEW a \in Arrivals, Arrive(r, a)
      PROVE  EdgeMoves
  <2>1. /\ at[r] = "new" /\ now' = now
        /\ req' = [req EXCEPT ![r] = a]
    BY <1>3 DEF Arrive
  <2>2. PICK stage \in {"limited", "preflight", "blocked", "waiting"} :
          at' = [at EXCEPT ![r] = stage]
    BY <1>3 DEF Arrive, TestBlock, To, gatewayRateLimitHandler
  <2>3. at' \in [Requests -> Stages]
    BY <2>2 DEF Stages, Final
  <2>4. at'[r] = stage /\ \A x \in Requests \ {r} : at'[x] = at[x]
    BY <2>2
  <2> QED
    BY <2>1, <2>2, <2>3, <2>4 DEF Stages, Final
<1>4. ASSUME NEW r \in Requests, securityGatewayCore(r)
      PROVE  EdgeMoves
  <2>1. at[r] = "waiting" /\ now' = now /\ req' = req
    BY <1>4 DEF securityGatewayCore
  <2>2. PICK stage \in {"unlisted", "rejected", "passed"} : at' = [at EXCEPT ![r] = stage]
    BY <1>4 DEF securityGatewayCore, To
  <2>3. at' \in [Requests -> Stages]
    BY <2>2 DEF Stages, Final
  <2>4. at'[r] = stage /\ \A x \in Requests \ {r} : at'[x] = at[x]
    BY <2>2
  <2> QED
    BY <2>1, <2>2, <2>3, <2>4 DEF Stages, Final
<1> QED
  BY <1>1, <1>2, <1>3, <1>4 DEF EdgeNext

LEMMA EdgeKeepsReplay ==
    ASSUME ReplayInv, EdgeNext, UNCHANGED replayVars
    PROVE  ReplayInv'
<1> USE DEF ReplayInv
<1>0. EdgeMoves
  BY EdgeEffect
<1>1. chains' = chains /\ store' = store /\ ran' = ran /\ reply' = reply
  BY DEF replayVars
<1>2. ReplayTypeOK'
  <2>1. now' >= 1
    BY <1>0 DEF ReplayTypeOK, EdgeMoves
  <2> QED
    BY <1>0, <1>1, <2>1 DEF ReplayTypeOK, EdgeMoves
<1>3. \A x \in Requests : Moves(x)
  BY <1>0 DEF EdgeMoves, Moves, Begun, Final
<1>4. ChainInv' /\ MemberInv'
  BY <1>0, <1>1, <1>3, ChainsStay DEF EdgeMoves
<1>5. ClockInv'
  <2> SUFFICES ASSUME NEW x \in Requests
               PROVE  /\ ran[x].from <= now' /\ ran[x].to <= now'
                      /\ ran[x].to # 0 => at'[x] \in {"auditing", "answered"}
    BY <1>1 DEF ClockInv, Ran
  <2>1. ran[x].from \in Nat /\ ran[x].to \in Nat /\ now \in Nat /\ now' \in Nat /\ now <= now'
    BY <1>0 DEF ReplayTypeOK, EdgeMoves
  <2>2. ran[x].from <= now /\ ran[x].to <= now
    BY DEF ClockInv
  <2>3. ran[x].to # 0 => at[x] \in {"auditing", "answered"}
    BY DEF ClockInv, Ran
  <2>4. at[x] \in {"auditing", "answered"} => at'[x] = at[x]
    BY <1>0 DEF EdgeMoves
  <2> QED
    BY <2>1, <2>2, <2>3, <2>4
<1>6. StoreInv' /\ FreshInv'
  <2>1. store' = [k \in DOMAIN store |-> store[k]]
    BY <1>1 DEF ReplayTypeOK
  <2> QED
    BY <1>0, <1>1, <2>1, StoreStays DEF EdgeMoves
<1>7. HandlerInv' /\ OneRunPerKey'
  <2>1. \A x \in Requests : at'[x] = "handling" => at[x] = "handling"
    BY <1>0 DEF EdgeMoves, Final
  <2> QED
    BY <1>0, <1>1, <2>1, RunsStay DEF EdgeMoves
<1>8. ReplyInv' /\ RepliesAreOwn'
  <2>1. ReplyInv'
    BY <1>0, <1>1 DEF EdgeMoves, ReplyInv
  <2>2. \A x \in Requests : ran'[x].to = ran[x].to
    BY <1>1
  <2>3. RepliesAreOwn'
    BY <1>0, <1>1, <2>2, OwnRepliesStay DEF EdgeMoves
  <2> QED
    BY <2>1, <2>3
<1> QED
  BY <1>2, <1>4, <1>5, <1>6, <1>7, <1>8

\* What is common to the steps of a request r in the orchestrator.
At(r, stage) == at' = [at EXCEPT ![r] = stage]
SameEdge == now' = now /\ req' = req

LEMMA StepEffect ==
    ASSUME ReplayTypeOK, NEW r \in Requests, NEW stage \in Stages,
           At(r, stage), SameEdge
    PROVE  /\ now' \in Nat /\ now' >= 1 /\ now <= now' /\ AsksStay
           /\ at' \in [Requests -> Stages] /\ req' \in [Requests -> Arrivals \cup {CHOOSE a \in Arrivals : TRUE}]
           /\ at'[r] = stage /\ \A x \in Requests \ {r} : at'[x] = at[x]
           /\ at[r] # "new" => \A x \in Requests : at'[x] # "new" => req'[x] \in Arrivals
           /\ \A x : Keyed(x)' = Keyed(x) /\ CompositeKey(x)' = CompositeKey(x)
BY DEF ReplayTypeOK, At, SameEdge, AsksStay, Keyed, CompositeKey

\* A step of r that keeps the store, the chains and the runs.
LEMMA QuietStep ==
    ASSUME ReplayInv, NEW r \in Requests, NEW stage \in Stages,
           At(r, stage), SameEdge, at[r] # "new", Moves(r),
           stage \notin {"new", "handling"},
           chains' = chains, ran' = ran,
           NEW d \in SUBSET DOMAIN store, store' = [k \in d |-> store[k]],
           \A k \in DOMAIN store \ d : now > store[k].expiresAt,
           Ran(r) => stage \in {"auditing", "answered"},
           reply' \in [Requests -> Requests \cup {None, "error"}],
           \A x \in Requests \ {r} : reply'[x] = reply[x],
           \/ reply'[r] = reply[r] /\ (reply[r] \in Requests => stage \in {"auditing", "answered"})
           \/ reply'[r] \notin Requests
           \/ /\ stage \in {"auditing", "answered"}
              /\ \E s \in Requests : reply'[r] = s /\ OwnReply(r, s)'
    PROVE  ReplayInv'
<1> USE DEF ReplayInv
<1>0. /\ now' \in Nat /\ now' >= 1 /\ now <= now' /\ AsksStay
      /\ at' \in [Requests -> Stages] /\ req' \in [Requests -> Arrivals \cup {CHOOSE a \in Arrivals : TRUE}]
      /\ at'[r] = stage /\ \A x \in Requests \ {r} : at'[x] = at[x]
      /\ \A x \in Requests : at'[x] # "new" => req'[x] \in Arrivals
      /\ now' = now
  BY StepEffect DEF SameEdge
<1>1. ReplayTypeOK'
  <2>1. store' \in [DOMAIN store' -> [run : Requests, expiresAt : Nat]]
    BY DEF ReplayTypeOK
  <2> QED
    BY <1>0, <2>1 DEF ReplayTypeOK
<1>2. ChainInv' /\ MemberInv'
  <2>1. \A x \in Requests : Moves(x)
    BY <1>0 DEF Moves
  <2> QED
    BY <1>0, <2>1, ChainsStay
<1>3. ClockInv'
  BY <1>0 DEF ClockInv, Ran
<1>4. StoreInv' /\ FreshInv'
  BY <1>0, StoreStays
<1>5. HandlerInv' /\ OneRunPerKey'
  <2>1. \A x \in Requests : at'[x] = "handling" => at[x] = "handling"
    BY <1>0
  <2>2. \A x \in Requests : ran'[x] = ran[x]
    OBVIOUS
  <2> QED
    BY <1>0, <2>1, <2>2, RunsStay
<1>6. ReplyInv'
  BY <1>0 DEF ReplyInv
<1>7. RepliesAreOwn'
  <2>1. ASSUME NEW x \in Requests
        PROVE  \/ reply'[x] = reply[x]
               \/ reply'[x] \notin Requests
               \/ \E s \in Requests : reply'[x] = s /\ at[x] # "new" /\ OwnReply(x, s)'
    <3>1. CASE x = r
      BY <3>1
    <3>2. CASE x # r
      BY <3>2
    <3> QED
      BY <3>1, <3>2
  <2>2. \A y \in Requests : Ran(y) => ran'[y].to = ran[y].to
    OBVIOUS
  <2> QED
    BY <1>0, <2>1, <2>2, OwnRepliesStay
<1> QED
  BY <1>1, <1>2, <1>3, <1>4, <1>5, <1>6, <1>7

\* A cached reply is the requester's own.
LEMMA CachedIsOwn ==
    ASSUME ReplayInv, NEW r \in Requests, Keyed(r), Cached(CompositeKey(r)),
           UNCHANGED <<req, ran>>
    PROVE  /\ store[CompositeKey(r)].run \in Requests
           /\ \E s \in Requests : store[CompositeKey(r)].run = s /\ OwnReply(r, s)'
<1>1. PICK s \in Requests : /\ s = store[CompositeKey(r)].run
                            /\ Ran(s) /\ CompositeKey(s) = CompositeKey(r)
  BY DEF ReplayInv, StoreInv, Cached
<1>2. \A f \in {"scope", "key", "identity"} : req[r][f] = req[s][f]
  BY <1>1 DEF CompositeKey, buildCompositeCacheKey
<1>3. OwnReply(r, s)'
  BY <1>1, <1>2 DEF OwnReply, Ran, Keyed
<1> QED
  BY <1>1, <1>3

\* The store after a look-up is the store less an expired entry.
LEMMA LookedStore ==
    ASSUME ReplayTypeOK, NEW k
    PROVE  \E d \in SUBSET DOMAIN store :
             /\ Looked(k) = [x \in d |-> store[x]]
             /\ \A x \in DOMAIN store \ d : now > store[x].expiresAt
<1>1. CASE k \in DOMAIN store /\ now > store[k].expiresAt
  <2> DEFINE d == DOMAIN store \ {k}
  <2>1. d \in SUBSET DOMAIN store /\ Looked(k) = [x \in d |-> store[x]]
    BY <1>1 DEF Looked
  <2>2. \A x \in DOMAIN store \ d : now > store[x].expiresAt
    BY <1>1
  <2> QED
    BY <2>1, <2>2
<1>2. CASE ~(k \in DOMAIN store /\ now > store[k].expiresAt)
  <2>1. Looked(k) = [x \in DOMAIN store |-> store[x]]
    BY <1>2 DEF Looked, ReplayTypeOK
  <2> QED
    BY <2>1
<1> QED
  BY <1>1, <1>2

(***************************************************************************)
(* The steps of a request in the orchestrator, one by one.                 *)
(***************************************************************************)

LEMMA FailKeeps ==
    ASSUME ReplayInv, NEW r \in Requests, HandlerFails(r)
    PROVE  ReplayInv'
<1> USE DEF ReplayInv
<1> DEFINE stage == IF Keyed(r) THEN "auditing" ELSE "answered"
<1>1. At(r, stage) /\ SameEdge /\ stage \in Stages /\ at[r] = "handling"
  BY DEF HandlerFails, To, At, SameEdge, edgeButAt, Stages
<1>2. Moves(r)
  <2>1. at'[r] = stage
    BY <1>1 DEF At, ReplayTypeOK
  <2> QED
    BY <1>1, <2>1 DEF Moves
<1>3. chains' = chains /\ ran' = ran /\ store' = [k \in DOMAIN store |-> store[k]]
  BY DEF HandlerFails, ReplayTypeOK
<1>4. /\ reply' \in [Requests -> Requests \cup {None, "error"}]
      /\ \A x \in Requests \ {r} : reply'[x] = reply[x]
      /\ reply'[r] = "error"
  BY DEF HandlerFails, ReplayTypeOK
<1>5. "error" \notin Requests
  BY ReplayAssumption
<1> HIDE DEF stage
<1>6. stage \in {"auditing", "answered"}
  BY DEF stage
<1> QED
  BY <1>1, <1>2, <1>3, <1>4, <1>5, <1>6, QuietStep

\* A reply is replayed, by either look-up.
LEMMA ReplayKeeps ==
    ASSUME ReplayInv, NEW r \in Requests, at[r] # "new", Keyed(r), Cached(CompositeKey(r)),
           reply' = [reply EXCEPT ![r] = store[CompositeKey(r)].run],
           At(r, "auditing"), SameEdge, Moves(r),
           UNCHANGED <<store, chains, ran>>
    PROVE  ReplayInv'
<1> USE DEF ReplayInv
<1>1. /\ store[CompositeKey(r)].run \in Requests
      /\ \E s \in Requests : store[CompositeKey(r)].run = s /\ OwnReply(r, s)'
  BY CachedIsOwn DEF SameEdge
<1>2. /\ reply' \in [Requests -> Requests \cup {None, "error"}]
      /\ \A x \in Requests \ {r} : reply'[x] = reply[x]
      /\ reply'[r] = store[CompositeKey(r)].run
  BY <1>1 DEF ReplayTypeOK
<1>3. store' = [k \in DOMAIN store |-> store[k]]
  BY DEF ReplayTypeOK
<1>4. "auditing" \in Stages
  BY DEF Stages
<1> QED
  BY <1>1, <1>2, <1>3, <1>4, QuietStep

LEMMA TurnKeeps ==
    ASSUME ReplayInv, NEW r \in Requests, Turn(r)
    PROVE  ReplayInv'
<1> USE DEF ReplayInv
<1>0. /\ at[r] = "queued" /\ SameEdge /\ chains' = chains
      /\ Head(chains[CompositeKey(r)]) = r
  BY DEF Turn, SameEdge, edgeButAt
<1>1. Keyed(r)
  <2>1. PICK i \in 1..Len(chains[CompositeKey(r)]) : chains[CompositeKey(r)][i] = r
    BY <1>0 DEF MemberInv, Holds, InChain
  <2> QED
    BY <1>0, <2>1, KeyOfRequest DEF ChainInv
<1>2. CASE /\ Cached(CompositeKey(r))
           /\ reply' = [reply EXCEPT ![r] = store[CompositeKey(r)].run]
           /\ To(r, "auditing")
           /\ UNCHANGED <<store, ran>>
  <2>1. At(r, "auditing") /\ at'[r] = "auditing"
    BY <1>2 DEF To, At, ReplayTypeOK
  <2>2. Moves(r)
    BY <1>0, <2>1 DEF Moves
  <2> QED
    BY <1>0, <1>1, <1>2, <2>1, <2>2, ReplayKeeps
<1>3. CASE /\ ~Cached(CompositeKey(r))
           /\ store' = Looked(CompositeKey(r))
           /\ Dispatch(r)
           /\ UNCHANGED reply
  <2>1. /\ At(r, "handling") /\ "handling" \in Stages
        /\ ran' = [ran EXCEPT ![r].from = now]
    BY <1>3 DEF Dispatch, To, At, Stages
  <2>2. /\ now' \in Nat /\ now' >= 1 /\ now <= now' /\ AsksStay
        /\ at' \in [Requests -> Stages] /\ req' \in [Requests -> Arrivals \cup {CHOOSE a \in Arrivals : TRUE}]
        /\ at'[r] = "handling" /\ \A x \in Requests \ {r} : at'[x] = at[x]
        /\ \A x \in Requests : at'[x] # "new" => req'[x] \in Arrivals
        /\ now' = now
    BY <1>0, <2>1, StepEffect DEF SameEdge
  <2>3. PICK d \in SUBSET DOMAIN store :
          /\ store' = [x \in d |-> store[x]]
          /\ \A x \in DOMAIN store \ d : now > store[x].expiresAt
    BY <1>3, LookedStore
  <2>4. /\ ran' \in [Requests -> [from : Nat, to : Nat]]
        /\ \A x \in Requests : ran'[x].to = ran[x].to
        /\ \A x \in Requests \ {r} : ran'[x] = ran[x]
        /\ ran'[r].from = now
    BY <2>1 DEF ReplayTypeOK
  <2>5. ReplayTypeOK'
    <3>1. store' \in [DOMAIN store' -> [run : Requests, expiresAt : Nat]]
      BY <2>3 DEF ReplayTypeOK
    <3> QED
      BY <1>0, <1>3, <2>2, <2>4, <3>1 DEF ReplayTypeOK
  <2>6. ChainInv' /\ MemberInv'
    <3>1. \A x \in Requests : Moves(x)
      BY <1>0, <2>2 DEF Moves
    <3> QED
      BY <1>0, <2>2, <3>1, ChainsStay
  <2>7. ClockInv'
    <3>1. ~Ran(r)
      BY <1>0 DEF ClockInv
    <3>2. now \in Nat
      BY DEF ReplayTypeOK
    <3> QED
      BY <2>2, <2>4, <3>1, <3>2 DEF ClockInv, Ran
  <2>8. HandlerInv' /\ OneRunPerKey'
    BY <1>0, <1>3, <2>1, <2>2, DispatchKeeps DEF At
  <2>9. StoreInv' /\ FreshInv'
    BY <2>2, <2>3, <2>4, StoreStays
  <2>10. ReplyInv'
    BY <1>0, <1>3, <2>2 DEF ReplyInv
  <2>11. RepliesAreOwn'
    BY <1>3, <2>2, <2>4, OwnRepliesStay
  <2> QED
    BY <2>5, <2>6, <2>7, <2>8, <2>9, <2>10, <2>11
<1> QED
  BY <1>2, <1>3 DEF Turn

\* Whoever works under a key is the first of its chain.
LEMMA HandlerIsFirst ==
    ASSUME ReplayInv, NEW r \in Requests, at[r] = "handling", Keyed(r)
    PROVE  /\ CompositeKey(r) \in AllKeys
           /\ 1 \in 1..Len(chains[CompositeKey(r)])
           /\ chains[CompositeKey(r)][1] = r
<1> USE DEF ReplayInv
<1>1. CompositeKey(r) \in AllKeys
  BY KeyOfRequest
<1>2. PICK i \in 1..Len(chains[CompositeKey(r)]) : chains[CompositeKey(r)][i] = r
  BY DEF MemberInv, Holds, InChain
<1>3. i = 1
  BY <1>1, <1>2 DEF ChainInv
<1> QED
  BY <1>1, <1>2, <1>3

\* The request joins the chain of its key.
LEMMA JoinKeeps ==
    ASSUME ReplayInv, NEW r \in Requests, at[r] = "passed", Keyed(r),
           At(r, "queued"), SameEdge,
           chains' = [chains EXCEPT ![CompositeKey(r)] = Append(@, r)]
    PROVE  ChainInv' /\ MemberInv' /\ chains' \in [AllKeys -> Seq(Requests)]
<1> USE DEF ReplayInv
<1> DEFINE key == CompositeKey(r)  n == Len(chains[key])
<1>1. key \in AllKeys
  BY KeyOfRequest
<1>2. chains[key] \in Seq(Requests) /\ n \in Nat
  BY <1>1 DEF ReplayTypeOK
<1>3. /\ chains'[key] = Append(chains[key], r)
      /\ \A k \in AllKeys \ {key} : chains'[k] = chains[k]
  BY <1>1 DEF ReplayTypeOK
<1>4. /\ Append(chains[key], r) \in Seq(Requests)
      /\ Len(Append(chains[key], r)) = n + 1
      /\ \A i \in 1..n : Append(chains[key], r)[i] = chains[key][i]
      /\ Append(chains[key], r)[n + 1] = r
  BY <1>2, AppendProperties
<1>5. /\ at'[r] = "queued" /\ \A x \in Requests \ {r} : at'[x] = at[x]
      /\ \A x : Keyed(x)' = Keyed(x) /\ CompositeKey(x)' = CompositeKey(x)
  BY StepEffect DEF Stages
<1>6. ASSUME NEW k \in AllKeys, NEW i \in 1..Len(chains[k])
      PROVE  /\ chains[k][i] \in Requests /\ chains[k][i] # r
             /\ Keyed(chains[k][i]) /\ CompositeKey(chains[k][i]) = k
             /\ at'[chains[k][i]] = at[chains[k][i]] /\ at[chains[k][i]] \in Begun
             /\ i # 1 => at[chains[k][i]] = "queued"
  <2>1. chains[k][i] \in Requests
    BY ElementOfSeq DEF ReplayTypeOK
  <2>2. /\ Keyed(chains[k][i]) /\ CompositeKey(chains[k][i]) = k
        /\ at[chains[k][i]] \in Begun
        /\ i # 1 => at[chains[k][i]] = "queued"
    BY DEF ChainInv
  <2>3. chains[k][i] # r
    BY <2>2 DEF Begun
  <2> QED
    BY <1>5, <2>1, <2>2, <2>3
<1>7. ChainInv'
  <2> SUFFICES ASSUME NEW k \in AllKeys
               PROVE  /\ \A i \in 1..Len(chains'[k]) :
                           /\ Keyed(chains'[k][i]) /\ CompositeKey(chains'[k][i]) = k
                           /\ at'[chains'[k][i]] \in Begun
                           /\ i # 1 => at'[chains'[k][i]] = "queued"
                      /\ \A i, j \in 1..Len(chains'[k]) : chains'[k][i] = chains'[k][j] => i = j
    BY <1>5 DEF ChainInv, Keyed, CompositeKey, SameEdge
  <2>1. CASE k # key
    <3>1. chains'[k] = chains[k]
      BY <1>3, <2>1
    <3>2. \A i, j \in 1..Len(chains[k]) : chains[k][i] = chains[k][j] => i = j
      BY DEF ChainInv
    <3>3. \A i, j \in 1..Len(chains'[k]) : chains'[k][i] = chains'[k][j] => i = j
      BY <3>1, <3>2
    <3>4. ASSUME NEW i \in 1..Len(chains'[k])
          PROVE  /\ Keyed(chains'[k][i]) /\ CompositeKey(chains'[k][i]) = k
                 /\ at'[chains'[k][i]] \in Begun
                 /\ i # 1 => at'[chains'[k][i]] = "queued"
      <4>1. i \in 1..Len(chains[k]) /\ chains'[k][i] = chains[k][i]
        BY <3>1
      <4>2. /\ Keyed(chains[k][i]) /\ CompositeKey(chains[k][i]) = k
            /\ at'[chains[k][i]] \in Begun
            /\ i # 1 => at'[chains[k][i]] = "queued"
        BY <1>6, <4>1
      <4> QED
        BY <4>1, <4>2
    <3> QED
      BY <3>3, <3>4
  <2>2. CASE k = key
    <3>1. Len(chains'[k]) = n + 1 /\ 1..(n + 1) = (1..n) \cup {n + 1}
      BY <1>2, <1>3, <1>4, <2>2
    <3>2. \A i \in 1..n : chains'[k][i] = chains[key][i]
      BY <1>3, <1>4, <2>2
    <3>3. chains'[k][n + 1] = r
      BY <1>3, <1>4, <2>2
    <3>4. \A i, j \in 1..n : chains[key][i] = chains[key][j] => i = j
      BY <1>1 DEF ChainInv
    <3>5. \A i \in 1..n : chains[key][i] # r
      BY <1>1, <1>6
    <3>6. \A i, j \in 1..Len(chains'[k]) : chains'[k][i] = chains'[k][j] => i = j
      BY <3>1, <3>2, <3>3, <3>4, <3>5
    <3>7. ASSUME NEW i \in 1..Len(chains'[k])
          PROVE  /\ Keyed(chains'[k][i]) /\ CompositeKey(chains'[k][i]) = k
                 /\ at'[chains'[k][i]] \in Begun
                 /\ i # 1 => at'[chains'[k][i]] = "queued"
      <4>1. CASE i = n + 1
        BY <4>1, <3>3, <1>5, <2>2 DEF Begun
      <4>2. CASE i \in 1..n
        BY <4>2, <3>2, <1>1, <1>6, <2>2
      <4> QED
        BY <3>1, <4>1, <4>2
    <3> QED
      BY <3>6, <3>7
  <2> QED
    BY <2>1, <2>2
<1>8. MemberInv'
  <2> SUFFICES ASSUME NEW x \in Requests, Holds(x)' PROVE InChain(x)'
    BY DEF MemberInv
  <2>1. CASE x = r
    <3>1. n + 1 \in 1..Len(chains'[key]) /\ chains'[key][n + 1] = r
      BY <1>2, <1>3, <1>4
    <3> QED
      BY <2>1, <3>1, <1>5 DEF InChain
  <2>2. CASE x # r
    <3>1. Holds(x) /\ CompositeKey(x)' = CompositeKey(x)
      BY <2>2, <1>5 DEF Holds
    <3>2. CompositeKey(x) \in AllKeys
      BY <3>1, KeyOfRequest DEF Holds
    <3>3. PICK i \in 1..Len(chains[CompositeKey(x)]) : chains[CompositeKey(x)][i] = x
      BY <3>1 DEF MemberInv, InChain
    <3>4. i \in 1..Len(chains'[CompositeKey(x)]) /\ chains'[CompositeKey(x)][i] = x
      BY <1>2, <1>3, <1>4, <3>2, <3>3
    <3> QED
      BY <3>1, <3>4 DEF InChain
  <2> QED
    BY <2>1, <2>2
<1>9. chains' \in [AllKeys -> Seq(Requests)]
  BY <1>1, <1>4 DEF ReplayTypeOK
<1> QED
  BY <1>7, <1>8, <1>9

\* A request whose audit is done leaves the chain it is the first of.
LEMMA LeaveKeeps ==
    ASSUME ReplayInv, NEW r \in Requests, at[r] = "auditing",
           At(r, "answered"), SameEdge, chains' = Leave(r)
    PROVE  ChainInv' /\ MemberInv' /\ chains' \in [AllKeys -> Seq(Requests)]
<1> USE DEF ReplayInv
<1>1. /\ at'[r] = "answered" /\ \A x \in Requests \ {r} : at'[x] = at[x]
      /\ \A x : Keyed(x)' = Keyed(x) /\ CompositeKey(x)' = CompositeKey(x)
  BY StepEffect DEF Stages
<1> DEFINE first(k) == chains[k] # <<>> /\ Head(chains[k]) = r
           off(k) == IF first(k) THEN 1 ELSE 0
<1>2. ASSUME NEW k \in AllKeys
      PROVE  /\ chains[k] \in Seq(Requests) /\ Len(chains[k]) \in Nat
             /\ chains'[k] \in Seq(Requests)
             /\ Len(chains'[k]) = Len(chains[k]) - off(k)
             /\ \A i \in 1..Len(chains'[k]) : chains'[k][i] = chains[k][i + off(k)]
             /\ off(k) \in {0, 1}
             /\ off(k) = 1 <=> (1 \in 1..Len(chains[k]) /\ chains[k][1] = r)
  <2>1. chains[k] \in Seq(Requests) /\ Len(chains[k]) \in Nat
    BY DEF ReplayTypeOK
  <2>2. CASE first(k)
    <3>1. chains'[k] = Tail(chains[k])
      BY <2>2 DEF Leave
    <3>2. /\ Tail(chains[k]) \in Seq(Requests)
          /\ Len(Tail(chains[k])) = Len(chains[k]) - 1
          /\ \A i \in 1..Len(Tail(chains[k])) : Tail(chains[k])[i] = chains[k][i + 1]
      BY <2>1, <2>2, HeadTailProperties
    <3>3. 1 \in 1..Len(chains[k]) /\ chains[k][1] = r
      BY <2>1, <2>2
    <3>4. off(k) = 1
      BY <2>2
    <3> HIDE DEF off
    <3> QED
      BY <2>1, <3>1, <3>2, <3>3, <3>4
  <2>3. CASE ~first(k)
    <3>1. chains'[k] = chains[k]
      BY <2>3 DEF Leave
    <3>2. off(k) = 0
      BY <2>3
    <3>3. ~(1 \in 1..Len(chains[k]) /\ chains[k][1] = r)
      BY <2>1, <2>3
    <3>4. \A i \in 1..Len(chains[k]) : chains[k][i] = chains[k][i + 0]
      OBVIOUS
    <3> HIDE DEF off, first
    <3> QED
      BY <2>1, <3>1, <3>2, <3>3, <3>4
  <2> QED
    BY <2>2, <2>3
<1> HIDE DEF off, first
<1>3. ASSUME NEW k \in AllKeys, NEW i \in 1..Len(chains'[k])
      PROVE  i + off(k) \in 1..Len(chains[k]) /\ i + off(k) \in Nat
  BY <1>2
<1>4. ASSUME NEW k \in AllKeys, NEW i \in 1..Len(chains'[k])
      PROVE  /\ Keyed(chains'[k][i]) /\ CompositeKey(chains'[k][i]) = k
             /\ at'[chains'[k][i]] \in Begun
             /\ i # 1 => at'[chains'[k][i]] = "queued"
  <2> DEFINE j == i + off(k)  x == chains[k][j]
  <2>1. j \in 1..Len(chains[k]) /\ chains'[k][i] = x /\ x \in Requests
    BY <1>2, <1>3, ElementOfSeq
  <2>2. /\ Keyed(x) /\ CompositeKey(x) = k /\ at[x] \in Begun
        /\ j # 1 => at[x] = "queued"
    BY <2>1 DEF ChainInv
  <2>3. x # r
    <3> SUFFICES ASSUME x = r PROVE FALSE
      OBVIOUS
    <3>1. j = 1
      BY <2>2
    <3>2. 1 \in 1..Len(chains[k]) /\ chains[k][1] = r
      BY <2>1, <3>1
    <3>3. off(k) = 1 /\ i \in Nat /\ i >= 1
      BY <1>2, <3>2
    <3> QED
      BY <3>1, <3>3
  <2>4. i # 1 => j # 1
    BY <1>2
  <2> QED
    BY <1>1, <2>1, <2>2, <2>3, <2>4
<1>5. ChainInv'
  <2> SUFFICES ASSUME NEW k \in AllKeys
               PROVE  /\ \A i \in 1..Len(chains'[k]) :
                           /\ Keyed(chains'[k][i]) /\ CompositeKey(chains'[k][i]) = k
                           /\ at'[chains'[k][i]] \in Begun
                           /\ i # 1 => at'[chains'[k][i]] = "queued"
                      /\ \A i, j \in 1..Len(chains'[k]) : chains'[k][i] = chains'[k][j] => i = j
    BY <1>1 DEF ChainInv, Keyed, CompositeKey, SameEdge
  <2>1. ASSUME NEW i \in 1..Len(chains'[k]), NEW j \in 1..Len(chains'[k]),
               chains'[k][i] = chains'[k][j]
        PROVE  i = j
    <3> DEFINE a == i + off(k)  b == j + off(k)
    <3>1. a \in 1..Len(chains[k]) /\ b \in 1..Len(chains[k])
      BY <1>3
    <3>2. chains[k][a] = chains[k][b]
      BY <1>2, <2>1
    <3>3. a = b
      BY <3>1, <3>2 DEF ChainInv
    <3> QED
      BY <1>2, <3>3
  <2> QED
    BY <1>4, <2>1
<1>6. MemberInv'
  <2> SUFFICES ASSUME NEW x \in Requests, Holds(x)' PROVE InChain(x)'
    BY DEF MemberInv
  <2>1. x # r /\ Holds(x) /\ CompositeKey(x)' = CompositeKey(x)
    BY <1>1 DEF Holds
  <2>2. CompositeKey(x) \in AllKeys
    BY <2>1, KeyOfRequest DEF Holds
  <2>3. PICK i \in 1..Len(chains[CompositeKey(x)]) : chains[CompositeKey(x)][i] = x
    BY <2>1 DEF MemberInv, InChain
  <2> DEFINE k == CompositeKey(x)
  <2>4. off(k) = 1 => i # 1
    BY <1>2, <2>1, <2>2, <2>3
  <2>5. i - off(k) \in 1..Len(chains'[k]) /\ (i - off(k)) + off(k) = i
    BY <1>2, <2>2, <2>4
  <2>6. chains'[k][i - off(k)] = x
    BY <1>2, <2>2, <2>3, <2>5
  <2> QED
    BY <2>1, <2>5, <2>6 DEF InChain
<1>7. chains' \in [AllKeys -> Seq(Requests)]
  <2>1. chains' = [k \in AllKeys |-> chains'[k]]
    BY DEF Leave
  <2>2. \A k \in AllKeys : chains'[k] \in Seq(Requests)
    BY <1>2
  <2> QED
    BY <2>1, <2>2
<1> QED
  BY <1>5, <1>6, <1>7

\* A handler answers: its time is over, and its reply is kept if it has a key.
LEMMA AnswerKeeps ==
    ASSUME ReplayInv, NEW r \in Requests, HandlerAnswers(r)
    PROVE  ReplayInv'
<1> USE DEF ReplayInv
<1> DEFINE stage == IF Keyed(r) THEN "auditing" ELSE "answered"
<1>1. /\ At(r, stage) /\ SameEdge /\ stage \in Stages /\ at[r] = "handling"
      /\ chains' = chains /\ stage \in {"auditing", "answered"}
  BY DEF HandlerAnswers, To, At, SameEdge, edgeButAt, Stages
<1> HIDE DEF stage
<1>2. /\ now' \in Nat /\ now' >= 1 /\ now <= now' /\ AsksStay
      /\ at' \in [Requests -> Stages] /\ req' \in [Requests -> Arrivals \cup {CHOOSE a \in Arrivals : TRUE}]
      /\ at'[r] = stage /\ \A x \in Requests \ {r} : at'[x] = at[x]
      /\ \A x \in Requests : at'[x] # "new" => req'[x] \in Arrivals
      /\ now' = now
      /\ \A x : Keyed(x)' = Keyed(x) /\ CompositeKey(x)' = CompositeKey(x)
  BY <1>1, StepEffect DEF SameEdge
<1>3. /\ now \in Nat /\ now >= 1 /\ Ttl \in Nat
  BY ReplayAssumption DEF ReplayTypeOK
<1>4. /\ ran' \in [Requests -> [from : Nat, to : Nat]]
      /\ \A x \in Requests \ {r} : ran'[x] = ran[x]
      /\ ran'[r].to = now /\ ran'[r].from = ran[r].from
  BY DEF HandlerAnswers, ReplayTypeOK
<1>5. /\ reply' \in [Requests -> Requests \cup {None, "error"}]
      /\ \A x \in Requests \ {r} : reply'[x] = reply[x]
      /\ reply'[r] = r
  BY DEF HandlerAnswers, ReplayTypeOK
<1>6. ~Ran(r) /\ Ran(r)'
  BY <1>1, <1>3, <1>4 DEF ClockInv, Ran
<1>7. \A x \in Requests \ {r} : Ran(x)' = Ran(x)
  BY <1>4 DEF Ran
<1> DEFINE key == CompositeKey(r)
<1>8. /\ Keyed(r) => /\ store' = Remembering(r)
                     /\ key \in DOMAIN store' /\ store'[key] = [run |-> r, expiresAt |-> now + Ttl]
                     /\ DOMAIN store' = DOMAIN store \cup {key}
                     /\ \A k \in DOMAIN store' \ {key} : store'[k] = store[k]
      /\ ~Keyed(r) => store' = store
  BY DEF HandlerAnswers, Remembering
<1>9. ReplayTypeOK'
  <2>1. CASE Keyed(r)
    <3>1. [run |-> r, expiresAt |-> now + Ttl] \in [run : Requests, expiresAt : Nat]
      BY <1>3
    <3>2. \A k \in DOMAIN store' : store'[k] \in [run : Requests, expiresAt : Nat]
      BY <1>8, <2>1, <3>1 DEF ReplayTypeOK
    <3>3. store' = [k \in DOMAIN store' |-> store'[k]]
      BY <1>8, <2>1 DEF Remembering
    <3>4. store' \in [DOMAIN store' -> [run : Requests, expiresAt : Nat]]
      BY <3>2, <3>3
    <3> QED
      BY <1>1, <1>2, <1>4, <1>5, <3>4 DEF ReplayTypeOK
  <2>2. CASE ~Keyed(r)
    BY <1>1, <1>2, <1>4, <1>5, <1>8, <2>2 DEF ReplayTypeOK
  <2> QED
    BY <2>1, <2>2
<1>10. ChainInv' /\ MemberInv'
  <2>1. \A x \in Requests : Moves(x)
    BY <1>1, <1>2 DEF Moves, stage
  <2> QED
    BY <1>1, <1>2, <2>1, ChainsStay
<1>11. ClockInv'
  <2>1. ASSUME NEW x \in Requests
        PROVE  /\ ran'[x].from <= now /\ ran'[x].to <= now
               /\ ran'[x].to # 0 => at'[x] \in {"auditing", "answered"}
    <3>1. ran[x].from <= now /\ ran[x].to <= now
      BY DEF ClockInv
    <3>2. ran[x].to # 0 => at[x] \in {"auditing", "answered"}
      BY DEF ClockInv, Ran
    <3> QED
      BY <1>1, <1>2, <1>3, <1>4, <3>1, <3>2
  <2> QED
    BY <1>2, <2>1 DEF ClockInv, Ran
<1>12. StoreInv'
  <2> SUFFICES ASSUME NEW k \in DOMAIN store'
               PROVE  \E s \in Requests :
                        /\ s = store'[k].run /\ Ran(s)' /\ Keyed(s)' /\ CompositeKey(s)' = k
                        /\ store'[k].expiresAt = ran'[s].to + Ttl
    BY DEF StoreInv, Ran, Keyed, CompositeKey
  <2>1. CASE Keyed(r) /\ k = key
    <3>1. store'[k].run = r /\ store'[k].expiresAt = now + Ttl
      BY <1>8, <2>1
    <3> QED
      BY <1>2, <1>4, <1>6, <2>1, <3>1
  <2>2. CASE ~(Keyed(r) /\ k = key)
    <3>1. k \in DOMAIN store /\ store'[k] = store[k]
      BY <1>8, <2>2
    <3>2. PICK s \in Requests :
             /\ s = store[k].run /\ Ran(s) /\ Keyed(s) /\ CompositeKey(s) = k
             /\ store[k].expiresAt = ran[s].to + Ttl
      BY <3>1 DEF StoreInv
    <3>3. s # r
      BY <1>6, <3>2
    <3> QED
      BY <1>2, <1>4, <1>7, <3>1, <3>2, <3>3
  <2> QED
    BY <2>1, <2>2
<1>13. FreshInv'
  <2> SUFFICES ASSUME NEW s \in Requests, Ran(s)', Keyed(s)' PROVE Remembered(s)'
    BY DEF FreshInv
  <2>1. CASE s = r
    BY <1>2, <1>3, <1>4, <1>8, <2>1 DEF Remembered
  <2>2. CASE s # r
    <3>1. Remembered(s) /\ ran'[s] = ran[s] /\ CompositeKey(s)' = CompositeKey(s)
      BY <1>2, <1>4, <1>7, <2>2 DEF FreshInv
    <3>2. ran[s].to <= now /\ ran[s].to \in Nat
      BY DEF ClockInv, ReplayTypeOK
    <3>3. CASE Keyed(r) /\ CompositeKey(s) = key
      <4>1. store'[key].expiresAt = now + Ttl /\ key \in DOMAIN store'
        BY <1>8, <3>3
      <4> QED
        BY <1>3, <3>1, <3>2, <3>3, <4>1 DEF Remembered
    <3>4. CASE ~(Keyed(r) /\ CompositeKey(s) = key)
      <4>1. CompositeKey(s) \in DOMAIN store =>
              CompositeKey(s) \in DOMAIN store' /\ store'[CompositeKey(s)] = store[CompositeKey(s)]
        BY <1>8, <3>4
      <4> QED
        BY <1>2, <3>1, <4>1 DEF Remembered
    <3> QED
      BY <3>3, <3>4
  <2> QED
    BY <2>1, <2>2
<1>14. ASSUME NEW x \in Requests, NEW s \in Requests, SameKey(x, s)', Ran(s)', x # s,
              x = r \/ at'[x] = "handling"
       PROVE  After(x, s)'
  <2>1. SameKey(x, s)
    BY <1>2, <1>14 DEF SameKey
  <2>2. at[x] = "handling"
    BY <1>1, <1>2, <1>14
  <2>3. s # r
    <3> SUFFICES ASSUME s = r PROVE FALSE
      OBVIOUS
    <3>1. chains[CompositeKey(x)][1] = x /\ chains[CompositeKey(r)][1] = r
      BY <1>1, <2>1, <2>2, HandlerIsFirst DEF SameKey
    <3> QED
      BY <1>14, <2>1, <3>1 DEF SameKey
  <2>4. After(x, s)
    BY <1>7, <1>14, <2>1, <2>2, <2>3 DEF HandlerInv
  <2>5. ran'[s] = ran[s] /\ ran'[x].from = ran[x].from
    BY <1>4, <2>3
  <2> QED
    BY <2>4, <2>5 DEF After
<1>15. HandlerInv'
  <2>1. \A x \in Requests : at'[x] = "handling" => ~Ran(x)'
    BY <1>1, <1>2, <1>7 DEF ClockInv
  <2> QED
    BY <1>14, <2>1 DEF HandlerInv
<1>16. OneRunPerKey'
  <2> SUFFICES ASSUME NEW x \in Requests, NEW s \in Requests, x # s,
                      Ran(x)', Ran(s)', SameKey(x, s)'
               PROVE  After(s, x)' \/ After(x, s)'
    BY DEF OneRunPerKey, SameKey, After
  <2>1. CASE x = r
    BY <1>14, <2>1
  <2>2. CASE s = r
    <3>1. SameKey(s, x)'
      BY DEF SameKey
    <3> QED
      BY <1>14, <2>2, <3>1
  <2>3. CASE x # r /\ s # r
    <3>1. Ran(x) /\ Ran(s) /\ SameKey(x, s)
      BY <1>2, <1>7, <2>3 DEF SameKey
    <3>2. After(s, x) \/ After(x, s)
      BY <3>1 DEF OneRunPerKey, SameKey, After
    <3>3. ran'[x] = ran[x] /\ ran'[s] = ran[s]
      BY <1>4, <2>3
    <3> QED
      BY <3>2, <3>3 DEF After
  <2> QED
    BY <2>1, <2>2, <2>3
<1>17. ReplyInv'
  BY <1>1, <1>2, <1>5 DEF ReplyInv
<1>18. RepliesAreOwn'
  <2>1. \A y \in Requests : Ran(y) => ran'[y].to = ran[y].to
    BY <1>4, <1>6
  <2>2. reply'[r] = r /\ at[r] # "new" /\ OwnReply(r, r)'
    BY <1>1, <1>5 DEF OwnReply
  <2> QED
    BY <1>2, <1>5, <2>1, <2>2, OwnRepliesStay
<1> QED
  BY <1>9, <1>10, <1>11, <1>12, <1>13, <1>15, <1>16, <1>17, <1>18

LEMMA FlushKeeps ==
    ASSUME ReplayInv, NEW r \in Requests, flushOrchestratorAudit(r)
    PROVE  ReplayInv'
<1> USE DEF ReplayInv
<1>1. /\ At(r, "answered") /\ SameEdge /\ "answered" \in Stages /\ at[r] = "auditing"
      /\ chains' = Leave(r) /\ UNCHANGED <<store, reply, ran>>
  BY DEF flushOrchestratorAudit, To, At, SameEdge, edgeButAt, Stages
<1>2. /\ now' \in Nat /\ now' >= 1 /\ now <= now' /\ AsksStay
      /\ at' \in [Requests -> Stages] /\ req' \in [Requests -> Arrivals \cup {CHOOSE a \in Arrivals : TRUE}]
      /\ at'[r] = "answered" /\ \A x \in Requests \ {r} : at'[x] = at[x]
      /\ \A x \in Requests : at'[x] # "new" => req'[x] \in Arrivals
      /\ now' = now
  BY <1>1, StepEffect DEF SameEdge
<1>3. ChainInv' /\ MemberInv' /\ chains' \in [AllKeys -> Seq(Requests)]
  BY <1>1, LeaveKeeps
<1>4. ReplayTypeOK'
  BY <1>1, <1>2, <1>3 DEF ReplayTypeOK
<1>5. ClockInv'
  BY <1>1, <1>2 DEF ClockInv, Ran
<1>6. store' = [k \in DOMAIN store |-> store[k]] /\ \A x \in Requests : ran'[x] = ran[x]
  BY <1>1 DEF ReplayTypeOK
<1>7. StoreInv' /\ FreshInv'
  BY <1>1, <1>2, <1>6, StoreStays
<1>8. HandlerInv' /\ OneRunPerKey'
  <2>1. \A x \in Requests : at'[x] = "handling" => at[x] = "handling"
    BY <1>2
  <2> QED
    BY <1>1, <1>2, <2>1, RunsStay
<1>9. ReplyInv' /\ RepliesAreOwn'
  <2>1. ReplyInv'
    BY <1>1, <1>2 DEF ReplyInv
  <2>2. RepliesAreOwn'
    BY <1>1, <1>2, OwnRepliesStay
  <2> QED
    BY <2>1, <2>2
<1> QED
  BY <1>3, <1>4, <1>5, <1>7, <1>8, <1>9

LEMMA EnterKeeps ==
    ASSUME ReplayInv, NEW r \in Requests, Enter(r)
    PROVE  ReplayInv'
<1> USE DEF ReplayInv
<1> DEFINE k == CompositeKey(r)  over == analyzeLimiter(req[r])
<1>0. at[r] = "passed" /\ SameEdge /\ ~Ran(r) /\ reply[r] \notin Requests
  BY DEF Enter, SameEdge, edgeButAt, ClockInv, ReplyInv
<1>1. CASE To(r, "limited") /\ UNCHANGED replayVars
  <2>1. At(r, "limited") /\ at'[r] = "limited" /\ "limited" \in Stages
    BY <1>1 DEF To, At, ReplayTypeOK, Stages, Final
  <2>2. Moves(r)
    BY <1>0, <2>1 DEF Moves, Begun
  <2>3. UNCHANGED replayVars
    BY <1>1
  <2>4. chains' = chains /\ ran' = ran /\ reply' = reply /\ store' = [x \in DOMAIN store |-> store[x]]
    BY <2>3 DEF replayVars, ReplayTypeOK
  <2>5. reply' \in [Requests -> Requests \cup {None, "error"}]
    BY <2>4 DEF ReplayTypeOK
  <2> QED
    BY <1>0, <2>1, <2>2, <2>4, <2>5, QuietStep
<1>2. CASE ~Keyed(r) /\ Dispatch(r) /\ UNCHANGED <<store, chains, reply>>
  <2>1. /\ At(r, "handling") /\ "handling" \in Stages
        /\ ran' = [ran EXCEPT ![r].from = now]
    BY <1>2 DEF Dispatch, To, At, Stages
  <2>2. /\ now' \in Nat /\ now' >= 1 /\ now <= now' /\ AsksStay
        /\ at' \in [Requests -> Stages] /\ req' \in [Requests -> Arrivals \cup {CHOOSE a \in Arrivals : TRUE}]
        /\ at'[r] = "handling" /\ \A x \in Requests \ {r} : at'[x] = at[x]
        /\ \A x \in Requests : at'[x] # "new" => req'[x] \in Arrivals
        /\ now' = now /\ Keyed(r)' = Keyed(r)
    BY <1>0, <2>1, StepEffect DEF SameEdge
  <2>3. /\ ran' \in [Requests -> [from : Nat, to : Nat]]
        /\ \A x \in Requests : ran'[x].to = ran[x].to
        /\ \A x \in Requests \ {r} : ran'[x] = ran[x]
        /\ ran'[r].from = now
    BY <2>1 DEF ReplayTypeOK
  <2>4. ReplayTypeOK'
    BY <1>2, <2>2, <2>3 DEF ReplayTypeOK
  <2>5. ChainInv' /\ MemberInv'
    <3>1. \A x \in Requests : Moves(x)
      BY <1>0, <1>2, <2>2 DEF Moves, Begun
    <3> QED
      BY <1>2, <2>2, <3>1, ChainsStay
  <2>6. ClockInv'
    <3>1. now \in Nat
      BY DEF ReplayTypeOK
    <3> QED
      BY <1>0, <2>2, <2>3, <3>1 DEF ClockInv, Ran
  <2>7. HandlerInv' /\ OneRunPerKey'
    <3>1. \A x \in Requests : /\ ran'[x].to = ran[x].to
                              /\ ran'[x] = ran[x] \/ (at[x] # "new" /\ ~Keyed(x))
      BY <1>0, <1>2, <2>3
    <3>2. \A x \in Requests : at'[x] = "handling" => at[x] = "handling" \/ ~Keyed(x)'
      BY <1>2, <2>2
    <3> QED
      BY <2>2, <3>1, <3>2, RunsStay
  <2>8. StoreInv' /\ FreshInv'
    <3>1. store' = [x \in DOMAIN store |-> store[x]]
      BY <1>2 DEF ReplayTypeOK
    <3> QED
      BY <2>2, <2>3, <3>1, StoreStays
  <2>9. ReplyInv'
    BY <1>0, <1>2, <2>2 DEF ReplyInv
  <2>10. RepliesAreOwn'
    BY <1>2, <2>2, <2>3, OwnRepliesStay
  <2> QED
    BY <2>4, <2>5, <2>6, <2>7, <2>8, <2>9, <2>10
<1>3. CASE /\ Keyed(r) /\ Cached(k)
           /\ reply' = [reply EXCEPT ![r] = store[k].run]
           /\ To(r, "auditing")
           /\ UNCHANGED <<store, chains, ran>>
  <2>1. At(r, "auditing") /\ at'[r] = "auditing"
    BY <1>3 DEF To, At, ReplayTypeOK
  <2>2. Moves(r)
    BY <1>0, <2>1 DEF Moves, Begun
  <2> QED
    BY <1>0, <1>3, <2>1, <2>2, ReplayKeeps
<1>4. CASE /\ Keyed(r) /\ ~Cached(k)
           /\ store' = Looked(k)
           /\ chains' = [chains EXCEPT ![k] = Append(@, r)]
           /\ To(r, "queued")
           /\ UNCHANGED <<reply, ran>>
  <2>1. At(r, "queued") /\ "queued" \in Stages
    BY <1>4 DEF To, At, Stages
  <2>2. /\ now' \in Nat /\ now' >= 1 /\ now <= now' /\ AsksStay
        /\ at' \in [Requests -> Stages] /\ req' \in [Requests -> Arrivals \cup {CHOOSE a \in Arrivals : TRUE}]
        /\ at'[r] = "queued" /\ \A x \in Requests \ {r} : at'[x] = at[x]
        /\ \A x \in Requests : at'[x] # "new" => req'[x] \in Arrivals
        /\ now' = now
    BY <1>0, <2>1, StepEffect DEF SameEdge
  <2>3. PICK d \in SUBSET DOMAIN store :
          /\ store' = [x \in d |-> store[x]]
          /\ \A x \in DOMAIN store \ d : now > store[x].expiresAt
    BY <1>4, LookedStore
  <2>4. ChainInv' /\ MemberInv' /\ chains' \in [AllKeys -> Seq(Requests)]
    BY <1>0, <1>4, <2>1, JoinKeeps
  <2>5. ReplayTypeOK'
    <3>1. store' \in [DOMAIN store' -> [run : Requests, expiresAt : Nat]]
      BY <2>3 DEF ReplayTypeOK
    <3> QED
      BY <1>4, <2>2, <2>4, <3>1 DEF ReplayTypeOK
  <2>6. ClockInv'
    BY <1>0, <1>4, <2>2 DEF ClockInv, Ran
  <2>7. HandlerInv' /\ OneRunPerKey'
    <3>1. \A x \in Requests : at'[x] = "handling" => at[x] = "handling"
      BY <2>2
    <3>2. \A x \in Requests : ran'[x] = ran[x]
      BY <1>4
    <3> QED
      BY <2>2, <3>1, <3>2, RunsStay
  <2>8. StoreInv' /\ FreshInv'
    <3>1. \A x \in Requests : ran'[x].to = ran[x].to
      BY <1>4
    <3> QED
      BY <2>2, <2>3, <3>1, StoreStays
  <2>9. ReplyInv'
    BY <1>0, <1>4, <2>2 DEF ReplyInv
  <2>10. RepliesAreOwn'
    BY <1>4, <2>2, OwnRepliesStay
  <2> QED
    BY <2>4, <2>5, <2>6, <2>7, <2>8, <2>9, <2>10
<1> QED
  BY <1>1, <1>2, <1>3, <1>4 DEF Enter

(***************************************************************************)
(* The invariant, and what it gives.                                       *)
(***************************************************************************)

LEMMA ReplayInit == Init => ReplayInv
<1> SUFFICES ASSUME Init PROVE ReplayInv
  OBVIOUS
<1>1. /\ now = 1 /\ store = <<>> /\ DOMAIN store = {}
      /\ chains = [k \in AllKeys |-> <<>>]
      /\ \A r \in Requests : at[r] = "new" /\ reply[r] = None /\ ran[r].to = 0 /\ ran[r].from = 0
  BY DEF Init, EdgeInit
<1>2. ReplayTypeOK
  <2>1. /\ at \in [Requests -> Stages]
        /\ req \in [Requests -> Arrivals \cup {CHOOSE a \in Arrivals : TRUE}]
        /\ reply \in [Requests -> Requests \cup {None, "error"}]
        /\ ran \in [Requests -> [from : Nat, to : Nat]]
        /\ chains \in [AllKeys -> Seq(Requests)]
    BY DEF Init, EdgeInit, Stages
  <2>2. store \in [DOMAIN store -> [run : Requests, expiresAt : Nat]]
    BY <1>1
  <2> QED
    BY <1>1, <2>1, <2>2 DEF ReplayTypeOK
<1>3. ChainInv
  BY <1>1 DEF ChainInv
<1>4. None \notin Requests
  BY ReplayAssumption
<1> QED
  BY <1>1, <1>2, <1>3, <1>4 DEF ReplayInv, MemberInv, Holds, ClockInv, StoreInv, FreshInv,
     HandlerInv, ReplyInv, OneRunPerKey, RepliesAreOwn, Ran

LEMMA ReplayNext == ReplayInv /\ [Next]_vars => ReplayInv'
<1> SUFFICES ASSUME ReplayInv, [Next]_vars PROVE ReplayInv'
  OBVIOUS
<1>1. CASE EdgeNext /\ UNCHANGED replayVars
  BY <1>1, EdgeKeepsReplay
<1>2. ASSUME NEW r \in Requests, Step(r) PROVE ReplayInv'
  BY <1>2, EnterKeeps, TurnKeeps, AnswerKeeps, FailKeeps, FlushKeeps DEF Step
<1>3. CASE UNCHANGED vars
  BY <1>3 DEF vars, edgeVars, replayVars, ReplayInv, ReplayTypeOK, ChainInv, MemberInv, ClockInv,
     StoreInv, FreshInv, HandlerInv, ReplyInv, OneRunPerKey, RepliesAreOwn, Remembered, SameKey,
     After, Holds, InChain, Keyed, CompositeKey, Ran
<1> QED
  BY <1>1, <1>2, <1>3 DEF Next

\* However many requests overlap, and whatever fails, a reply that is still
\* remembered is not worked out again (httpAnalyzeOrchestrator.js:123-124, the
\* look-up under the lock).
THEOREM OneRun == Spec => []OneRunPerKey
<1>1. ReplayInv => OneRunPerKey
  BY DEF ReplayInv
<1> QED
  BY <1>1, ReplayInit, ReplayNext, PTL DEF Spec

\* No request is given the reply of another tenant, key or description
\* (httpAnalyzeOrchestrator.js:41-46).
THEOREM OwnReplies == Spec => []RepliesAreOwn
<1>1. ReplayInv => RepliesAreOwn
  BY DEF ReplayInv
<1> QED
  BY <1>1, ReplayInit, ReplayNext, PTL DEF Spec

-----------------------------------------------------------------------------
(***************************************************************************)
(* Blocks and offences.  First the weight of a set of offences.            *)
(***************************************************************************)

LEMMA UnitsOf ==
    ASSUME NEW S, NEW x
    PROVE  x \in Units(S) <=> \E p \in S : \E i \in 1..p.weight : x = <<p, i>>
BY DEF Units

LEMMA WeightOfMore ==
    ASSUME NEW S, NEW T \in SUBSET S, IsFiniteSet(Units(S))
    PROVE  /\ IsFiniteSet(Units(T))
           /\ Weight(S) \in Nat /\ Weight(T) \in Nat /\ Weight(T) <= Weight(S)
<1>1. Units(T) \in SUBSET Units(S)
  BY DEF Units
<1>2. IsFiniteSet(Units(T)) /\ Cardinality(Units(T)) <= Cardinality(Units(S))
  BY <1>1, FS_Subset
<1> QED
  BY <1>2, FS_CardinalityType DEF Weight

LEMMA WeightOfNone == Weight({}) = 0 /\ IsFiniteSet(Units({}))
<1>1. Units({}) = {}
  BY DEF Units
<1> QED
  BY <1>1, FS_EmptySet DEF Weight

LEMMA WeightOfOneMore ==
    ASSUME NEW S, NEW o, o \notin S, o.weight \in Nat, IsFiniteSet(Units(S))
    PROVE  /\ IsFiniteSet(Units(S \cup {o}))
           /\ Weight(S \cup {o}) = Weight(S) + o.weight
<1> DEFINE U == {o} \X (1..o.weight)
<1>1. IsFiniteSet(1..o.weight) /\ Cardinality(1..o.weight) = o.weight
  <2>1. 1 \in Int /\ o.weight \in Int
    OBVIOUS
  <2>2. /\ IsFiniteSet(1..o.weight)
        /\ Cardinality(1..o.weight) = IF 1 > o.weight THEN 0 ELSE o.weight - 1 + 1
    BY <2>1, FS_Interval
  <2> QED
    BY <2>2
<1>2. IsFiniteSet({o}) /\ Cardinality({o}) = 1
  BY FS_Singleton
<1>3. IsFiniteSet(U) /\ Cardinality(U) = Cardinality({o}) * Cardinality(1..o.weight)
  BY <1>1, <1>2, FS_Product
<1>4. Cardinality(U) = o.weight
  BY <1>1, <1>2, <1>3
<1>5. Units(S \cup {o}) = Units(S) \cup U
  BY DEF Units
<1>6. Units(S) \cap U = {}
  <2> SUFFICES ASSUME NEW x \in Units(S), x \in U PROVE FALSE
    OBVIOUS
  <2>1. PICK p \in S : \E i \in 1..p.weight : x = <<p, i>>
    BY UnitsOf
  <2> QED
    BY <2>1
<1>7. /\ IsFiniteSet(Units(S) \cup U)
      /\ Cardinality(Units(S) \cup U) =
           Cardinality(Units(S)) + Cardinality(U) - Cardinality(Units(S) \cap U)
  BY <1>3, FS_Union
<1>8. Cardinality(Units(S)) \in Nat /\ Cardinality(Units(S) \cap U) = 0
  BY <1>6, FS_CardinalityType, FS_EmptySet
<1> HIDE DEF U
<1>9. Cardinality(Units(S) \cup U) = Cardinality(Units(S)) + o.weight
  BY <1>4, <1>7, <1>8
<1> QED
  BY <1>5, <1>7, <1>9 DEF Weight

(***************************************************************************)
(* The invariant of the edge.  A row of violations counts no more than     *)
(* what its client did since it was opened (RowInv), and no less than what *)
(* the client did since any time it covers and no block fell in; what came *)
(* before it in the same window stayed under the threshold (WindowInv).    *)
(***************************************************************************)

GatewayTypeOK ==
  /\ now \in Nat /\ now >= 1
  /\ at \in [Requests -> Stages]
  /\ req \in [Requests -> Arrivals \cup {CHOOSE a \in Arrivals : TRUE}]
  /\ \A r \in Requests : at[r] # "new" => req[r] \in Arrivals
  /\ violations \in [Clients -> [n : Nat, resetAt : Int]]
  /\ blockedUntil \in [Clients -> Nat]
  /\ IsFiniteSet(Units(offences))
  /\ \A o \in offences :
       /\ o.client \in Clients
       /\ o.request \in Requests /\ at[o.request] \notin {"new", "waiting"}
       /\ o.time \in Nat /\ o.time <= now /\ o.weight \in Nat

Since(c, t) == {o \in offences : o.client = c /\ t <= o.time}
Calm(S) == \A o \in S : ~o.blocks
Active(c) == now <= violations[c].resetAt
Opened(c) == violations[c].resetAt - Window

RowOK(c) ==
  /\ violations[c].n <= Threshold - 1
  /\ violations[c].resetAt <= now + Window
  /\ violations[c].n <= Weight(Since(c, Opened(c)))
RowInv == \A c \in Clients : RowOK(c)

WindowOK(c, t) ==
  Calm(Since(c, t)) =>
    /\ Active(c) /\ Opened(c) <= t => Weight(Since(c, t)) <= violations[c].n
    /\ Active(c) /\ t < Opened(c) /\ now <= t + Window =>
         Weight(Since(c, t)) <= violations[c].n + Threshold - 1
    /\ ~Active(c) /\ violations[c].resetAt < t => Since(c, t) = {}
    /\ ~Active(c) /\ t <= violations[c].resetAt /\ now <= t + Window =>
         Weight(Since(c, t)) <= Threshold - 1
WindowInv == \A c \in Clients, t \in Nat : WindowOK(c, t)

BoundOK(c, t) ==
  Calm(Between(c, t, t + Window)) => Weight(Between(c, t, t + Window)) <= 2 * (Threshold - 1)
BoundInv == \A c \in Clients, t \in Nat : BoundOK(c, t)

GatewayInv == GatewayTypeOK /\ RowInv /\ WindowInv /\ BoundInv /\ BlockIsWarranted

\* The sets the invariant weighs are finite.
LEMMA OffencesWeigh ==
    ASSUME IsFiniteSet(Units(offences)), NEW S \in SUBSET offences, NEW T \in SUBSET S
    PROVE  /\ IsFiniteSet(Units(S)) /\ IsFiniteSet(Units(T))
           /\ Weight(S) \in Nat /\ Weight(T) \in Nat /\ Weight(T) <= Weight(S)
<1>1. IsFiniteSet(Units(S))
  BY WeightOfMore
<1> QED
  BY <1>1, WeightOfMore

\* A window that is still open is what happened since it began.
LEMMA OpenWindow ==
    ASSUME GatewayTypeOK, NEW c, NEW t \in Nat, now <= t + Window
    PROVE  Between(c, t, t + Window) = Since(c, t)
<1>1. \A o \in offences : o.time <= t + Window
  BY EdgeAssumption DEF GatewayTypeOK
<1> QED
  BY <1>1 DEF Between, Since

\* Two windows' worth bounds any window that is still open.
OpenBounds == \A c \in Clients, t \in Nat : now <= t + Window => BoundOK(c, t)
LEMMA WindowBounds == GatewayTypeOK /\ RowInv /\ WindowInv => OpenBounds
<1> SUFFICES ASSUME GatewayTypeOK, RowInv, WindowInv,
                    NEW c \in Clients, NEW t \in Nat, now <= t + Window, Calm(Since(c, t))
             PROVE  Weight(Since(c, t)) <= 2 * (Threshold - 1)
  BY OpenWindow DEF BoundOK, OpenBounds
<1>0. RowOK(c) /\ WindowOK(c, t)
  BY DEF RowInv, WindowInv
<1>1. /\ now \in Nat /\ Threshold \in Nat /\ Threshold >= 2 /\ Window \in Nat
      /\ violations[c].n \in Nat /\ violations[c].resetAt \in Int
  BY EdgeAssumption DEF GatewayTypeOK
<1>2. Weight(Since(c, t)) \in Nat
  BY OffencesWeigh DEF Since, GatewayTypeOK
<1>3. violations[c].n <= Threshold - 1
  BY <1>0 DEF RowOK
<1>4. CASE Active(c) /\ Opened(c) <= t
  BY <1>0, <1>1, <1>2, <1>3, <1>4 DEF WindowOK
<1>5. CASE Active(c) /\ t < Opened(c)
  BY <1>0, <1>1, <1>2, <1>3, <1>5 DEF WindowOK
<1>6. CASE ~Active(c) /\ violations[c].resetAt < t
  BY <1>0, <1>1, <1>6, WeightOfNone DEF WindowOK
<1>7. CASE ~Active(c) /\ t <= violations[c].resetAt
  BY <1>0, <1>1, <1>2, <1>7 DEF WindowOK
<1> QED
  BY <1>1, <1>4, <1>5, <1>6, <1>7 DEF Opened

\* Steps that record no offence and let no time pass; a block may be over.
LEMMA NothingRecorded ==
    ASSUME GatewayInv, GatewayTypeOK', now' = now, offences' = offences, violations' = violations,
           \A c \in Clients : blockedUntil'[c] \in {blockedUntil[c], 0}
    PROVE  GatewayInv'
<1>1. \A c, t : /\ Since(c, t)' = Since(c, t)
                /\ Between(c, t, t + Window)' = Between(c, t, t + Window)
  BY DEF Since, Between
<1>2. RowInv'
  BY DEF GatewayInv, RowInv, RowOK, Since, Weight, Units, Opened
<1>3. WindowInv'
  BY DEF GatewayInv, WindowInv, WindowOK, Since, Weight, Units, Opened, Active, Calm
<1>4. BoundInv'
  BY DEF GatewayInv, BoundInv, BoundOK, Between, Weight, Units, Calm
<1>5. BlockIsWarranted'
  BY DEF GatewayInv, BlockIsWarranted, Between, Weight, Units
<1> QED
  BY <1>2, <1>3, <1>4, <1>5 DEF GatewayInv

\* Time passes: a row may end, and so may a window.
LEMMA TickKeepsGateway ==
    ASSUME GatewayInv, Tick
    PROVE  GatewayInv'
<1> USE DEF GatewayInv
<1>1. /\ now' = now + 1
      /\ UNCHANGED <<at, req, violations, blockedUntil, offences>>
  BY DEF Tick
<1>2. /\ now \in Nat /\ Threshold \in Nat /\ Threshold >= 2 /\ Window \in Nat
      /\ \A c \in Clients : violations[c].n \in Nat /\ violations[c].resetAt \in Int
  BY EdgeAssumption DEF GatewayTypeOK
<1>3. GatewayTypeOK'
  <2>1. now' \in Nat /\ now' >= 1 /\ \A o \in offences : o.time <= now'
    BY <1>1, <1>2 DEF GatewayTypeOK
  <2>2. IsFiniteSet(Units(offences))'
    BY <1>1 DEF GatewayTypeOK, Units
  <2> QED
    BY <1>1, <2>1, <2>2 DEF GatewayTypeOK
<1>4. ASSUME NEW c, NEW t, NEW u
      PROVE  /\ Since(c, t)' = Since(c, t) /\ Between(c, t, u)' = Between(c, t, u)
             /\ Weight(Since(c, t))' = Weight(Since(c, t))
             /\ Weight(Between(c, t, u))' = Weight(Between(c, t, u))
             /\ Calm(Since(c, t))' = Calm(Since(c, t))
             /\ Calm(Between(c, t, u))' = Calm(Between(c, t, u))
  BY <1>1 DEF Since, Between, Weight, Units, Calm
<1>5. RowInv'
  <2> SUFFICES ASSUME NEW c \in Clients PROVE RowOK(c)'
    BY DEF RowInv
  <2>1. RowOK(c)
    BY DEF RowInv
  <2>2. Weight(Since(c, Opened(c)))' = Weight(Since(c, Opened(c)))
    BY <1>1 DEF Opened, Since, Weight, Units
  <2> QED
    BY <1>1, <1>2, <2>1, <2>2 DEF RowOK
<1>6. WindowInv'
  <2> SUFFICES ASSUME NEW c \in Clients, NEW t \in Nat, Calm(Since(c, t))
               PROVE  /\ (Active(c) /\ Opened(c) <= t)' => Weight(Since(c, t)) <= violations[c].n
                      /\ (Active(c) /\ t < Opened(c) /\ now <= t + Window)' =>
                           Weight(Since(c, t)) <= violations[c].n + Threshold - 1
                      /\ (~Active(c) /\ violations[c].resetAt < t)' => Since(c, t) = {}
                      /\ (~Active(c) /\ t <= violations[c].resetAt /\ now <= t + Window)' =>
                           Weight(Since(c, t)) <= Threshold - 1
    BY <1>1, <1>4 DEF WindowInv, WindowOK
  <2>1. WindowOK(c, t) /\ RowOK(c)
    BY DEF WindowInv, RowInv
  <2>2. Weight(Since(c, t)) \in Nat
    BY OffencesWeigh DEF Since, GatewayTypeOK
  <2>3. now < t => Since(c, t) = {}
    BY <1>2 DEF Since, GatewayTypeOK
  <2>4. Active(c)' => Active(c) /\ Opened(c)' = Opened(c)
    BY <1>1, <1>2 DEF Active, Opened
  <2>5. CASE Active(c)'
    <3> HIDE DEF GatewayInv
    <3> QED
      BY <1>1, <1>2, <2>1, <2>4, <2>5 DEF WindowOK, Active, Opened
  <2>6. CASE ~Active(c)' /\ Active(c)
    <3>1. violations[c].resetAt = now /\ violations'[c] = violations[c]
      BY <1>1, <1>2, <2>6 DEF Active
    <3>2. violations[c].resetAt < t => Since(c, t) = {}
      BY <2>3, <3>1
    <3>3. now' <= t + Window => Opened(c) <= t
      BY <1>1, <1>2, <3>1 DEF Opened
    <3>4. now' <= t + Window => Weight(Since(c, t)) <= Threshold - 1
      BY <1>2, <2>1, <2>2, <2>6, <3>3 DEF WindowOK, RowOK
    <3> QED
      BY <1>1, <2>6, <3>1, <3>2, <3>4
  <2>7. CASE ~Active(c)' /\ ~Active(c)
    BY <1>1, <1>2, <2>1, <2>7 DEF WindowOK
  <2> QED
    BY <2>5, <2>6, <2>7
<1>7. BoundInv'
  BY <1>4 DEF BoundInv, BoundOK
<1>8. BlockIsWarranted'
  BY <1>1, <1>4 DEF BlockIsWarranted
<1> QED
  BY <1>3, <1>5, <1>6, <1>7, <1>8

\* The offence a recording adds, and the row it counts on.
Offence(r, c, count, blocks) ==
  [request |-> r, client |-> c, time |-> now, weight |-> count, blocks |-> blocks]
CountedOn(c) == IF now > violations[c].resetAt
                THEN [n |-> 0, resetAt |-> now + Window] ELSE violations[c]

\* What the client c did since t has grown by o, if t is not to come.
Grown(c, o) ==
  /\ o \notin offences
  /\ \A d, t : d # c => Since(d, t)' = Since(d, t)
  /\ \A d, t, u : d # c => Between(d, t, u)' = Between(d, t, u)
  /\ \A t \in Int : t <= now => Since(c, t)' = Since(c, t) \cup {o}
  /\ \A t \in Int : now < t => Since(c, t)' = Since(c, t)
  /\ \A t, u \in Int : u < now => Between(c, t, u)' = Between(c, t, u)
  /\ \A t, u \in Int : t <= now /\ now = u => Between(c, t, u)' = Between(c, t, u) \cup {o}
  /\ \A d, t, u : Between(d, t, u) \subseteq Between(d, t, u)'
  /\ IsFiniteSet(Units(offences'))

LEMMA SinceOffence ==
    ASSUME GatewayTypeOK, NEW r \in Requests, NEW c \in Clients, NEW count \in Nat,
           NEW b \in BOOLEAN, at[r] = "waiting",
           offences' = offences \cup {Offence(r, c, count, b)}
    PROVE  Grown(c, Offence(r, c, count, b))
<1> DEFINE o == Offence(r, c, count, b)
<1>1. /\ o.client = c /\ o.time = now /\ o.weight = count /\ o.request = r /\ now \in Nat
  BY DEF Offence, GatewayTypeOK
<1>2. o \notin offences
  BY <1>1 DEF GatewayTypeOK
<1>3. IsFiniteSet(Units(offences'))
  BY <1>1, <1>2, WeightOfOneMore DEF GatewayTypeOK
<1> HIDE DEF o
<1>4. offences' = offences \cup {o}
  BY DEF o
<1>5. /\ \A d, t : d # c => Since(d, t)' = Since(d, t)
      /\ \A d, t, u : d # c => Between(d, t, u)' = Between(d, t, u)
  BY <1>1, <1>4 DEF Since, Between
<1>6. \A t \in Int : /\ t <= now => Since(c, t)' = Since(c, t) \cup {o}
                     /\ now < t => Since(c, t)' = Since(c, t)
  BY <1>1, <1>4 DEF Since
<1>7. \A t, u \in Int : u < now => Between(c, t, u)' = Between(c, t, u)
  BY <1>1, <1>4 DEF Between
<1>8. \A t, u \in Int : t <= now /\ now = u => Between(c, t, u)' = Between(c, t, u) \cup {o}
  BY <1>1, <1>4 DEF Between
<1>9. \A d, t, u : Between(d, t, u) \subseteq Between(d, t, u)'
  BY <1>4 DEF Between
<1> QED
  BY <1>2, <1>3, <1>5, <1>6, <1>7, <1>8, <1>9 DEF o, Grown

\* The facts about one recording that the invariant needs, in one place.
Recorded(r, c, count, b) ==
  /\ at[r] = "waiting" /\ now' = now
  /\ offences' = offences \cup {Offence(r, c, count, b)}
  /\ b = (CountedOn(c).n + count >= Threshold)
  /\ violations' = [violations EXCEPT ![c] = IF b THEN NoRow
                      ELSE [n |-> CountedOn(c).n + count, resetAt |-> CountedOn(c).resetAt]]
  /\ blockedUntil' = IF b THEN [blockedUntil EXCEPT ![c] = now + Block] ELSE blockedUntil

LEMMA RecordIsRecorded ==
    ASSUME GatewayTypeOK, NEW r \in Requests, NEW c \in Clients, NEW count \in Nat,
           at[r] = "waiting", now' = now, recordSecurityViolations(r, c, count)
    PROVE  \E b \in BOOLEAN : Recorded(r, c, count, b)
<1> DEFINE b == CountedOn(c).n + count >= Threshold
<1>1. b \in BOOLEAN
  OBVIOUS
<1>2. offences' = offences \cup {Offence(r, c, count, b)}
  BY DEF recordSecurityViolations, Remember, Offence, CountedOn
<1>3. CountedOn(c) \in [n : Nat, resetAt : Int]
  BY EdgeAssumption DEF CountedOn, GatewayTypeOK
<1>4. CASE b
  <2>1. /\ blockedUntil' = [blockedUntil EXCEPT ![c] = now + Block]
        /\ violations' = [violations EXCEPT ![c] = NoRow]
    BY <1>4 DEF recordSecurityViolations, CountedOn
  <2> QED
    BY <1>1, <1>2, <1>4, <2>1 DEF Recorded
<1>5. CASE ~b
  <2>1. /\ blockedUntil' = blockedUntil
        /\ violations' = [violations EXCEPT ![c] =
                            [CountedOn(c) EXCEPT !.n = CountedOn(c).n + count]]
    BY <1>5 DEF recordSecurityViolations, CountedOn
  <2>2. [CountedOn(c) EXCEPT !.n = CountedOn(c).n + count]
          = [n |-> CountedOn(c).n + count, resetAt |-> CountedOn(c).resetAt]
    BY <1>3
  <2> QED
    BY <1>1, <1>2, <1>5, <2>1, <2>2 DEF Recorded
<1> QED
  BY <1>4, <1>5

LEMMA RecordKeeps ==
    ASSUME GatewayInv, GatewayTypeOK', NEW r \in Requests, NEW c \in Clients, NEW count \in Nat,
           NEW b \in BOOLEAN, Recorded(r, c, count, b)
    PROVE  GatewayInv'
<1> USE DEF GatewayInv
<1> DEFINE o == Offence(r, c, count, b)  row == CountedOn(c)
<1>1. /\ at[r] = "waiting" /\ now' = now /\ offences' = offences \cup {o}
      /\ b = (row.n + count >= Threshold)
      /\ violations' = [violations EXCEPT ![c] = IF b THEN NoRow
                          ELSE [n |-> row.n + count, resetAt |-> row.resetAt]]
      /\ blockedUntil' = IF b THEN [blockedUntil EXCEPT ![c] = now + Block] ELSE blockedUntil
  BY DEF Recorded
<1>2. /\ now \in Nat /\ Threshold \in Nat /\ Threshold >= 2 /\ Window \in Nat /\ Block \in Nat
      /\ \A d \in Clients : violations[d].n \in Nat /\ violations[d].resetAt \in Int
  BY EdgeAssumption DEF GatewayTypeOK
<1>3. /\ row.n \in Nat /\ row.resetAt \in Int
      /\ now <= row.resetAt /\ row.resetAt <= now + Window
      /\ Active(c) => row = violations[c]
      /\ ~Active(c) => row.n = 0 /\ row.resetAt = now + Window
  BY <1>2 DEF CountedOn, Active, RowInv, RowOK
<1>5. o.client = c /\ o.weight = count /\ o.blocks = b
  BY DEF Offence
<1>4. Grown(c, o)
  BY <1>1, SinceOffence
<1> HIDE DEF o, row
<1>6. ASSUME NEW S \in SUBSET offences
      PROVE  /\ Weight(S) \in Nat /\ Weight(S \cup {o}) = Weight(S) + count
             /\ Calm(S \cup {o}) <=> (Calm(S) /\ ~b)
  <2>1. IsFiniteSet(Units(S)) /\ Weight(S) \in Nat
    BY OffencesWeigh DEF GatewayTypeOK
  <2>2. o \notin S
    BY <1>4 DEF Grown
  <2> QED
    BY <1>5, <2>1, <2>2, WeightOfOneMore DEF Calm
<1>7. /\ violations'[c] = IF b THEN NoRow ELSE [n |-> row.n + count, resetAt |-> row.resetAt]
      /\ \A d \in Clients \ {c} : violations'[d] = violations[d]
  BY <1>1 DEF GatewayTypeOK
<1>8. \A t : Since(c, t) \in SUBSET offences
  BY DEF Since
\* The row counts no more than there was.
<1>9. row.n + count <= Weight(Since(c, row.resetAt - Window) \cup {o})
  <2>1. row.n <= Weight(Since(c, row.resetAt - Window))
    <3>1. CASE Active(c)
      <4>1. violations[c].n <= Weight(Since(c, violations[c].resetAt - Window))
        BY DEF RowInv, RowOK, Opened
      <4> QED
        BY <1>3, <3>1, <4>1
    <3>2. CASE ~Active(c)
      <4>1. Weight(Since(c, row.resetAt - Window)) \in Nat
        BY <1>6, <1>8
      <4> QED
        BY <1>3, <3>2, <4>1
    <3> QED
      BY <3>1, <3>2
  <2>2. Weight(Since(c, row.resetAt - Window)) \in Nat
    BY <1>6, <1>8
  <2>3. Weight(Since(c, row.resetAt - Window) \cup {o}) = Weight(Since(c, row.resetAt - Window)) + count
    BY <1>6, <1>8
  <2> QED
    BY <1>3, <2>1, <2>2, <2>3
<1>10. ASSUME NEW S \in SUBSET offences', NEW T \in SUBSET S
       PROVE  Weight(S) \in Nat /\ Weight(T) \in Nat /\ Weight(T) <= Weight(S)
  <2>1. IsFiniteSet(Units(offences'))
    BY <1>4 DEF Grown
  <2>2. IsFiniteSet(Units(S))
    BY <2>1, WeightOfMore
  <2> QED
    BY <2>2, WeightOfMore
<1>11. RowInv'
  <2> SUFFICES ASSUME NEW d \in Clients, NEW w, w = violations'[d].resetAt - Window
               PROVE  /\ violations'[d].n <= Threshold - 1
                      /\ violations'[d].resetAt <= now + Window
                      /\ violations'[d].n <= Weight(Since(d, w)')
    BY <1>1 DEF RowInv, RowOK, Opened
  <2>1. CASE d # c
    <3>1. violations'[d] = violations[d] /\ Since(d, w)' = Since(d, w)
      BY <1>4, <1>7, <2>1 DEF Grown
    <3>2. /\ violations[d].n <= Threshold - 1
          /\ violations[d].resetAt <= now + Window
          /\ violations[d].n <= Weight(Since(d, Opened(d)))
      BY DEF RowInv, RowOK
    <3>3. w = Opened(d)
      BY <3>1 DEF Opened
    <3>4. violations[d].n <= Weight(Since(d, w))
      BY <3>2, <3>3
    <3>5. /\ violations'[d].n <= Threshold - 1
          /\ violations'[d].resetAt <= now + Window
      BY <3>1, <3>2
    <3>6. violations'[d].n <= Weight(Since(d, w)')
      BY <3>1, <3>4
    <3> QED
      BY <3>5, <3>6
  <2>2. CASE d = c /\ b
    <3>1. violations'[d].n = 0 /\ violations'[d].resetAt = -1
      BY <1>7, <2>2 DEF NoRow
    <3>2. Weight(Since(d, w)') \in Nat
      BY <1>10 DEF Since
    <3> QED
      BY <1>2, <3>1, <3>2
  <2>3. CASE d = c /\ ~b
    <3>1. violations'[d].n = row.n + count /\ violations'[d].resetAt = row.resetAt
      BY <1>7, <2>3
    <3>2. w \in Int /\ w <= now /\ w = row.resetAt - Window
      BY <1>2, <1>3, <3>1
    <3>3. Since(c, w)' = Since(c, w) \cup {o}
      BY <1>4, <3>2 DEF Grown
    <3>4. row.n + count <= Weight(Since(c, w)')
      BY <1>9, <3>2, <3>3
    <3>5. row.n + count <= Threshold - 1
      <4>1. ~(row.n + count >= Threshold)
        BY <1>1, <2>3
      <4> QED
        BY <1>2, <1>3, <4>1
    <3>6. violations'[d].n <= Weight(Since(d, w)')
      BY <2>3, <3>1, <3>4
    <3> QED
      BY <1>3, <3>1, <3>5, <3>6
  <2> QED
    BY <2>1, <2>2, <2>3
<1>12. WindowInv'
  <2> SUFFICES ASSUME NEW d \in Clients, NEW t \in Nat PROVE WindowOK(d, t)'
    BY DEF WindowInv
  <2>1. CASE d # c
    <3>1. WindowOK(d, t) /\ violations'[d] = violations[d] /\ Since(d, t)' = Since(d, t)
      BY <1>4, <1>7, <2>1 DEF WindowInv, Grown
    <3> QED
      BY <1>1, <3>1 DEF WindowOK, Active, Opened, Calm, Weight
  <2>2. CASE d = c /\ now < t
    <3>1. Since(c, t)' = Since(c, t)
      BY <1>4, <2>2 DEF Grown
    <3>2. Since(c, t) = {}
      BY <1>2, <2>2 DEF Since, GatewayTypeOK
    <3>3. violations'[c].n \in Nat
      BY DEF GatewayTypeOK
    <3>4. Weight(Since(c, t)') = 0
      BY <3>1, <3>2, WeightOfNone
    <3> QED
      BY <1>2, <2>2, <3>1, <3>2, <3>3, <3>4 DEF WindowOK
  <2>3. CASE d = c /\ t <= now
    <3>1. Since(c, t)' = Since(c, t) \cup {o}
      BY <1>4, <2>3 DEF Grown
    <3>2. /\ Weight(Since(c, t)) \in Nat
          /\ Weight(Since(c, t) \cup {o}) = Weight(Since(c, t)) + count
          /\ Calm(Since(c, t) \cup {o}) <=> (Calm(Since(c, t)) /\ ~b)
      BY <1>6, <1>8
    <3> SUFFICES ASSUME Calm(Since(c, t)), ~b
                 PROVE  /\ Active(c)'
                        /\ Opened(c)' <= t => Weight(Since(c, t)) + count <= violations'[c].n
                        /\ t < Opened(c)' /\ now <= t + Window =>
                              Weight(Since(c, t)) + count <= violations'[c].n + Threshold - 1
      BY <1>1, <2>3, <3>1, <3>2 DEF WindowOK, Weight, Calm
    <3>3. violations'[c].n = row.n + count /\ violations'[c].resetAt = row.resetAt
      BY <1>7
    <3>4. Active(c)' /\ Opened(c)' = row.resetAt - Window
      BY <1>1, <1>3, <3>3 DEF Active, Opened
    <3>5. WindowOK(c, t)
      BY DEF WindowInv
    <3>6. CASE Active(c)
      <4>1. row = violations[c] /\ Opened(c) = row.resetAt - Window
        BY <1>3, <3>6 DEF Opened
      <4> QED
        BY <1>2, <1>3, <3>2, <3>3, <3>4, <3>5, <3>6, <4>1 DEF WindowOK
    <3>7. CASE ~Active(c)
      <4>1. row.n = 0 /\ row.resetAt = now + Window /\ violations[c].resetAt < now
        BY <1>2, <1>3, <3>7 DEF Active
      <4>2. violations[c].resetAt < t => Weight(Since(c, t)) = 0
        BY <3>5, <3>7, WeightOfNone DEF WindowOK
      <4>3. t <= violations[c].resetAt /\ now <= t + Window => Weight(Since(c, t)) <= Threshold - 1
        BY <3>5, <3>7 DEF WindowOK
      <4> QED
        BY <1>2, <3>2, <3>3, <3>4, <4>1, <4>2, <4>3
    <3> QED
      BY <3>6, <3>7
  <2> QED
    BY <1>2, <2>1, <2>2, <2>3
<1>13. BoundInv'
  <2>1. OpenBounds'
    BY <1>11, <1>12, WindowBounds, PTL
  <2> SUFFICES ASSUME NEW d \in Clients, NEW t \in Nat PROVE BoundOK(d, t)'
    BY DEF BoundInv
  <2>2. CASE now <= t + Window
    BY <1>1, <2>1, <2>2 DEF OpenBounds
  <2>3. CASE t + Window < now
    <3>1. Between(d, t, t + Window)' = Between(d, t, t + Window)
      BY <1>2, <1>4, <2>3 DEF Grown
    <3>2. BoundOK(d, t)
      BY DEF BoundInv
    <3> QED
      BY <3>1, <3>2 DEF BoundOK, Calm, Weight
  <2> QED
    BY <1>2, <2>2, <2>3
<1>14. BlockIsWarranted'
  <2> SUFFICES ASSUME NEW d \in Clients, blockedUntil'[d] # 0, NEW x, NEW y,
                      x = blockedUntil'[d] - Block - Window, y = blockedUntil'[d] - Block
               PROVE  Weight(Between(d, x, y)') >= Threshold
    BY DEF BlockIsWarranted
  <2>1. CASE b /\ d = c
    <3>1. blockedUntil'[c] = now + Block
      BY <1>1, <2>1 DEF GatewayTypeOK
    <3>2. x = now - Window /\ y = now
      BY <1>2, <2>1, <3>1
    <3>3. Between(c, x, y)' = Between(c, x, y) \cup {o}
      BY <1>2, <1>4, <3>2 DEF Grown
    <3> DEFINE T == Since(c, row.resetAt - Window) \cup {o}
    <3>4. T \subseteq Between(c, x, y)'
      <4>1. Since(c, row.resetAt - Window) \subseteq Between(c, x, y)
        BY <1>2, <1>3, <3>2 DEF Since, Between, GatewayTypeOK
      <4> QED
        BY <3>3, <4>1
    <3>5. Between(c, x, y)' \subseteq offences'
      BY DEF Between
    <3>6. Weight(T) <= Weight(Between(c, x, y)') /\ Weight(T) \in Nat /\ Weight(Between(c, x, y)') \in Nat
      BY <1>10, <3>4, <3>5
    <3>7. row.n + count >= Threshold /\ row.n + count <= Weight(T)
      BY <1>1, <1>9, <2>1
    <3> QED
      BY <1>2, <1>3, <2>1, <3>6, <3>7
  <2>2. CASE ~(b /\ d = c)
    <3>1. blockedUntil'[d] = blockedUntil[d]
      BY <1>1, <2>2 DEF GatewayTypeOK
    <3>2. Weight(Between(d, x, y)) >= Threshold
      BY <3>1 DEF BlockIsWarranted
    <3>3. Between(d, x, y) \subseteq Between(d, x, y)' /\ Between(d, x, y)' \subseteq offences'
      <4>1. Between(d, x, y)' \subseteq offences'
        BY DEF Between
      <4> QED
        BY <1>4, <4>1 DEF Grown
    <3>4. /\ Weight(Between(d, x, y)) <= Weight(Between(d, x, y)')
          /\ Weight(Between(d, x, y)) \in Nat /\ Weight(Between(d, x, y)') \in Nat
      BY <1>10, <3>3
    <3> QED
      BY <1>2, <3>2, <3>4
  <2> QED
    BY <2>1, <2>2
<1> QED
  BY <1>11, <1>12, <1>13, <1>14

\* The steps of the edge.
LEMMA EdgeKeepsGateway ==
    ASSUME GatewayInv, EdgeNext
    PROVE  GatewayInv'
<1> USE DEF GatewayInv
<1>1. CASE Tick
  BY <1>1, TickKeepsGateway
<1>2. CASE LoadRules
  <2>1. UNCHANGED <<now, at, req, violations, blockedUntil, offences>>
    BY <1>2 DEF LoadRules
  <2>2. GatewayTypeOK'
    BY <2>1 DEF GatewayTypeOK, Units
  <2>3. \A c \in Clients : blockedUntil'[c] \in {blockedUntil[c], 0}
    BY <2>1
  <2> QED
    BY <2>1, <2>2, <2>3, NothingRecorded
<1>3. ASSUME NEW r \in Requests, NEW a \in Arrivals, Arrive(r, a) PROVE GatewayInv'
  <2>1. /\ at[r] = "new" /\ now' = now
        /\ req' = [req EXCEPT ![r] = a]
        /\ offences' = offences /\ violations' = violations
    BY <1>3 DEF Arrive
  <2>2. PICK stage \in {"limited", "preflight", "blocked", "waiting"} :
          at' = [at EXCEPT ![r] = stage]
    BY <1>3 DEF Arrive, TestBlock, To, gatewayRateLimitHandler
  <2>3. at' \in [Requests -> Stages]
    BY <2>2 DEF Stages, Final, GatewayTypeOK
  <2>4. at'[r] = stage /\ \A x \in Requests \ {r} : at'[x] = at[x]
    BY <2>2 DEF GatewayTypeOK
  <2>5. /\ blockedUntil' \in [Clients -> Nat]
        /\ \A c \in Clients : blockedUntil'[c] \in {blockedUntil[c], 0}
    <3>1. CASE blockedUntil' = blockedUntil
      BY <3>1 DEF GatewayTypeOK
    <3>2. CASE blockedUntil' = [blockedUntil EXCEPT ![a.client] =
                                  IF isAdaptivelyBlocked(a.client) THEN @ ELSE 0]
      BY <3>2, EdgeAssumption DEF GatewayTypeOK
    <3> QED
      BY <1>3, <3>1, <3>2 DEF Arrive, TestBlock
  <2>6. \A o \in offences : at'[o.request] \notin {"new", "waiting"}
    BY <2>1, <2>4 DEF GatewayTypeOK
  <2>7. GatewayTypeOK'
    <3>1. IsFiniteSet(Units(offences))'
      BY <2>1 DEF GatewayTypeOK, Units
    <3>2. /\ req' \in [Requests -> Arrivals \cup {CHOOSE x \in Arrivals : TRUE}]
          /\ \A x \in Requests : at'[x] # "new" => req'[x] \in Arrivals
      BY <2>1, <2>4 DEF GatewayTypeOK
    <3> QED
      BY <2>1, <2>3, <2>5, <2>6, <3>1, <3>2 DEF GatewayTypeOK
  <2> QED
    BY <2>1, <2>5, <2>7, NothingRecorded
<1>4. ASSUME NEW r \in Requests, securityGatewayCore(r) PROVE GatewayInv'
  <2> DEFINE c == req[r].client  flags == scanJsonBody(req[r])
  <2>1. /\ at[r] = "waiting" /\ UNCHANGED <<now, req>>
        /\ req[r] \in Arrivals /\ c \in Clients
    BY <1>4, EdgeAssumption DEF securityGatewayCore, GatewayTypeOK
  <2>2. PICK stage \in {"unlisted", "rejected", "passed"} : at' = [at EXCEPT ![r] = stage]
    BY <1>4 DEF securityGatewayCore, To
  <2>3. /\ at' \in [Requests -> Stages]
        /\ at'[r] = stage /\ \A x \in Requests \ {r} : at'[x] = at[x]
    BY <2>2 DEF Stages, Final, GatewayTypeOK
  <2>4. flags \in Nat
    BY <2>1, EdgeAssumption DEF scanJsonBody, Patterns
  <2>5. /\ \A x \in Requests : at'[x] # "new" => req'[x] \in Arrivals
        /\ req' \in [Requests -> Arrivals \cup {CHOOSE x \in Arrivals : TRUE}]
        /\ now' \in Nat /\ now' >= 1
        /\ \A o \in offences : at'[o.request] \notin {"new", "waiting"}
    BY <2>1, <2>3 DEF GatewayTypeOK
  <2>6. CASE UNCHANGED <<violations, blockedUntil, offences>>
    <3>1. GatewayTypeOK'
      <4>1. IsFiniteSet(Units(offences))'
        BY <2>6 DEF GatewayTypeOK, Units
      <4> QED
        BY <2>1, <2>3, <2>5, <2>6, <4>1 DEF GatewayTypeOK
    <3>2. \A d \in Clients : blockedUntil'[d] \in {blockedUntil[d], 0}
      BY <2>6
    <3> QED
      BY <2>1, <2>6, <3>1, <3>2, NothingRecorded
  <2>7. ASSUME NEW count \in Nat, recordSecurityViolations(r, c, count) PROVE GatewayInv'
    <3>1. PICK b \in BOOLEAN : Recorded(r, c, count, b)
      BY <2>1, <2>7, RecordIsRecorded
    <3> HIDE DEF c
    <3> DEFINE o == Offence(r, c, count, b)
    <3>2. /\ o.request = r /\ o.time = now /\ o.weight = count /\ o.client = c
          /\ offences' = offences \cup {o}
      BY <3>1 DEF Offence, Recorded
    <3>3. IsFiniteSet(Units(offences'))
      BY <2>1, <3>1, SinceOffence DEF Recorded, Grown
    <3> HIDE DEF o
    <3>4. \A x \in offences' :
            /\ x.client \in Clients
            /\ x.request \in Requests /\ at'[x.request] \notin {"new", "waiting"}
            /\ x.time \in Nat /\ x.time <= now' /\ x.weight \in Nat
      <4>1. now \in Nat /\ now' = now
        BY <2>1 DEF GatewayTypeOK
      <4>2. at'[r] \notin {"new", "waiting"}
        BY <2>3
      <4> QED
        BY <2>1, <2>5, <3>2, <4>1, <4>2 DEF GatewayTypeOK
    <3>5. CountedOn(c).n \in Nat /\ CountedOn(c).resetAt \in Int
      BY <2>1, EdgeAssumption DEF CountedOn, GatewayTypeOK
    <3>6. violations' \in [Clients -> [n : Nat, resetAt : Int]]
      <4>1. \A row \in [n : Nat, resetAt : Int] :
              [violations EXCEPT ![c] = row] \in [Clients -> [n : Nat, resetAt : Int]]
        BY DEF GatewayTypeOK
      <4>2. NoRow \in [n : Nat, resetAt : Int]
        BY DEF NoRow
      <4>3. [n |-> CountedOn(c).n + count, resetAt |-> CountedOn(c).resetAt] \in [n : Nat, resetAt : Int]
        BY <2>7, <3>5
      <4>4. CASE b
        BY <3>1, <4>1, <4>2, <4>4 DEF Recorded
      <4>5. CASE ~b
        BY <3>1, <4>1, <4>3, <4>5 DEF Recorded
      <4> QED
        BY <4>4, <4>5
    <3>7. blockedUntil' \in [Clients -> Nat]
      <4>1. CASE b
        <5>1. blockedUntil' = [blockedUntil EXCEPT ![c] = now + Block]
          BY <3>1, <4>1 DEF Recorded
        <5>2. now + Block \in Nat
          BY EdgeAssumption DEF GatewayTypeOK
        <5> QED
          BY <5>1, <5>2 DEF GatewayTypeOK
      <4>2. CASE ~b
        BY <3>1, <4>2 DEF Recorded, GatewayTypeOK
      <4> QED
        BY <4>1, <4>2
    <3>8. GatewayTypeOK'
      BY <2>3, <2>5, <3>3, <3>4, <3>6, <3>7 DEF GatewayTypeOK
    <3> QED
      BY <2>1, <3>1, <3>8, RecordKeeps
  <2> QED
    BY <1>4, <2>4, <2>6, <2>7 DEF securityGatewayCore
<1> QED
  BY <1>1, <1>2, <1>3, <1>4 DEF EdgeNext

\* Behind the edge a request is past the recording.
LEMMA StepKeepsGateway ==
    ASSUME GatewayInv, NEW r \in Requests, Step(r)
    PROVE  GatewayInv'
<1> USE DEF GatewayInv
<1>1. UNCHANGED <<now, req, violations, blockedUntil, offences>>
  BY DEF Step, Enter, Turn, HandlerAnswers, HandlerFails, flushOrchestratorAudit, edgeButAt
<1>2. at[r] \in {"passed", "queued", "handling", "auditing"}
  BY DEF Step, Enter, Turn, HandlerAnswers, HandlerFails, flushOrchestratorAudit
<1>3. PICK stage \in {"limited", "handling", "auditing", "queued", "answered"} :
        at' = [at EXCEPT ![r] = stage]
  BY DEF Step, Enter, Turn, HandlerAnswers, HandlerFails, flushOrchestratorAudit, To, Dispatch
<1>4. /\ at' \in [Requests -> Stages]
      /\ at'[r] = stage /\ \A x \in Requests \ {r} : at'[x] = at[x]
  BY <1>3 DEF Stages, Final, GatewayTypeOK
<1>5. GatewayTypeOK'
  <2>1. IsFiniteSet(Units(offences))'
    BY <1>1 DEF GatewayTypeOK, Units
  <2>2. \A o \in offences : at'[o.request] \notin {"new", "waiting"}
    BY <1>4 DEF GatewayTypeOK
  <2>3. \A x \in Requests : at'[x] # "new" => req'[x] \in Arrivals
    BY <1>1, <1>2, <1>4 DEF GatewayTypeOK
  <2> QED
    BY <1>1, <1>4, <2>1, <2>2, <2>3 DEF GatewayTypeOK
<1>6. \A c \in Clients : blockedUntil'[c] \in {blockedUntil[c], 0}
  BY <1>1
<1> QED
  BY <1>1, <1>5, <1>6, NothingRecorded

LEMMA GatewayInit == Init => GatewayInv
<1> SUFFICES ASSUME Init PROVE GatewayInv
  OBVIOUS
<1>1. /\ now = 1 /\ offences = {}
      /\ \A r \in Requests : at[r] = "new"
      /\ \A c \in Clients : violations[c] = NoRow /\ blockedUntil[c] = 0
  BY DEF Init, EdgeInit
<1>2. \A c, t, u : Since(c, t) = {} /\ Between(c, t, u) = {}
  BY <1>1 DEF Since, Between
<1>3. Threshold \in Nat /\ Threshold >= 2 /\ Window \in Nat
  BY EdgeAssumption
<1>4. GatewayTypeOK
  <2>1. /\ at \in [Requests -> Stages]
        /\ req \in [Requests -> Arrivals \cup {CHOOSE a \in Arrivals : TRUE}]
        /\ violations \in [Clients -> [n : Nat, resetAt : Int]]
        /\ blockedUntil \in [Clients -> Nat]
    BY DEF Init, EdgeInit, Stages, NoRow
  <2> QED
    BY <1>1, <2>1, WeightOfNone DEF GatewayTypeOK
<1>5. RowInv
  BY <1>1, <1>2, <1>3, WeightOfNone DEF RowInv, RowOK, NoRow
<1>6. WindowInv
  BY <1>1, <1>2, <1>3, WeightOfNone DEF WindowInv, WindowOK, Active, NoRow
<1>7. BoundInv
  <2> SUFFICES ASSUME NEW c \in Clients, NEW t \in Nat
               PROVE  Weight(Between(c, t, t + Window)) <= 2 * (Threshold - 1)
    BY DEF BoundInv, BoundOK
  <2>1. Between(c, t, t + Window) = {}
    BY <1>2
  <2> QED
    BY <1>3, <2>1, WeightOfNone
<1>8. BlockIsWarranted
  BY <1>1 DEF BlockIsWarranted
<1> QED
  BY <1>4, <1>5, <1>6, <1>7, <1>8 DEF GatewayInv

LEMMA GatewayNext == GatewayInv /\ [Next]_vars => GatewayInv'
<1> SUFFICES ASSUME GatewayInv, [Next]_vars PROVE GatewayInv'
  OBVIOUS
<1>1. CASE UNCHANGED vars
  <2>1. UNCHANGED <<now, at, req, violations, blockedUntil, offences>>
    BY <1>1 DEF vars, edgeVars
  <2>2. GatewayTypeOK'
    BY <2>1 DEF GatewayInv, GatewayTypeOK, Units
  <2>3. \A c \in Clients : blockedUntil'[c] \in {blockedUntil[c], 0}
    BY <2>1
  <2> QED
    BY <2>1, <2>2, <2>3, NothingRecorded
<1> QED
  BY <1>1, EdgeKeepsGateway, StepKeepsGateway DEF Next

\* A client is blocked for a threshold of its own offences in one window, and
\* never gets away with more than two windows' worth (adaptiveBlock.js:27-44).
THEOREM BlocksAreRight == Spec => []BlocksMatchOffences
<1>1. GatewayInv => BlocksMatchOffences
  <2> SUFFICES ASSUME GatewayInv PROVE BlocksMatchOffences
    OBVIOUS
  <2>1. OffencesAreBounded
    BY DEF GatewayInv, GatewayTypeOK, BoundInv, BoundOK, OffencesAreBounded, Calm
  <2> QED
    BY <2>1 DEF GatewayInv, BlocksMatchOffences
<1> QED
  BY <1>1, GatewayInit, GatewayNext, PTL DEF Spec

=============================================================================
