---------------------------- MODULE MCFraudGraph ----------------------------
(* Instances of FraudGraph for TLC: lots of up to five fines of two plates. *)
EXTENDS FraudGraph

Fine(i, p, u, j, t) ==
    [id |-> i, at |-> 0, plate |-> p, user |-> u, jurisdiction |-> j, type |-> t]

\* Their differences: none, the edge of each window, and just past it.
Moments == {0, H24, H24 + 1, D7, D30 + 1}

\* One plate again and again; one plate and several users; one user and several plates.
Lots == {
    <<Fine(1, "A", "u", "J", "t"), Fine(2, "A", "u", "J", "t"), Fine(3, "A", "u", "J", "t"),
      Fine(4, "A", "u", "J", "t"), Fine(5, "A", "u", "K", "s")>>,
    <<Fine(1, "A", "u", "J", "t"), Fine(2, "A", "w", "J", "t"), Fine(3, "A", Blank, "K", "t"),
      Fine(4, "A", "w", "J", "t"), Fine(5, "A", "x", "K", "t")>>,
    <<Fine(1, "A", "u", "J", "t"), Fine(2, "B", "u", "K", "t"), Fine(3, Blank, "u", "J", "t"),
      Fine(4, "B", "u", "J", "t"), Fine(5, "B", "w", "K", "t")>>}
=============================================================================
