---------------------------- MODULE MCServerPool ----------------------------
(* Instances of ServerPool for TLC: two workers, a ring of two, and enough *)
(* connections to fill the ring, wrap it and have one refused; one number  *)
(* is the listening socket's.                                              *)
EXTENDS ServerPool, TLC

CONSTANTS c1, c2, c3, d1, d2, d3, d4

ThreeConns == {c1, c2, c3}
TwoConns   == {c1, c2}
ThreeFds   == {d1, d2, d3}
FourFds    == {d1, d2, d3, d4}

\* Connections are interchangeable, and so are descriptor numbers.
Symmetry == Permutations(ThreeConns) \union Permutations(FourFds)

\* For liveness, where symmetry is not sound: the listening socket has d3,
\* which is no loss as the numbers are alike, and other components have at
\* most one descriptor open (bound).
OneForeign == \A d, e \in Fds : table'[d] = Foreign /\ table'[e] = Foreign => d = e
LiveSpec == listener = d3 /\ Init /\ [][Next /\ OneForeign]_vars /\ Fairness
=============================================================================
