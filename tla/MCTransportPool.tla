-------------------------- MODULE MCTransportPool --------------------------
(* Instances of TransportPool: three calls of getConn and two connections  *)
(* that dialing can produce (a further dial fails).                        *)
EXTENDS TransportPool, TLC

CONSTANTS w1, w2, w3, c1, c2, k1, k2

OneKey == [w \in Wants |-> k1]
TwoKeys == [w \in Wants |-> IF w = w2 THEN k2 ELSE k1]

ConnSymmetry == Permutations(Conns)
Symmetry == Permutations(Conns) \cup Permutations(Wants)
=============================================================================
