------------------------------ MODULE MCRelay ------------------------------
(* Relay with two relayers and two preimage makers that are               *)
(* interchangeable: no action or safety property tells them apart.         *)
EXTENDS Relay, TLC

CONSTANTS r1, r2, q1, q2

Symmetric == Permutations(Relayers) \cup Permutations(Replicas)
=============================================================================
