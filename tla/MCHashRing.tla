----------------------------- MODULE MCHashRing -----------------------------
(* A model-checking instance of HashRing. *)
EXTENDS HashRing, TLC

Symmetry == Permutations(Backends)

\* Three backends of two virtual nodes: all hash functions onto the first four
\* points, which must collide, and all those without a collision onto six.
SomeHashes ==
    LET Keys == Backends \X (1..VNodes)
    IN  [Keys -> 1..4] \cup {f \in [Keys -> Points] : IsInjective(f)}
=============================================================================
