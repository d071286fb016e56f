------------------------------ MODULE RingOps -------------------------------
(***************************************************************************)
(* Lookups in a HashRing (hash_ring.cpp).  A ring is the std::map ring_, a *)
(* function from the hash points of the virtual nodes to backends; a key   *)
(* is its hash.  The hash itself (hash_key) is an arbitrary function.      *)
(***************************************************************************)
EXTENDS Integers, FiniteSetsExt

CONSTANT NoBackend    \* std::nullopt

\* Seeded fault: upper_bound for lower_bound, which skips an exact match.
FirstAt_upper_bound(P, h) ==
    IF \E p \in P : p > h THEN Min({p \in P : p > h}) ELSE Min(P)

\* lower_bound(h) in a map whose points are P, wrapping around at end().
FirstAt(P, h) == IF \E p \in P : p >= h THEN Min({p \in P : p >= h}) ELSE Min(P)

\* Seeded fault: the points are numbered and the key taken modulo their count.
get_backend_modulo(ring, h) ==
    LET nth(p) == Cardinality({q \in DOMAIN ring : q < p})
    IN  IF DOMAIN ring = {} THEN NoBackend
        ELSE ring[CHOOSE p \in DOMAIN ring : nth(p) = h % Cardinality(DOMAIN ring)]

get_backend(ring, h) ==
    IF DOMAIN ring = {} THEN NoBackend ELSE ring[FirstAt(DOMAIN ring, h)]

\* The points of the backends that are still candidates.
Candidates(ring, excluded) == {p \in DOMAIN ring : ring[p] \notin excluded}

\* Seeded fault: a walk that starts at the key and does not wrap around.
get_backend_excluding_no_wrap(ring, h, excluded) ==
    IF \A p \in Candidates(ring, excluded) : p < h
    THEN NoBackend
    ELSE ring[FirstAt(Candidates(ring, excluded), h)]

\* The walk around the ring stops at the first point at or after the key,
\* cyclically, whose backend is not excluded: that is lower_bound with
\* wrap-around among the candidate points.  (Module HashRing compares this
\* definition with the do-while loop itself.)
get_backend_excluding(ring, h, excluded) ==
    IF Candidates(ring, excluded) = {}
    THEN NoBackend
    ELSE ring[FirstAt(Candidates(ring, excluded), h)]
=============================================================================
