------------------------------ MODULE HashRing ------------------------------
(***************************************************************************)
(* The consistent-hash ring (hash_ring.cpp): backends are added and        *)
(* removed, keys are looked up.  The methods hold mutex_ throughout, so    *)
(* each is one step.  hash_key() is any function of Hashes, fixed from the *)
(* start; a set of functions with collisions may be given.                 *)
(***************************************************************************)
EXTENDS RingOps, Functions

CONSTANTS Backends,
          VNodes,      \* num_vnodes_per_backend_
          Points,      \* the range of hash_key()
          Hashes       \* the hash functions, from vnode keys to Points

ASSUME RingAssumption ==
    /\ VNodes \in Nat /\ Points \subseteq Nat
    /\ Hashes \subseteq [Backends \X (1..VNodes) -> Points]
    /\ NoBackend \notin Backends

\* hash_key() returns a uint64_t.
ASSUME PointsBounded == \E top \in Points \cup {0} : \A p \in Points : p <= top

VARIABLES hash, ring, members    \* hash_key, ring_, active_backends_

vars == <<hash, ring, members>>

\* The points of a backend's virtual nodes.
PointsOf(b) == {hash[<<b, v>>] : v \in 1..VNodes}

Init == hash \in Hashes /\ ring = <<>> /\ members = {}

\* ring_[h] = b for every vnode; a point that is taken changes hands.
\* (For a backend that is a member already, a no-op.)
add_backend(b) ==
    /\ b \notin members
    /\ ring' = [p \in DOMAIN ring \cup PointsOf(b) |->
                  IF p \in PointsOf(b) THEN b ELSE ring[p]]
    /\ members' = members \cup {b}
    /\ UNCHANGED hash

\* Seeded fault: the loop over the vnodes stops one short.
remove_backend_one_short(b) ==
    /\ b \in members
    /\ ring' = Restrict(ring, DOMAIN ring \ {hash[<<b, v>>] : v \in 1..(VNodes - 1)})
    /\ members' = members \ {b}
    /\ UNCHANGED hash

\* ring_.erase(h) for every vnode, whoever the point belongs to by now.
remove_backend(b) ==
    /\ b \in members
    /\ ring' = Restrict(ring, DOMAIN ring \ PointsOf(b))
    /\ members' = members \ {b}
    /\ UNCHANGED hash

Next == \E b \in Backends : add_backend(b) \/ remove_backend(b)

Spec == Init /\ [][Next]_vars

-----------------------------------------------------------------------------
(***************************************************************************)
(* The loop of get_backend_excluding(), iterator by iterator.              *)
(***************************************************************************)
\* ++it in the map, wrapping around at end().
After(p) ==
    LET more == {q \in DOMAIN ring : q > p}
    IN  IF more = {} THEN Min(DOMAIN ring) ELSE Min(more)

Walk(h, excluded) ==
    LET start == FirstAt(DOMAIN ring, h)
        walk[p \in DOMAIN ring] ==
            IF ring[p] \notin excluded THEN ring[p]
            ELSE IF After(p) = start THEN NoBackend
            ELSE walk[After(p)]
    IN  IF ring = <<>> THEN NoBackend ELSE walk[start]

-----------------------------------------------------------------------------
(* Properties. *)

\* No lookup is routed to a backend that has been removed, whatever the
\* collisions between virtual nodes and the order of additions and removals.
NoGhosts == Range(ring) \subseteq members

\* A key belongs to the backend whose point is the nearest clockwise, a point
\* equal to the key included (hash_ring.cpp:89).
Clockwise ==
    LET distance(h, p) == (p - h) % (Max(Points) + 1)
    IN  \A h \in Points : ring # <<>> =>
            \E p \in DOMAIN ring :
                /\ get_backend(ring, h) = ring[p]
                /\ \A q \in DOMAIN ring : distance(h, p) <= distance(h, q)

\* The loop finds what RingOps says: the first candidate at or after the key,
\* cyclically; it terminates, and it finds nothing only when every backend on
\* the ring is excluded.
WalkFinds ==
    \A h \in Points, excluded \in SUBSET Backends :
        Walk(h, excluded) = get_backend_excluding(ring, h, excluded)

\* Without collisions the ring depends on the membership only, not on the
\* history of additions and removals: every member owns exactly its points.
RingIsMembership ==
    IsInjective(hash) =>
        /\ DOMAIN ring = UNION {PointsOf(b) : b \in members}
        /\ \A b \in members : \A p \in PointsOf(b) : ring[p] = b

\* Without collisions, excluding a backend sends its clients where removing
\* it would send them: retries and membership changes agree.
ExclusionIsRemoval ==
    IsInjective(hash) =>
        \A h \in Points, excluded \in SUBSET members :
            get_backend_excluding(ring, h, excluded)
              = get_backend(Restrict(ring, DOMAIN ring
                                             \ UNION {PointsOf(b) : b \in excluded}), h)

\* Adding a backend moves keys to it only, collisions or not.  Removing one
\* moves only the keys that were found at one of its points, and these were
\* its own (README.md:11) unless another backend had taken a point that
\* collides: remove_backend erases it whoever owns it.
MinimalDisruption ==
    [][\A h \in Points :
          LET from == get_backend(ring, h)
              to   == get_backend(ring', h)
          IN  from # to =>
                \/ members' \ members = {to}
                \/ \E b \in members \ members' :
                      /\ FirstAt(DOMAIN ring, h) \in PointsOf(b)
                      /\ IsInjective(hash) => from = b]_vars
=============================================================================
