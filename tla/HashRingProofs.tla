--------------------------- MODULE HashRingProofs ---------------------------
(***************************************************************************)
(* The ring under any additions and removals and any hash function.        *)
(***************************************************************************)
EXTENDS HashRing, OperatorProofs

\* A point on the ring is a virtual node of the member it leads to.
Owned ==
    /\ hash \in Hashes /\ members \subseteq Backends
    /\ \A p \in DOMAIN ring : ring[p] \in members /\ p \in PointsOf(ring[p])

LEMMA PointsAre == Owned => \A b \in Backends : PointsOf(b) \subseteq Points
  <1>1. Owned => hash \in [Backends \X (1..VNodes) -> Points]
    BY RingAssumption, Zenon DEF RingAssumption, Owned
  <1> QED  BY <1>1, Zenon DEF PointsOf

\* What the two operations leave on the ring.
LEMMA AddIs ==
    ASSUME NEW b \in Backends, add_backend(b)
    PROVE  /\ hash' = hash /\ members' = members \cup {b} /\ b \notin members
           /\ \A d : PointsOf(d)' = PointsOf(d)
           /\ DOMAIN ring' = DOMAIN ring \cup PointsOf(b)
           /\ \A p \in DOMAIN ring' : ring'[p] = IF p \in PointsOf(b) THEN b ELSE ring[p]
  BY Zenon DEF add_backend, PointsOf

LEMMA RemoveIs ==
    ASSUME NEW b \in Backends, remove_backend(b)
    PROVE  /\ hash' = hash /\ members' = members \ {b} /\ b \in members
           /\ \A d : PointsOf(d)' = PointsOf(d)
           /\ DOMAIN ring' = DOMAIN ring \ PointsOf(b)
           /\ \A p \in DOMAIN ring' : ring'[p] = ring[p]
  BY Zenon DEF remove_backend, PointsOf, Restrict

LEMMA InitOwned == Init => Owned
  BY DEF Init, Owned

LEMMA NextOwned == Owned /\ [Next]_vars => Owned'
  <1> SUFFICES ASSUME Owned, [Next]_vars PROVE Owned'
    OBVIOUS
  <1>1. ASSUME NEW b \in Backends, add_backend(b) PROVE Owned'
    <2>1. ASSUME NEW p \in DOMAIN ring' PROVE ring'[p] \in members' /\ p \in PointsOf(ring'[p])
      <3>1. CASE p \in PointsOf(b)
        BY <1>1, <3>1, AddIs, Zenon
      <3>2. CASE p \notin PointsOf(b)
        BY <1>1, <3>2, AddIs, Zenon DEF Owned
      <3> QED  BY <3>1, <3>2
    <2>2. hash' \in Hashes /\ members' \subseteq Backends
      BY <1>1, AddIs, Zenon DEF Owned
    <2>3. \A d : PointsOf(d)' = PointsOf(d)
      BY <1>1, AddIs, Zenon
    <2> QED  BY <2>1, <2>2, <2>3, Zenon DEF Owned
  <1>2. ASSUME NEW b \in Backends, remove_backend(b) PROVE Owned'
    <2>1. ASSUME NEW p \in DOMAIN ring' PROVE ring'[p] \in members' /\ p \in PointsOf(ring'[p])
      <3>1. p \in DOMAIN ring /\ p \notin PointsOf(b) /\ ring'[p] = ring[p] /\ members' = members \ {b}
        BY <1>2, RemoveIs, Zenon
      <3>2. ring[p] \in members /\ p \in PointsOf(ring[p])
        BY <3>1, Zenon DEF Owned
      <3> QED  BY <3>1, <3>2, Zenon
    <2>2. hash' \in Hashes /\ members' \subseteq Backends
      BY <1>2, RemoveIs, Zenon DEF Owned
    <2>3. \A d : PointsOf(d)' = PointsOf(d)
      BY <1>2, RemoveIs, Zenon
    <2> QED  BY <2>1, <2>2, <2>3, Zenon DEF Owned
  <1>3. CASE UNCHANGED vars
    BY <1>3 DEF vars, Owned, PointsOf
  <1> QED  BY <1>1, <1>2, <1>3 DEF Next

\* A lookup never leads to a backend that was removed, whatever collides
\* (hash_ring.cpp:56-66): the points of a backend are all erased, and those
\* that another one took over are its own no more.
THEOREM NoGhostsEver == Spec => []NoGhosts
  <1>1. Owned => NoGhosts
    BY DEF Owned, NoGhosts, Range
  <1> QED  BY <1>1, InitOwned, NextOwned, PTL DEF Spec

-----------------------------------------------------------------------------
(* Lookups. *)
LEMMA RingPoints == Owned => DOMAIN ring \in SUBSET Nat
  <1>1. Points \subseteq Nat
    BY RingAssumption DEF RingAssumption
  <1> QED  BY <1>1, PointsAre, Zenon DEF Owned

LEMMA TopPoint ==
    ASSUME NEW h \in Points
    PROVE  Max(Points) \in Nat /\ h \in Nat /\ \A p \in Points : p \in Nat /\ p <= Max(Points)
  <1>1. Points \subseteq Nat
    BY RingAssumption DEF RingAssumption
  <1>2. \E top \in Points : \A p \in Points : top >= p
    <2>1. PICK top \in Points \cup {0} : \A p \in Points : p <= top
      BY PointsBounded DEF PointsBounded
    <2>2. CASE top \in Points
      BY <1>1, <2>1, <2>2
    <2>3. CASE top = 0
      BY <1>1, <2>1, <2>3
    <2> QED  BY <2>2, <2>3
  <1>3. Max(Points) \in Points /\ \A p \in Points : Max(Points) >= p
    BY <1>2, Zenon DEF Max
  <1> QED  BY <1>1, <1>3, Zenon

\* How far it is from h up to p on a circle of m points.
LEMMA Around ==
    ASSUME NEW m \in Nat, NEW h \in 0..m, NEW p \in 0..m
    PROVE  (p - h) % (m + 1) = IF h <= p THEN p - h ELSE p - h + (m + 1)
  <1> DEFINE d == p - h
             n == m + 1
  <1>1. d \in Int /\ n \in Nat /\ n > 0 /\ -n < d /\ d < n
    OBVIOUS
  <1>2. d % n \in 0..n - 1 /\ d = n * (d \div n) + (d % n) /\ d \div n \in Int
    <2> HIDE DEF d, n
    <2> QED  BY <1>1
  <1>3. d % n = IF d >= 0 THEN d ELSE d + n
    <2> HIDE DEF d, n
    <2> QED  BY <1>1, <1>2
  <1> QED  BY <1>3

\* lower_bound() with its wrap-around (hash_ring.cpp:68-79) is the nearest
\* point clockwise, for any ring and any key: an equal point comes first, and
\* behind the last point the circle goes on with the first.
THEOREM NearestClockwise == Spec => []Clockwise
  <1>1. Owned => Clockwise
    <2> DEFINE m == Max(Points)
    <2> SUFFICES ASSUME Owned, NEW h \in Points, ring # <<>>
                 PROVE  \E p \in DOMAIN ring :
                           /\ get_backend(ring, h) = ring[p]
                           /\ \A q \in DOMAIN ring : (p - h) % (m + 1) <= (q - h) % (m + 1)
      BY DEF Clockwise
    <2>1. CASE DOMAIN ring = {}
      BY <2>1
    <2>2. CASE DOMAIN ring # {}
      <3> DEFINE P == DOMAIN ring
                 p == FirstAt(P, h)
      <3>1. P \in SUBSET Nat /\ m \in Nat /\ h \in 0..m /\ \A q \in P : q \in 0..m
        <4>1. P \in SUBSET Nat
          BY RingPoints
        <4>2. \A q \in P : q \in Points
          BY PointsAre, Zenon DEF Owned
        <4> QED  BY <4>1, <4>2, TopPoint
      <3>2. /\ p \in P
            /\ \/ p >= h /\ \A q \in P : q >= h => p <= q
               \/ \A q \in P : q < h /\ p <= q
        <4>1. h \in Nat
          BY <3>1
        <4> HIDE DEF P
        <4> QED  BY <2>2, <3>1, <4>1, FirstAtIs, Zenon DEF P
      <3>3. get_backend(ring, h) = ring[p]
        BY <2>2 DEF get_backend
      <3>4. ASSUME NEW q \in P PROVE (p - h) % (m + 1) <= (q - h) % (m + 1)
        <4> HIDE DEF P, p, m
        <4>1. /\ (p - h) % (m + 1) = IF h <= p THEN p - h ELSE p - h + (m + 1)
              /\ (q - h) % (m + 1) = IF h <= q THEN q - h ELSE q - h + (m + 1)
          BY <3>1, <3>2, Around, Zenon
        <4> QED  BY <3>1, <3>2, <4>1
      <3> QED  BY <3>2, <3>3, <3>4
    <2> QED  BY <2>1, <2>2, Zenon
  <1> QED  BY <1>1, InitOwned, NextOwned, PTL DEF Spec

-----------------------------------------------------------------------------
(***************************************************************************)
(* The loop of get_backend_excluding().  Dist is how far a point is from   *)
(* the start of the walk; ++it goes to the next point by that distance, or *)
(* back to the start, and so the loop ends.                                *)
(***************************************************************************)
Dist(start, p) == IF start <= p THEN p - start ELSE p - start + (Max(Points) + 1)

LEMMA Distances ==
    ASSUME Owned, NEW start \in DOMAIN ring
    PROVE  /\ Max(Points) \in Nat /\ Dist(start, start) = 0
           /\ \A p \in DOMAIN ring : /\ p \in 0..Max(Points) /\ Dist(start, p) \in 0..Max(Points)
                                     /\ Dist(start, p) = 0 => p = start
                                     /\ \A q \in DOMAIN ring :
                                           Dist(start, p) = Dist(start, q) => p = q
  <1>1. DOMAIN ring \subseteq Points
    BY PointsAre, Zenon DEF Owned
  <1>2. Max(Points) \in Nat /\ \A p \in DOMAIN ring : p \in 0..Max(Points)
    BY <1>1, TopPoint
  <1> QED  BY <1>2 DEF Dist

LEMMA AfterIs ==
    ASSUME Owned, NEW start \in DOMAIN ring, NEW p \in DOMAIN ring
    PROVE  /\ After(p) \in DOMAIN ring
           /\ \/ /\ Dist(start, After(p)) > Dist(start, p)
                 /\ \A q \in DOMAIN ring : Dist(start, q) > Dist(start, p)
                                              => Dist(start, q) >= Dist(start, After(p))
              \/ /\ After(p) = start
                 /\ \A q \in DOMAIN ring : Dist(start, q) <= Dist(start, p)
  <1> DEFINE P == DOMAIN ring
             m == Max(Points)
             more == {q \in P : q > p}
  <1>1. m \in Nat /\ \A q \in P : q \in 0..m
    BY Distances
  <1>2. P \in SUBSET Nat /\ more \in SUBSET Nat
    BY RingPoints
  <1>3. CASE more = {}
    <2>1. After(p) = Min(P)
      BY <1>3 DEF After
    <2>2. Min(P) \in P /\ \A q \in P : Min(P) <= q
      BY <1>2, MinIs
    <2>3. \A q \in P : q <= p
      BY <1>2, <1>3
    <2> DEFINE a == After(p)
    <2> HIDE DEF P, m, a
    <2>4. a \in P /\ \A q \in P : a <= q
      BY <2>1, <2>2 DEF a
    <2>5. start \in P /\ p \in P
      BY DEF P
    <2>6. CASE a = start
      BY <1>1, <2>3, <2>4, <2>5, <2>6 DEF Dist, m, P, a
    <2>7. CASE a # start
      BY <1>1, <2>3, <2>4, <2>5, <2>7 DEF Dist, m, P, a
    <2> QED  BY <2>6, <2>7
  <1>4. CASE more # {}
    <2> DEFINE a == After(p)
    <2>1. a = Min(more)
      BY <1>4 DEF After
    <2>2. a \in more /\ \A q \in more : a <= q
      BY <1>2, <1>4, <2>1, MinIs
    <2>3. a \in P /\ a > p /\ \A q \in P : q > p => a <= q
      BY <2>2
    <2>4. start \in P /\ p \in P
      OBVIOUS
    <2> HIDE DEF P, m, a, more
    <2>5. CASE a = start
      BY <1>1, <2>3, <2>4, <2>5 DEF Dist, m, P, a
    <2>6. CASE a # start
      BY <1>1, <2>3, <2>4, <2>6 DEF Dist, m, P, a
    <2> QED  BY <2>5, <2>6
  <1> QED  BY <1>3, <1>4

\* The body of the loop, f being what the rest of the walk will find.
Loop(f, start, excluded) ==
    [p \in DOMAIN ring |-> IF ring[p] \notin excluded THEN ring[p]
                           ELSE IF After(p) = start THEN NoBackend
                           ELSE f[After(p)]]

\* There is one way to walk: of two that differ, take the point farthest from
\* the start where they do; they agree on the next one.
LEMMA OneWalk ==
    ASSUME Owned, NEW start \in DOMAIN ring, NEW ex,
           NEW f, f = Loop(f, start, ex), NEW g, g = Loop(g, start, ex)
    PROVE  f = g
  <1> DEFINE m == Max(Points)
             B == {p \in DOMAIN ring : f[p] # g[p]}
             D == {m - Dist(start, p) : p \in B}
  <1>1. DOMAIN f = DOMAIN ring /\ DOMAIN g = DOMAIN ring
    BY Zenon DEF Loop
  <1>2. SUFFICES ASSUME B # {} PROVE FALSE
    BY <1>1, Zenon DEF Loop
  <1>3. m \in Nat /\ \A p \in DOMAIN ring : Dist(start, p) \in 0..m
    BY Distances, Zenon
  <1>4. D \in SUBSET Nat /\ D # {}
    BY <1>2, <1>3
  <1>5. PICK d \in D : \A e \in D : d <= e
    <2> HIDE DEF D
    <2> QED  BY <1>4, MinIs, Zenon
  <1>6. PICK p \in B : d = m - Dist(start, p)
    BY <1>5, Zenon
  <1>7. p \in DOMAIN ring /\ f[p] # g[p]
    BY <1>6
  <1>8. After(p) # start /\ f[After(p)] # g[After(p)]
    BY <1>7, Zenon DEF Loop
  <1>9. After(p) \in DOMAIN ring /\ Dist(start, After(p)) > Dist(start, p)
    BY <1>7, <1>8, AfterIs, Zenon
  <1>10. m - Dist(start, After(p)) \in D
    BY <1>8, <1>9, Zenon
  <1> HIDE DEF D, B, m
  <1> QED  BY <1>3, <1>5, <1>6, <1>7, <1>9, <1>10

Nearest(start, Q) == CHOOSE q \in Q : \A r \in Q : Dist(start, q) <= Dist(start, r)

LEMMA NearestIs ==
    ASSUME Owned, NEW start \in DOMAIN ring, NEW Q \in SUBSET DOMAIN ring,
           NEW x \in Q, \A r \in Q : Dist(start, x) <= Dist(start, r)
    PROVE  Nearest(start, Q) = x
  <1> DEFINE y == Nearest(start, Q)
  <1>1. y \in Q /\ \A r \in Q : Dist(start, y) <= Dist(start, r)
    BY Zenon DEF Nearest
  <1>2. Dist(start, y) = Dist(start, x)
    <2>1. Dist(start, y) \in Int /\ Dist(start, x) \in Int
      BY <1>1, Distances
    <2> QED  BY <1>1, <2>1
  <1> QED  BY <1>1, <1>2, Distances, Zenon

\* What a walk finds from p on.
Ahead(start, p, ex) == {q \in Candidates(ring, ex) : Dist(start, q) >= Dist(start, p)}

Found(start, ex) ==
    [p \in DOMAIN ring |-> IF Ahead(start, p, ex) = {} THEN NoBackend
                           ELSE ring[Nearest(start, Ahead(start, p, ex))]]

LEMMA FoundLoops ==
    ASSUME Owned, NEW start \in DOMAIN ring, NEW ex
    PROVE  Found(start, ex) = Loop(Found(start, ex), start, ex)
  <1> DEFINE f == Found(start, ex)
  <1> SUFFICES ASSUME NEW p \in DOMAIN ring
               PROVE  f[p] = IF ring[p] \notin ex THEN ring[p]
                             ELSE IF After(p) = start THEN NoBackend ELSE f[After(p)]
    BY Zenon DEF Found, Loop
  <1> DEFINE A == Ahead(start, p, ex)
  <1>1. /\ f[p] = IF A = {} THEN NoBackend ELSE ring[Nearest(start, A)]
        /\ A \in SUBSET DOMAIN ring
    BY Zenon DEF Found, Ahead, Candidates
  <1>2. \A q \in DOMAIN ring : Dist(start, q) \in Int /\ (Dist(start, q) = Dist(start, p) => q = p)
    BY Distances
  <1>3. CASE ring[p] \notin ex
    <2>1. p \in A /\ \A r \in A : Dist(start, p) <= Dist(start, r)
      BY <1>2, <1>3 DEF Ahead, Candidates
    <2>2. Nearest(start, A) = p
      BY <1>1, <2>1, NearestIs, Zenon
    <2> QED  BY <1>1, <1>3, <2>1, <2>2, Zenon
  <1>4. CASE ring[p] \in ex /\ After(p) = start
    <2>1. \A q \in DOMAIN ring : Dist(start, q) <= Dist(start, p)
      <3>1. ~(Dist(start, After(p)) > Dist(start, p))
        BY <1>4, Distances
      <3> QED  BY <3>1, AfterIs, Zenon
    <2>2. A = {}
      <3> SUFFICES ASSUME NEW q \in A PROVE FALSE
        OBVIOUS
      <3>1. q \in DOMAIN ring /\ ring[q] \notin ex /\ Dist(start, q) >= Dist(start, p)
        BY DEF Ahead, Candidates
      <3>2. q = p
        BY <1>2, <2>1, <3>1
      <3> QED  BY <1>4, <3>1, <3>2
    <2> QED  BY <1>1, <1>4, <2>2, Zenon
  <1>5. CASE ring[p] \in ex /\ After(p) # start
    <2>1. /\ After(p) \in DOMAIN ring /\ Dist(start, After(p)) > Dist(start, p)
          /\ \A q \in DOMAIN ring : Dist(start, q) > Dist(start, p)
                                       => Dist(start, q) >= Dist(start, After(p))
      BY <1>5, AfterIs, Zenon
    <2>2. ASSUME NEW q \in DOMAIN ring, ring[q] \notin ex
          PROVE  Dist(start, q) >= Dist(start, p) <=> Dist(start, q) >= Dist(start, After(p))
      <3>1. Dist(start, q) # Dist(start, p)
        BY <1>2, <1>5, <2>2
      <3> QED  BY <1>2, <2>1, <3>1
    <2>3. A = Ahead(start, After(p), ex)
      BY <2>2 DEF Ahead, Candidates
    <2>4. f[After(p)] = IF A = {} THEN NoBackend ELSE ring[Nearest(start, A)]
      BY <2>1, <2>3, Zenon DEF Found
    <2> QED  BY <1>1, <1>5, <2>4, Zenon
  <1> QED  BY <1>3, <1>4, <1>5

\* The candidate that comes first from the key on is nearest to the start.
LEMMA FirstIsNearest ==
    ASSUME Owned, NEW h \in Points, NEW C \in SUBSET DOMAIN ring, C # {}
    PROVE  /\ FirstAt(DOMAIN ring, h) \in DOMAIN ring
           /\ Nearest(FirstAt(DOMAIN ring, h), C) = FirstAt(C, h)
  <1> DEFINE P == DOMAIN ring
             m == Max(Points)
             s == FirstAt(P, h)
             x == FirstAt(C, h)
  <1>1. P \in SUBSET Nat /\ C \in SUBSET Nat /\ P # {} /\ h \in Nat
    <2>1. h \in Nat
      BY TopPoint
    <2> QED  BY <2>1, RingPoints
  <1>2. /\ s \in P
        /\ \/ s >= h /\ \A q \in P : q >= h => s <= q
           \/ \A q \in P : q < h /\ s <= q
    BY <1>1, FirstAtIs, Zenon
  <1>3. /\ x \in C
        /\ \/ x >= h /\ \A q \in C : q >= h => x <= q
           \/ \A q \in C : q < h /\ x <= q
    BY <1>1, FirstAtIs, Zenon
  <1>4. m \in Nat /\ \A q \in P : q \in 0..m
    BY <1>2, Distances
  <1>5. \A q \in C : Dist(s, x) <= Dist(s, q)
    <2> SUFFICES ASSUME NEW q \in C PROVE Dist(s, x) <= Dist(s, q)
      OBVIOUS
    <2>1. q \in 0..m /\ x \in 0..m /\ s \in 0..m /\ q \in P /\ x \in P
      BY <1>2, <1>3, <1>4
    <2>2. \/ s >= h /\ (q >= h => s <= q) /\ (x >= h => s <= x)
          \/ q < h /\ x < h /\ s <= q /\ s <= x
      BY <1>2, <2>1, Zenon
    <2>3. \/ x >= h /\ (q >= h => x <= q)
          \/ q < h /\ x < h /\ x <= q
      BY <1>3, Zenon
    <2>4. /\ Dist(s, x) = IF s <= x THEN x - s ELSE x - s + (m + 1)
          /\ Dist(s, q) = IF s <= q THEN q - s ELSE q - s + (m + 1)
      BY Zenon DEF Dist
    <2> HIDE DEF P, s, x, m
    <2>5. m \in Nat /\ h \in Nat /\ q \in 0..m /\ x \in 0..m /\ s \in 0..m
      BY <1>1, <1>4, <2>1
    <2> QED  BY <2>2, <2>3, <2>4, <2>5
  <1> QED  BY <1>2, <1>3, <1>5, NearestIs, Zenon

\* The ring is a map: a lookup in an empty one returns before the loop.
IsMap == ring = [p \in DOMAIN ring |-> ring[p]]

LEMMA NextIsMap == (Init => IsMap) /\ (IsMap /\ [Next]_vars => IsMap')
  <1>1. Init => IsMap
    BY DEF Init, IsMap
  <1>2. ASSUME NEW b \in Backends, add_backend(b) PROVE IsMap'
    BY <1>2, Zenon DEF add_backend, IsMap
  <1>3. ASSUME NEW b \in Backends, remove_backend(b) PROVE IsMap'
    BY <1>3, Zenon DEF remove_backend, Restrict, IsMap
  <1>4. IsMap /\ UNCHANGED vars => IsMap'
    BY DEF IsMap, vars
  <1> QED  BY <1>1, <1>2, <1>3, <1>4, Zenon DEF Next

\* The loop of get_backend_excluding(), started anywhere on the ring and
\* stopped when it is back at its first iterator, returns what the
\* declarative lookup returns: it ends, and misses no candidate.
THEOREM WalkCorrect == Spec => []WalkFinds
  <1>1. Owned /\ IsMap => WalkFinds
    <2> SUFFICES ASSUME Owned, IsMap, NEW h \in Points, NEW ex \in SUBSET Backends
                 PROVE  Walk(h, ex) = get_backend_excluding(ring, h, ex)
      BY Zenon DEF WalkFinds
    <2> DEFINE s == FirstAt(DOMAIN ring, h)
               C == Candidates(ring, ex)
    <2>1. C \in SUBSET DOMAIN ring
      BY Zenon DEF Candidates
    <2>2. CASE DOMAIN ring = {}
      <3>1. ring = <<>>
        BY <2>2 DEF IsMap
      <3>2. C = {}
        BY <2>1, <2>2
      <3> QED  BY <3>1, <3>2, Zenon DEF Walk, get_backend_excluding
    <2>3. CASE DOMAIN ring # {}
      <3>1. s \in DOMAIN ring
        BY <2>3, FirstIsNearest, Zenon
      <3>2. ring # <<>>
        BY <2>3
      <3> DEFINE w == CHOOSE f : f = Loop(f, s, ex)
      <3>3. Walk(h, ex) = w[s]
        BY <3>2, Zenon DEF Walk, Loop
      <3>4. w = Loop(w, s, ex)
        BY <3>1, FoundLoops, Zenon
      <3>5. w = Found(s, ex)
        <4>1. Found(s, ex) = Loop(Found(s, ex), s, ex)
          BY <3>1, FoundLoops, Zenon
        <4> HIDE DEF w, s
        <4>2. \A f, g : f = Loop(f, s, ex) /\ g = Loop(g, s, ex) => f = g
          BY <3>1, OneWalk
        <4> QED  BY <3>4, <4>1, <4>2, Zenon
      <3>6. Ahead(s, s, ex) = C
        <4>1. \A q \in C : Dist(s, q) >= Dist(s, s)
          <5>1. Dist(s, s) = 0 /\ Max(Points) \in Nat
                /\ \A q \in DOMAIN ring : Dist(s, q) \in 0..Max(Points)
            BY <3>1, Distances, Zenon
          <5> QED  BY <2>1, <5>1
        <4> QED  BY <4>1, Zenon DEF Ahead
      <3>7. Walk(h, ex) = IF C = {} THEN NoBackend ELSE ring[Nearest(s, C)]
        BY <3>1, <3>3, <3>5, <3>6, Zenon DEF Found
      <3>8. C # {} => Nearest(s, C) = FirstAt(C, h)
        BY <2>1, FirstIsNearest, Zenon
      <3> QED  BY <3>7, <3>8, Zenon DEF get_backend_excluding
    <2> QED  BY <2>2, <2>3
  <1> QED  BY <1>1, InitOwned, NextOwned, NextIsMap, PTL DEF Spec

-----------------------------------------------------------------------------
(* Without collisions. *)

\* A point belongs to one backend only.
LEMMA OneOwner ==
    ASSUME Owned, IsInjective(hash), NEW b \in Backends, NEW d \in Backends,
           NEW p \in PointsOf(b), p \in PointsOf(d)
    PROVE  b = d
  <1>1. hash \in [Backends \X (1..VNodes) -> Points]
    BY RingAssumption, Zenon DEF RingAssumption, Owned
  <1>2. PICK v \in 1..VNodes : p = hash[<<b, v>>]
    BY Zenon DEF PointsOf
  <1>3. PICK w \in 1..VNodes : p = hash[<<d, w>>]
    BY DEF PointsOf
  <1>4. <<b, v>> = <<d, w>>
    BY <1>1, <1>2, <1>3, Zenon DEF IsInjective
  <1> QED  BY <1>4

\* and every member has all of its own.
Full == IsInjective(hash) => \A b \in members : PointsOf(b) \subseteq DOMAIN ring

LEMMA NextFull == Owned /\ Full /\ [Next]_vars => Full'
  <1> SUFFICES ASSUME Owned, Full, [Next]_vars, IsInjective(hash)', NEW b \in members'
               PROVE  PointsOf(b)' \subseteq DOMAIN ring'
    BY Zenon DEF Full
  <1>1. ASSUME NEW d \in Backends, add_backend(d) PROVE PointsOf(b)' \subseteq DOMAIN ring'
    <2>1. /\ IsInjective(hash) /\ PointsOf(b)' = PointsOf(b)
          /\ b \in members \cup {d} /\ DOMAIN ring' = DOMAIN ring \cup PointsOf(d)
      BY <1>1, AddIs
    <2> QED  BY <2>1, Zenon DEF Full
  <1>2. ASSUME NEW d \in Backends, remove_backend(d) PROVE PointsOf(b)' \subseteq DOMAIN ring'
    <2>1. /\ IsInjective(hash) /\ PointsOf(b)' = PointsOf(b)
          /\ b \in members \ {d} /\ DOMAIN ring' = DOMAIN ring \ PointsOf(d)
      BY <1>2, RemoveIs
    <2>2. PointsOf(b) \subseteq DOMAIN ring /\ b \in Backends
      BY <2>1 DEF Full, Owned
    <2>3. \A p \in PointsOf(b) : p \notin PointsOf(d)
      BY <2>1, <2>2, OneOwner, Zenon
    <2> QED  BY <2>1, <2>2, <2>3, Zenon
  <1>3. CASE UNCHANGED vars
    BY <1>3 DEF vars, Full, PointsOf
  <1> QED  BY <1>1, <1>2, <1>3 DEF Next

LEMMA InitFull == Init => Full
  BY DEF Init, Full

LEMMA OwnedFull == Owned /\ Full => RingIsMembership
  <1> SUFFICES ASSUME Owned, Full, IsInjective(hash)
               PROVE  /\ DOMAIN ring = UNION {PointsOf(b) : b \in members}
                      /\ \A b \in members : \A p \in PointsOf(b) : ring[p] = b
    BY Zenon DEF RingIsMembership
  <1>1. ASSUME NEW b \in members, NEW p \in PointsOf(b) PROVE p \in DOMAIN ring /\ ring[p] = b
    <2>1. p \in DOMAIN ring /\ b \in Backends /\ members \subseteq Backends
      BY DEF Full, Owned
    <2>2. ring[p] \in members /\ p \in PointsOf(ring[p])
      BY <2>1 DEF Owned
    <2> QED  BY <2>1, <2>2, OneOwner, Zenon
  <1>2. \A p \in DOMAIN ring : ring[p] \in members /\ p \in PointsOf(ring[p])
    BY DEF Owned
  <1> QED  BY <1>1, <1>2, Zenon

\* The ring is a function of the membership: no order of additions and
\* removals leaves a point too many or too few (hash_ring.cpp:44-66).
THEOREM RingOfMembers == Spec => []RingIsMembership
  BY InitOwned, NextOwned, InitFull, NextFull, OwnedFull, PTL DEF Spec

\* A retry that excludes some backends goes where it would go had they been
\* removed (hash_ring.cpp:81-109): the points get_backend_excluding() passes
\* over are the ones remove_backend() would erase.
THEOREM ExclusionLikeRemoval == Spec => []ExclusionIsRemoval
  <1>1. Owned /\ RingIsMembership => ExclusionIsRemoval
    <2> SUFFICES ASSUME Owned, RingIsMembership, IsInjective(hash),
                        NEW h \in Points, NEW excluded \in SUBSET members
                 PROVE  get_backend_excluding(ring, h, excluded)
                          = get_backend(Restrict(ring, DOMAIN ring
                                 \ UNION {PointsOf(b) : b \in excluded}), h)
      BY Zenon DEF ExclusionIsRemoval
    <2> DEFINE C == Candidates(ring, excluded)
               D == DOMAIN ring \ UNION {PointsOf(b) : b \in excluded}
    <2>1. ASSUME NEW p \in DOMAIN ring
          PROVE  ring[p] \in excluded <=> \E b \in excluded : p \in PointsOf(b)
      <3>1. p \in PointsOf(ring[p])
        BY DEF Owned
      <3>2. \A b \in excluded : p \in PointsOf(b) => ring[p] = b
        BY Zenon DEF RingIsMembership
      <3> QED  BY <3>1, <3>2, Zenon
    <2>2. C = D
      BY <2>1, Zenon DEF Candidates
    <2> HIDE DEF D
    <2>3. DOMAIN Restrict(ring, D) = D /\ \A p \in D : Restrict(ring, D)[p] = ring[p]
      BY Zenon DEF Restrict
    <2>4. ASSUME D = {} PROVE get_backend_excluding(ring, h, excluded) = get_backend(Restrict(ring, D), h)
      BY <2>2, <2>3, <2>4, Zenon DEF get_backend, get_backend_excluding
    <2>5. ASSUME D # {} PROVE get_backend_excluding(ring, h, excluded) = get_backend(Restrict(ring, D), h)
      <3>1. D \in SUBSET Nat /\ h \in Nat
        BY RingPoints, RingAssumption DEF D, RingAssumption
      <3>2. FirstAt(D, h) \in D
        BY <2>5, <3>1, FirstAtIs, Zenon
      <3> QED  BY <2>2, <2>3, <2>5, <3>2, Zenon DEF get_backend, get_backend_excluding
    <2> QED  BY <2>4, <2>5, Zenon DEF D
  <1> QED  BY <1>1, InitOwned, NextOwned, InitFull, NextFull, OwnedFull, PTL DEF Spec

-----------------------------------------------------------------------------
(* Changes of membership. *)

\* Keys that led to a point of both rings lead there still.
LEMMA SamePoint ==
    ASSUME NEW f, NEW g, NEW h \in Nat, DOMAIN f \in SUBSET Nat, DOMAIN g \subseteq DOMAIN f,
           FirstAt(DOMAIN f, h) \in DOMAIN g,
           f[FirstAt(DOMAIN f, h)] = g[FirstAt(DOMAIN f, h)]
    PROVE  get_backend(f, h) = get_backend(g, h)
  <1>1. FirstAt(DOMAIN g, h) = FirstAt(DOMAIN f, h)
    BY FoundAmongFewer, Zenon
  <1>2. FirstAt(DOMAIN f, h) \in DOMAIN f /\ DOMAIN f # {} /\ DOMAIN g # {}
    BY Zenon
  <1> QED  BY <1>1, <1>2, Zenon DEF get_backend

\* For every hash function, an addition moves keys only to the new backend
\* (hash_ring.cpp:44-54), and a removal only those found at a point of the
\* removed one (hash_ring.cpp:56-66); without collisions these were its own
\* (README.md:11).
THEOREM DisruptionMinimal == Spec => MinimalDisruption
  <1> DEFINE Moves(h) ==
               LET from == get_backend(ring, h)
                   to   == get_backend(ring', h)
               IN  from # to =>
                     \/ members' \ members = {to}
                     \/ \E b \in members \ members' :
                           /\ FirstAt(DOMAIN ring, h) \in PointsOf(b)
                           /\ IsInjective(hash) => from = b
  <1>1. ASSUME Owned, RingIsMembership, [Next]_vars, NEW h \in Points
        PROVE  UNCHANGED vars \/ Moves(h)
    <2>0. h \in Nat /\ DOMAIN ring \in SUBSET Nat /\ \A b \in Backends : PointsOf(b) \subseteq Nat
      BY <1>1, RingPoints, PointsAre, RingAssumption, Zenon DEF RingAssumption
    <2>1. ASSUME NEW b \in Backends, add_backend(b) PROVE Moves(h)
      <3> DEFINE q == FirstAt(DOMAIN ring', h)
      <3>1. members' \ members = {b} /\ DOMAIN ring' \in SUBSET Nat
        BY <2>0, <2>1, AddIs, Zenon
      <3>2. CASE DOMAIN ring' = {}
        <4>1. DOMAIN ring = {}
          BY <2>1, <3>2, AddIs, Zenon
        <4> QED  BY <3>2, <4>1, Zenon DEF get_backend
      <3>3. CASE DOMAIN ring' # {} /\ q \in PointsOf(b)
        <4>1. q \in DOMAIN ring' /\ ring'[q] = b
          BY <2>1, <3>3, AddIs, Zenon
        <4>2. get_backend(ring', h) = b
          BY <3>3, <4>1, Zenon DEF get_backend
        <4> QED  BY <3>1, <4>2, Zenon
      <3>4. CASE DOMAIN ring' # {} /\ q \notin PointsOf(b)
        <4>1. q \in DOMAIN ring'
          BY <2>0, <3>1, <3>4, FirstAtIs, Zenon
        <4>2. q \in DOMAIN ring /\ ring'[q] = ring[q] /\ DOMAIN ring \subseteq DOMAIN ring'
          BY <2>1, <3>4, <4>1, AddIs, Zenon
        <4>3. get_backend(ring', h) = get_backend(ring, h)
          BY <2>0, <3>1, <4>2, SamePoint, Zenon
        <4> QED  BY <4>3, Zenon
      <3> QED  BY <3>2, <3>3, <3>4, Zenon
    <2>2. ASSUME NEW b \in Backends, remove_backend(b) PROVE Moves(h)
      <3> DEFINE q == FirstAt(DOMAIN ring, h)
      <3>1. members \ members' = {b}
        BY <2>2, RemoveIs, Zenon
      <3>2. CASE DOMAIN ring = {}
        <4>1. DOMAIN ring' = {}
          BY <2>2, <3>2, RemoveIs
        <4> QED  BY <3>2, <4>1, Zenon DEF get_backend
      <3>3. CASE DOMAIN ring # {} /\ q \in PointsOf(b)
        <4>1. IsInjective(hash) => ring[q] = b
          BY <1>1, <2>2, <3>3, RemoveIs, Zenon DEF RingIsMembership
        <4>2. IsInjective(hash) => get_backend(ring, h) = b
          BY <3>3, <4>1, Zenon DEF get_backend
        <4> QED  BY <3>1, <3>3, <4>2, Zenon
      <3>4. CASE DOMAIN ring # {} /\ q \notin PointsOf(b)
        <4>1. q \in DOMAIN ring
          BY <2>0, <3>4, FirstAtIs, Zenon
        <4>2. q \in DOMAIN ring' /\ ring'[q] = ring[q] /\ DOMAIN ring' \subseteq DOMAIN ring
          BY <2>2, <3>4, <4>1, RemoveIs, Zenon
        <4>3. get_backend(ring, h) = get_backend(ring', h)
          BY <2>0, <4>2, SamePoint, Zenon
        <4> QED  BY <4>3, Zenon
      <3> QED  BY <3>2, <3>3, <3>4, Zenon
    <2> QED  BY <1>1, <2>1, <2>2 DEF Next
  <1>2. Owned /\ RingIsMembership /\ [Next]_vars => [\A h \in Points : Moves(h)]_vars
    BY <1>1, Zenon
  <1> QED
    BY <1>2, InitOwned, NextOwned, InitFull, NextFull, OwnedFull, PTL DEF Spec, MinimalDisruption
=============================================================================
