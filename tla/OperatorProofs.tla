--------------------------- MODULE OperatorProofs ---------------------------
(***************************************************************************)
(* Lemmas about the operators the components share: what each method of    *)
(* CircuitBreaker does to the fields, where a lookup on the ring ends, and *)
(* how a sum over the backends moves with one counter.                     *)
(***************************************************************************)
EXTENDS BreakerOps, RingOps, Functions, FiniteSetTheorems, WellFoundedInduction, TLAPS

-----------------------------------------------------------------------------
(* The breaker. *)

\* The ranges of the fields, one by one.
LEMMA FieldTypes ==
    ASSUME NEW cb \in Breaker
    PROVE  /\ cb.state \in BreakerState
           /\ cb.failures \in Int /\ 0 <= cb.failures /\ cb.failures <= FailureThreshold
           /\ cb.successes \in Int /\ 0 <= cb.successes /\ cb.successes < SuccessThreshold
           /\ cb.elapsed \in Int /\ 0 <= cb.elapsed /\ cb.elapsed <= Cooldown
           /\ cb.trial \in BOOLEAN
  BY BreakerAssumption DEF Breaker

\* allow_request() takes the slot unless the breaker is CLOSED, and touches
\* neither the failure streak nor the cooldown.
LEMMA AllowFacts ==
    ASSUME NEW cb \in Breaker, allows(cb)
    PROVE  /\ allow_request(cb) \in Breaker
           /\ cb.state = "CLOSED" => allow_request(cb) = cb
           /\ cb.state # "CLOSED" => /\ allow_request(cb).state = "HALF_OPEN"
                                     /\ allow_request(cb).trial = TRUE
           /\ cb.state = "OPEN" => cb.elapsed = Cooldown
           /\ cb.state = "HALF_OPEN" => ~cb.trial
  <1>1. CASE cb.state = "CLOSED"
    BY <1>1 DEF allow_request
  <1>2. CASE cb.state = "OPEN"
    <2>1. cb.elapsed = Cooldown
      BY <1>2, FieldTypes, BreakerAssumption DEF allows
    <2>2. allow_request(cb) = StartTrial(cb)
      BY <1>2 DEF allow_request
    <2> QED  BY <1>2, <2>1, <2>2, BreakerAssumption DEF StartTrial, Breaker, BreakerState
  <1>3. CASE cb.state = "HALF_OPEN"
    <2>1. ~cb.trial
      BY <1>3 DEF allows
    <2>2. allow_request(cb) = [cb EXCEPT !.trial = TRUE]
      BY <1>3 DEF allow_request
    <2> QED  BY <1>3, <2>1, <2>2, Zenon DEF Breaker, BreakerState
  <1> QED  BY <1>1, <1>2, <1>3, FieldTypes, Zenon DEF BreakerState

\* record_success() in HALF_OPEN empties the slot and may close the breaker;
\* elsewhere it only clears the failure streak.
LEMMA SuccessFacts ==
    ASSUME NEW cb \in Breaker
    PROVE  /\ record_success(cb) \in Breaker
           /\ cb.state = "HALF_OPEN" =>
                 /\ record_success(cb).state \in {"HALF_OPEN", "CLOSED"}
                 /\ record_success(cb).trial = FALSE
                 /\ record_success(cb).state = "CLOSED" => record_success(cb).failures = 0
           /\ cb.state # "HALF_OPEN" =>
                 /\ record_success(cb).state = cb.state
                 /\ record_success(cb).trial = cb.trial
                 /\ record_success(cb).elapsed = cb.elapsed
                 /\ record_success(cb).failures = 0
  <1>1. CASE cb.state = "HALF_OPEN" /\ cb.successes + 1 >= SuccessThreshold
    BY <1>1, BreakerAssumption DEF record_success, Close, Breaker, BreakerState
  <1>2. CASE cb.state = "HALF_OPEN" /\ ~(cb.successes + 1 >= SuccessThreshold)
    BY <1>2, BreakerAssumption DEF record_success, CountTrial, Breaker, BreakerState
  <1>3. CASE cb.state # "HALF_OPEN"
    BY <1>3, BreakerAssumption DEF record_success, Breaker, BreakerState
  <1> QED  BY <1>1, <1>2, <1>3, Zenon

\* record_failure() in HALF_OPEN empties the slot and opens the breaker with
\* a fresh cooldown; in CLOSED it counts and opens it at the threshold; in
\* OPEN it does nothing.
LEMMA FailureFacts ==
    ASSUME NEW cb \in Breaker, cb.state = "CLOSED" => cb.failures < FailureThreshold
    PROVE  /\ record_failure(cb) \in Breaker
           /\ cb.state = "HALF_OPEN" => /\ record_failure(cb).state = "OPEN"
                                        /\ record_failure(cb).trial = FALSE
                                        /\ record_failure(cb).elapsed = 0
           /\ cb.state = "CLOSED" =>
                 /\ record_failure(cb).trial = cb.trial
                 /\ \/ /\ record_failure(cb).state = "CLOSED"
                       /\ record_failure(cb).failures < FailureThreshold
                    \/ /\ record_failure(cb).state = "OPEN"
                       /\ record_failure(cb).elapsed = 0
           /\ cb.state = "OPEN" => record_failure(cb) = cb
  <1>1. CASE cb.state = "HALF_OPEN"
    BY <1>1, BreakerAssumption DEF record_failure, Reopen, Breaker, BreakerState
  <1>2. CASE cb.state = "CLOSED"
    BY <1>2, BreakerAssumption DEF record_failure, CountFailure, Breaker, BreakerState
  <1>3. CASE cb.state = "OPEN"
    BY <1>3 DEF record_failure
  <1> QED  BY <1>1, <1>2, <1>3, FieldTypes, Zenon DEF BreakerState

\* A tick brings an OPEN breaker one step closer to its cooldown, and leaves
\* any other breaker alone.
LEMMA ElapseFacts ==
    ASSUME NEW cb \in Breaker
    PROVE  /\ Elapse(cb) \in Breaker
           /\ Elapse(cb).state = cb.state
           /\ Elapse(cb).trial = cb.trial
           /\ Elapse(cb).failures = cb.failures
           /\ cb.state = "OPEN" /\ cb.elapsed < Cooldown =>
                 Elapse(cb).elapsed = cb.elapsed + 1
           /\ ~(cb.state = "OPEN" /\ cb.elapsed < Cooldown) => Elapse(cb) = cb
  BY BreakerAssumption DEF Elapse, Breaker, BreakerState

\* A new breaker is CLOSED with its slot free and its streak empty.
LEMMA NewFacts ==
    /\ NewBreaker \in Breaker
    /\ NewBreaker.state = "CLOSED" /\ NewBreaker.trial = FALSE
    /\ NewBreaker.failures < FailureThreshold
  BY BreakerAssumption DEF NewBreaker, Breaker, BreakerState

\* Whatever is recorded, the slot is empty afterwards.
LEMMA OutcomeFacts ==
    ASSUME NEW cb \in Breaker, cb.state = "CLOSED" => cb.failures < FailureThreshold,
           cb.trial => cb.state = "HALF_OPEN",
           NEW next, next = record_success(cb) \/ next = record_failure(cb)
    PROVE  /\ next \in Breaker
           /\ next.state = "CLOSED" => next.failures < FailureThreshold
           /\ ~next.trial
  <1>1. CASE next = record_success(cb)
    <2>1. next \in Breaker
      BY <1>1, SuccessFacts, Zenon
    <2>2. CASE cb.state = "HALF_OPEN"
      <3>1. next.trial = FALSE /\ (next.state = "CLOSED" => next.failures = 0)
        BY <1>1, <2>2, SuccessFacts, Zenon
      <3> QED  BY <2>1, <3>1, BreakerAssumption
    <2>3. CASE cb.state # "HALF_OPEN"
      <3>1. next.trial = cb.trial /\ next.failures = 0
        BY <1>1, <2>3, SuccessFacts, Zenon
      <3> QED  BY <2>1, <2>3, <3>1, BreakerAssumption
    <2> QED  BY <2>2, <2>3
  <1>2. CASE next = record_failure(cb)
    <2>1. next \in Breaker
      BY <1>2, FailureFacts, Zenon
    <2>2. CASE cb.state = "HALF_OPEN"
      <3>1. next.state = "OPEN" /\ next.trial = FALSE
        BY <1>2, <2>2, FailureFacts, Zenon
      <3> QED  BY <2>1, <3>1
    <2>3. CASE cb.state = "CLOSED"
      <3>1. /\ next.trial = cb.trial
            /\ next.state = "CLOSED" => next.failures < FailureThreshold
        BY <1>2, <2>3, FailureFacts, Zenon
      <3> QED  BY <2>1, <2>3, <3>1
    <2>4. CASE cb.state = "OPEN"
      <3>1. next = cb
        BY <1>2, <2>4, FailureFacts, Zenon
      <3> QED  BY <2>1, <2>4, <3>1
    <2> QED  BY <2>2, <2>3, <2>4, FieldTypes DEF BreakerState
  <1> QED  BY <1>1, <1>2

\* Whatever is recorded, an OPEN breaker stays OPEN with the cooldown it had,
\* and a breaker that opens starts a full one.
LEMMA OutcomeCooldown ==
    ASSUME NEW cb \in Breaker, cb.state = "CLOSED" => cb.failures < FailureThreshold,
           NEW next, next = record_success(cb) \/ next = record_failure(cb)
    PROVE  \/ cb.state = "OPEN" /\ next.state = "OPEN" /\ next.elapsed = cb.elapsed
           \/ cb.state # "OPEN" /\ next.state # "OPEN"
           \/ cb.state # "OPEN" /\ next.state = "OPEN" /\ next.elapsed = 0
  <1>1. CASE cb.state = "OPEN"
    <2>1. CASE next = record_success(cb)
      BY <1>1, <2>1, SuccessFacts, Zenon
    <2>2. CASE next = record_failure(cb)
      <3>1. record_failure(cb) = cb
        BY <1>1, FailureFacts, Zenon
      <3> QED  BY <1>1, <2>2, <3>1
    <2> QED  BY <2>1, <2>2
  <1>2. CASE cb.state = "HALF_OPEN"
    <2>1. CASE next = record_success(cb)
      BY <1>2, <2>1, SuccessFacts, Zenon
    <2>2. CASE next = record_failure(cb)
      <3>1. record_failure(cb).state = "OPEN" /\ record_failure(cb).elapsed = 0
        BY <1>2, FailureFacts, Zenon
      <3> QED  BY <1>2, <2>2, <3>1
    <2> QED  BY <2>1, <2>2
  <1>3. CASE cb.state = "CLOSED"
    <2>1. CASE next = record_success(cb)
      BY <1>3, <2>1, SuccessFacts, Zenon
    <2>2. CASE next = record_failure(cb)
      <3>1. \/ record_failure(cb).state = "CLOSED"
            \/ record_failure(cb).state = "OPEN" /\ record_failure(cb).elapsed = 0
        BY <1>3, FailureFacts, Zenon
      <3> QED  BY <1>3, <2>2, <3>1
    <2> QED  BY <2>1, <2>2
  <1> QED  BY <1>1, <1>2, <1>3, FieldTypes DEF BreakerState

-----------------------------------------------------------------------------
(* Least elements and induction. *)

\* A set of naturals has a least element, and Min() is it.
LEMMA MinIs ==
    ASSUME NEW P \in SUBSET Nat, P # {}
    PROVE  Min(P) \in P /\ \A q \in P : Min(P) <= q
  <1> DEFINE R == {ss \in Nat \X Nat : ss[1] < ss[2]}
  <1>0. IsWellFoundedOn(R, Nat)
    BY NatLessThanWellFounded, Zenon DEF OpToRel
  <1>1. \E x \in P : \A y \in P : ~(<<y, x>> \in R)
    <2> HIDE DEF R
    <2> QED  BY <1>0, WFMin, Zenon
  <1>2. \A x, y \in Nat : y < x => <<y, x>> \in R
    OBVIOUS
  <1> HIDE DEF R
  <1>3. \A x, y \in P : ~(<<y, x>> \in R) => x <= y
    BY <1>2
  <1>4. \E x \in P : \A y \in P : x <= y
    BY <1>1, <1>3, Zenon
  <1> QED  BY <1>4, Zenon DEF Min

\* Induction over the naturals, for a set of them.
LEMMA NatInduct ==
    ASSUME NEW G, 0 \in G, \A n \in Nat : n \in G => n + 1 \in G
    PROVE  Nat \subseteq G
  <1> DEFINE B == {n \in Nat : n \notin G}
  <1>1. SUFFICES ASSUME B # {} PROVE FALSE
    OBVIOUS
  <1>2. PICK m \in B : \A q \in B : m <= q
    <2>1. B \in SUBSET Nat
      OBVIOUS
    <2> HIDE DEF B
    <2> QED  BY <1>1, <2>1, MinIs, Zenon
  <1>3. m \in Nat /\ m \notin G /\ m # 0
    OBVIOUS
  <1>4. m - 1 \in Nat /\ m = (m - 1) + 1
    BY <1>3
  <1>5. m - 1 \notin G
    BY <1>3, <1>4
  <1>6. m <= m - 1
    BY <1>2, <1>4, <1>5
  <1> QED  BY <1>3, <1>6

-----------------------------------------------------------------------------
(* Lookups on the ring. *)

\* FirstAt() is the first point at or after h, or else the first of all.
LEMMA FirstAtIs ==
    ASSUME NEW P \in SUBSET Nat, P # {}, NEW h \in Nat
    PROVE  /\ FirstAt(P, h) \in P
           /\ \/ FirstAt(P, h) >= h /\ \A q \in P : q >= h => FirstAt(P, h) <= q
              \/ \A q \in P : q < h /\ FirstAt(P, h) <= q
  <1>1. CASE \E p \in P : p >= h
    <2> DEFINE A == {p \in P : p >= h}
    <2>1. A \in SUBSET Nat /\ A # {} /\ FirstAt(P, h) = Min(A)
      BY <1>1, Zenon DEF FirstAt
    <2>2. Min(A) \in A /\ \A q \in A : Min(A) <= q
      BY <2>1, MinIs, Zenon
    <2> QED  BY <2>1, <2>2, Zenon
  <1>2. CASE ~\E p \in P : p >= h
    <2>1. FirstAt(P, h) = Min(P) /\ \A q \in P : q < h
      BY <1>2 DEF FirstAt
    <2>2. Min(P) \in P /\ \A q \in P : Min(P) <= q
      BY MinIs
    <2> QED  BY <2>1, <2>2, Zenon
  <1> QED  BY <1>1, <1>2

\* A point that is found among more points is found among fewer, if it is there.
LEMMA FoundAmongFewer ==
    ASSUME NEW Q \in SUBSET Nat, NEW P \in SUBSET Q, NEW h \in Nat, FirstAt(Q, h) \in P
    PROVE  FirstAt(P, h) = FirstAt(Q, h)
  <1> DEFINE p == FirstAt(P, h)
             q == FirstAt(Q, h)
  <1>1. p \in P /\ (\/ p >= h /\ \A r \in P : r >= h => p <= r
                    \/ \A r \in P : r < h /\ p <= r)
    BY FirstAtIs, Zenon
  <1>2. q \in P /\ (\/ q >= h /\ \A r \in Q : r >= h => q <= r
                    \/ \A r \in Q : r < h /\ q <= r)
    BY FirstAtIs, Zenon
  <1> HIDE DEF p, q
  <1>3. p = q
    BY <1>1, <1>2
  <1> QED  BY <1>3 DEF p, q

\* A lookup that finds a backend finds one on the ring that is not excluded.
LEMMA LookupIs ==
    ASSUME NEW ring, DOMAIN ring \in SUBSET Nat, NEW h \in Nat, NEW excluded,
           get_backend_excluding(ring, h, excluded) # NoBackend
    PROVE  /\ get_backend_excluding(ring, h, excluded) \notin excluded
           /\ \E p \in DOMAIN ring : get_backend_excluding(ring, h, excluded) = ring[p]
  <1> DEFINE C == Candidates(ring, excluded)
  <1>1. C # {} /\ C \in SUBSET Nat
    BY Zenon DEF get_backend_excluding, Candidates
  <1>2. FirstAt(C, h) \in C
    BY <1>1, FirstAtIs, Zenon
  <1>3. FirstAt(C, h) \in DOMAIN ring /\ ring[FirstAt(C, h)] \notin excluded
    BY <1>2, Zenon DEF Candidates
  <1> QED  BY <1>1, <1>3, Zenon DEF get_backend_excluding

-----------------------------------------------------------------------------
(* Sums. *)

\* The partial sums SumFunction() goes through.
Pick(s) == CHOOSE x \in s : TRUE

Sums(f, D) == CHOOSE g : g = [s \in SUBSET D |->
    IF s = {} THEN 0 ELSE f[Pick(s)] + g[s \ {Pick(s)}]]

LEMMA SumIs == ASSUME NEW f PROVE SumFunction(f) = Sums(f, DOMAIN f)[DOMAIN f]
  BY Zenon DEF SumFunction, SumFunctionOnSet, FoldFunctionOnSet, MapThenFoldSet, Sums, Pick

LEMMA PickIn == ASSUME NEW s, s # {} PROVE Pick(s) \in s
  BY DEF Pick

\* The recursion of SumFunction() is well founded.
LEMMA SumsDef ==
    ASSUME NEW D, IsFiniteSet(D), NEW f \in [D -> Int]
    PROVE  /\ \A s \in SUBSET D : Sums(f, D)[s] \in Int
           /\ Sums(f, D)[{}] = 0
           /\ \A s \in SUBSET D :
                 s # {} => Sums(f, D)[s] = f[Pick(s)] + Sums(f, D)[s \ {Pick(s)}]
  <1> DEFINE Small(n) == {s \in SUBSET D : Cardinality(s) <= n}
             Def(g, s) == IF s = {} THEN 0 ELSE f[Pick(s)] + g[s \ {Pick(s)}]
             G == {n \in Nat : \E g \in [Small(n) -> Int] : \A s \in Small(n) : g[s] = Def(g, s)}
  <1>1. \A s \in SUBSET D : IsFiniteSet(s) /\ Cardinality(s) \in Nat /\ (Cardinality(s) = 0 <=> s = {})
    BY FS_Subset, FS_CardinalityType, FS_EmptySet, Zenon
  <1>2. ASSUME NEW s \in SUBSET D, s # {}
        PROVE  /\ Pick(s) \in D /\ s \ {Pick(s)} \in SUBSET D
               /\ Cardinality(s \ {Pick(s)}) = Cardinality(s) - 1
    BY <1>1, <1>2, PickIn, FS_RemoveElement, Zenon
  <1>3. 0 \in G
    <2>1. \A s \in Small(0) : s = {}
      BY <1>1
    <2> DEFINE z == [s \in Small(0) |-> 0]
    <2>2. z \in [Small(0) -> Int] /\ \A s \in Small(0) : z[s] = Def(z, s)
      BY <2>1
    <2> QED  BY <2>2, Zenon
  <1>4. ASSUME NEW n \in Nat, n \in G PROVE n + 1 \in G
    <2>1. PICK g \in [Small(n) -> Int] : \A s \in Small(n) : g[s] = Def(g, s)
      BY <1>4, Zenon
    <2> DEFINE k == [s \in Small(n + 1) |-> IF s \in Small(n) THEN g[s] ELSE Def(g, s)]
    <2>2. ASSUME NEW s \in Small(n + 1), s # {}
          PROVE  s \ {Pick(s)} \in Small(n) /\ s \ {Pick(s)} \in Small(n + 1) /\ f[Pick(s)] \in Int
      BY <1>1, <1>2, <2>2
    <2>3. ASSUME NEW s \in Small(n + 1) PROVE k[s] \in Int /\ k[s] = Def(k, s)
      <3>1. CASE s = {}
        <4>1. s \in Small(n)
          BY <1>1, <3>1
        <4> QED  BY <2>1, <3>1, <4>1
      <3>2. CASE s # {}
        <4>1. k[s \ {Pick(s)}] = g[s \ {Pick(s)}] /\ g[s \ {Pick(s)}] \in Int
          BY <2>1, <2>2, <3>2
        <4>2. k[s] = Def(g, s)
          BY <2>1
        <4> QED  BY <2>2, <3>2, <4>1, <4>2
      <3> QED  BY <3>1, <3>2
    <2>4. k \in [Small(n + 1) -> Int]
      BY <2>3, Zenon
    <2>5. \A s \in Small(n + 1) : k[s] = Def(k, s)
      BY <2>3, Zenon
    <2> HIDE DEF k, Small, Def
    <2> QED  BY <2>4, <2>5
  <1>5. Nat \subseteq G
    <2> HIDE DEF G
    <2> QED  BY <1>3, <1>4, NatInduct
  <1>6. Cardinality(D) \in Nat /\ Small(Cardinality(D)) = SUBSET D
    BY <1>1, FS_Subset
  <1>7. PICK g \in [SUBSET D -> Int] : \A s \in SUBSET D : g[s] = Def(g, s)
    <2>1. Cardinality(D) \in G
      BY <1>5, <1>6, Zenon
    <2> HIDE DEF Small, Def
    <2> QED  BY <1>6, <2>1, Zenon
  <1>8. g = [s \in SUBSET D |-> Def(g, s)]
    BY <1>7
  <1>9. Sums(f, D) = [s \in SUBSET D |-> Def(Sums(f, D), s)]
    BY <1>8, Zenon DEF Sums
  <1>10. \A s \in SUBSET D : Sums(f, D)[s] = Def(Sums(f, D), s)
    BY <1>9, Zenon
  <1> DEFINE S == Sums(f, D)
             H == {n \in Nat : \A s \in Small(n) : S[s] \in Int}
  <1> HIDE DEF S
  <1>11. S[{}] = 0 /\ \A s \in SUBSET D : s # {} => S[s] = f[Pick(s)] + S[s \ {Pick(s)}]
    BY <1>10, Zenon DEF S
  <1> HIDE DEF Def
  <1>12. 0 \in H
    <2>1. \A s \in Small(0) : s = {}
      BY <1>1
    <2> QED  BY <1>11, <2>1
  <1>13. ASSUME NEW n \in Nat, n \in H PROVE n + 1 \in H
    <2>1. ASSUME NEW s \in Small(n + 1), s # {} PROVE S[s] \in Int
      <3>1. s \ {Pick(s)} \in Small(n) /\ f[Pick(s)] \in Int
        BY <1>1, <1>2, <2>1
      <3>2. S[s \ {Pick(s)}] \in Int
        BY <1>13, <3>1
      <3>3. S[s] = f[Pick(s)] + S[s \ {Pick(s)}]
        BY <1>11, <2>1
      <3> QED  BY <3>1, <3>2, <3>3
    <2>2. S[{}] \in Int
      BY <1>11
    <2>3. \A s \in Small(n + 1) : S[s] \in Int
      BY <2>1, <2>2, Zenon
    <2> QED  BY <2>3
  <1>14. Nat \subseteq H
    <2> HIDE DEF H
    <2> QED  BY <1>12, <1>13, NatInduct
  <1>15. \A s \in SUBSET D : S[s] \in Int
    BY <1>6, <1>14
  <1> QED  BY <1>11, <1>15, Zenon DEF S

\* A sum counts the steps of its terms: one more in one of them is one more.
LEMMA SumCounts ==
    ASSUME NEW D, IsFiniteSet(D), NEW f \in [D -> Int], NEW b \in D,
           NEW e \in [D -> Int], e[b] = f[b] + 1, \A x \in D \ {b} : e[x] = f[x]
    PROVE  SumFunction(f) \in Int /\ SumFunction(e) = SumFunction(f) + 1
  <1> DEFINE S == Sums(f, D)
             T == Sums(e, D)
             Small(n) == {s \in SUBSET D : Cardinality(s) <= n}
             W(s) == IF b \in s THEN 1 ELSE 0
             G == {n \in Nat : \A s \in Small(n) : T[s] = S[s] + W(s)}
  <1>1. \A s \in SUBSET D : IsFiniteSet(s) /\ Cardinality(s) \in Nat /\ (Cardinality(s) = 0 <=> s = {})
    BY FS_Subset, FS_CardinalityType, FS_EmptySet, Zenon
  <1>2. ASSUME NEW s \in SUBSET D, s # {}
        PROVE  /\ Pick(s) \in D /\ Pick(s) \in s /\ s \ {Pick(s)} \in SUBSET D
               /\ Cardinality(s \ {Pick(s)}) = Cardinality(s) - 1
    BY <1>1, <1>2, PickIn, FS_RemoveElement, Zenon
  <1>4. /\ S[{}] = 0 /\ T[{}] = 0
        /\ \A s \in SUBSET D : S[s] \in Int /\ T[s] \in Int
        /\ \A s \in SUBSET D : s # {} => /\ S[s] = f[Pick(s)] + S[s \ {Pick(s)}]
                                         /\ T[s] = e[Pick(s)] + T[s \ {Pick(s)}]
    BY SumsDef, Zenon
  <1> HIDE DEF S, T
  <1>5. 0 \in G
    <2>1. \A s \in Small(0) : s = {}
      BY <1>1
    <2>2. T[{}] = S[{}] + W({})
      BY <1>4
    <2>3. \A s \in Small(0) : T[s] = S[s] + W(s)
      BY <2>1, <2>2, Zenon
    <2> QED  BY <2>3
  <1>6. ASSUME NEW n \in Nat, n \in G PROVE n + 1 \in G
    <2>1. ASSUME NEW s \in Small(n + 1), s # {} PROVE T[s] = S[s] + W(s)
      <3> DEFINE p == Pick(s)
                 r == s \ {p}
      <3>1. r \in Small(n) /\ r \in SUBSET D /\ p \in D /\ p \in s
        BY <1>1, <1>2, <2>1
      <3>2. T[r] = S[r] + W(r) /\ T[r] \in Int /\ S[r] \in Int /\ f[p] \in Int
        BY <1>4, <1>6, <3>1
      <3>3. T[s] = e[p] + T[r] /\ S[s] = f[p] + S[r]
        BY <1>4, <2>1
      <3>4. e[p] = f[p] + (IF p = b THEN 1 ELSE 0)
        BY <3>1
      <3>5. W(s) = W(r) + (IF p = b THEN 1 ELSE 0)
        BY <3>1
      <3>6. W(r) \in Int
        OBVIOUS
      <3> HIDE DEF W, p, r
      <3> QED  BY <3>2, <3>3, <3>4, <3>5, <3>6
    <2>2. \A s \in SUBSET D : s = {} => T[s] = S[s] + W(s)
      BY <1>4
    <2>3. \A s \in Small(n + 1) : T[s] = S[s] + W(s)
      BY <2>1, <2>2
    <2> QED  BY <2>3
  <1>7. Nat \subseteq G
    <2> HIDE DEF G
    <2> QED  BY <1>5, <1>6, NatInduct
  <1>8. Cardinality(D) \in Nat /\ Small(Cardinality(D)) = SUBSET D
    BY <1>1, FS_Subset
  <1>9. T[D] = S[D] + 1 /\ S[D] \in Int
    BY <1>4, <1>7, <1>8
  <1>10. DOMAIN e = D /\ DOMAIN f = D
    OBVIOUS
  <1>11. SumFunction(e) = T[D] /\ SumFunction(f) = S[D]
    BY <1>10, SumIs, Zenon DEF S, T
  <1> QED  BY <1>9, <1>11

LEMMA SumZero ==
    ASSUME NEW D, IsFiniteSet(D)
    PROVE  SumFunction([x \in D |-> 0]) = 0
  <1> DEFINE f == [x \in D |-> 0]
             S == Sums(f, D)
             Small(n) == {s \in SUBSET D : Cardinality(s) <= n}
             G == {n \in Nat : \A s \in Small(n) : S[s] = 0}
  <1>1. \A s \in SUBSET D : IsFiniteSet(s) /\ Cardinality(s) \in Nat /\ (Cardinality(s) = 0 <=> s = {})
    BY FS_Subset, FS_CardinalityType, FS_EmptySet, Zenon
  <1>2. ASSUME NEW s \in SUBSET D, s # {}
        PROVE  /\ Pick(s) \in D /\ s \ {Pick(s)} \in SUBSET D
               /\ Cardinality(s \ {Pick(s)}) = Cardinality(s) - 1
    BY <1>1, <1>2, PickIn, FS_RemoveElement, Zenon
  <1>3. f \in [D -> Int] /\ \A x \in D : f[x] = 0
    OBVIOUS
  <1> HIDE DEF f
  <1>4. S[{}] = 0 /\ \A s \in SUBSET D : s # {} => S[s] = f[Pick(s)] + S[s \ {Pick(s)}]
    BY <1>3, SumsDef, Zenon
  <1> HIDE DEF S
  <1>5. 0 \in G
    <2>1. \A s \in Small(0) : s = {}
      BY <1>1
    <2> QED  BY <1>4, <2>1
  <1>6. ASSUME NEW n \in Nat, n \in G PROVE n + 1 \in G
    <2>1. ASSUME NEW s \in Small(n + 1), s # {} PROVE S[s] = 0
      <3>1. s \ {Pick(s)} \in Small(n) /\ f[Pick(s)] = 0
        BY <1>1, <1>2, <1>3, <2>1
      <3>2. S[s \ {Pick(s)}] = 0
        BY <1>6, <3>1
      <3>3. S[s] = f[Pick(s)] + S[s \ {Pick(s)}]
        BY <1>4, <2>1, Zenon
      <3> QED  BY <3>1, <3>2, <3>3
    <2>2. \A s \in Small(n + 1) : S[s] = 0
      BY <1>4, <2>1, Zenon
    <2> QED  BY <2>2
  <1>7. Nat \subseteq G
    <2> HIDE DEF G
    <2> QED  BY <1>5, <1>6, NatInduct
  <1>8. Cardinality(D) \in Nat /\ Small(Cardinality(D)) = SUBSET D
    BY <1>1, FS_Subset
  <1>9. S[D] = 0
    BY <1>7, <1>8
  <1>10. SumFunction(f) = S[D]
    BY <1>3, SumIs, Zenon DEF S
  <1> QED  BY <1>9, <1>10 DEF f
=============================================================================
