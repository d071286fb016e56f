-------------------------- MODULE RateLimiterProofs -------------------------
(***************************************************************************)
(* For any clients, shards, capacity, rate and clock, the limiter's        *)
(* answers are those of one never reaped token bucket per client.          *)
(***************************************************************************)
EXTENDS RateLimiter, TLAPS

\* What the buckets and the clocks satisfy, with the types of TypeOK that the
\* proofs below use.  reapNow is never ahead of the clock: that is why a
\* bucket that looks idle to reap_idle() is.
Inv ==
    /\ now \in Int /\ reapNow \in Int /\ reapNow <= now
    /\ DOMAIN buckets \subseteq Clients
    /\ \A c \in DOMAIN buckets :
          /\ buckets[c].tokens \in Int /\ 0 <= buckets[c].tokens
          /\ buckets[c].tokens <= Capacity
          /\ buckets[c].last \in Int /\ buckets[c].last <= now
    /\ answer \in [Clients -> {"none", "allowed", "limited"}]

-----------------------------------------------------------------------------
(* Arithmetic of the lazy refill. *)

\* A refill is never negative.
LEMMA Product == ASSUME NEW a \in Nat, NEW b \in Nat PROVE a * b \in Nat
  BY SMT

\* Filling for one more tick is filling, and then for a tick.
LEMMA OneMoreTick ==
    ASSUME NEW t \in Int, NEW l \in Int, NEW n \in Int,
           Capacity \in Nat, Rate \in Nat
    PROVE  Least(Capacity, t + ((n + 1) - l) * Rate)
             = Least(Capacity, Least(Capacity, t + (n - l) * Rate) + Rate)
  <1> DEFINE p == (n - l) * Rate
  <1>1. ((n + 1) - l) * Rate = p + Rate
    BY SMT
  <1>2. p \in Int
    BY SMT
  <1> HIDE DEF p
  <1>3. Least(Capacity, t + (p + Rate)) = Least(Capacity, Least(Capacity, t + p) + Rate)
    BY <1>2 DEF Least
  <1> QED BY <1>1, <1>3 DEF p

\* After more than the idle threshold every bucket is full.
LEMMA IdleIsFull ==
    ASSUME NEW t \in Nat, NEW d \in Int, d > IdleThreshold, LimiterAssumption
    PROVE  Least(Capacity, t + d * Rate) = Capacity
  <1>1. Capacity \in Nat /\ Rate \in Nat /\ IdleThreshold \in Nat
    BY DEF LimiterAssumption
  <1> DEFINE e == d - IdleThreshold
  <1>2. e \in Nat
    BY <1>1
  <1>3. d * Rate = IdleThreshold * Rate + e * Rate
    BY <1>1, SMT
  <1>4. e * Rate \in Nat
    BY <1>1, <1>2, Product
  <1>5. IdleThreshold * Rate >= Capacity /\ IdleThreshold * Rate \in Int
    BY <1>1, SMT DEF LimiterAssumption
  <1>6. d * Rate >= Capacity /\ d * Rate \in Int
    <2> DEFINE x == IdleThreshold * Rate
               y == e * Rate
               z == d * Rate
    <2>1. z = x + y /\ y \in Nat /\ x >= Capacity /\ x \in Int
      BY <1>3, <1>4, <1>5
    <2> HIDE DEF x, y, z
    <2>2. z >= Capacity /\ z \in Int
      BY <1>1, <2>1
    <2> QED BY <2>2 DEF z
  <1> DEFINE z == d * Rate
  <1>7. z >= Capacity /\ z \in Int
    BY <1>6
  <1> HIDE DEF z
  <1>8. Least(Capacity, t + z) = Capacity
    BY <1>1, <1>7 DEF Least
  <1> QED BY <1>8 DEF z

\* What a client finds in its bucket is between nothing and the capacity.
LEMMA AvailableType ==
    ASSUME Inv, LimiterAssumption, NEW c \in Clients
    PROVE  Available(c) \in Int /\ 0 <= Available(c) /\ Available(c) <= Capacity
  <1>1. Capacity \in Nat /\ Rate \in Nat
    BY DEF LimiterAssumption
  <1>2. CASE c \notin DOMAIN buckets
    BY <1>1, <1>2 DEF Available
  <1>3. CASE c \in DOMAIN buckets
    <2> DEFINE p == (now - buckets[c].last) * Rate
    <2>1. now - buckets[c].last \in Nat
      BY <1>3 DEF Inv
    <2>2. p \in Nat
      BY <1>1, <2>1, Product
    <2>3. Available(c) = Least(Capacity, buckets[c].tokens + p)
      BY <1>3 DEF Available, Refilled
    <2>4. buckets[c].tokens \in Int /\ 0 <= buckets[c].tokens
      BY <1>3 DEF Inv
    <2> HIDE DEF p
    <2> QED BY <1>1, <2>2, <2>3, <2>4 DEF Least
  <1> QED BY <1>2, <1>3

LEMMA LevelType ==
    Inv => \A c \in Clients : Available(c) \in Int /\ 0 <= Available(c) /\ Available(c) <= Capacity
  BY AvailableType, LimiterAssumption

-----------------------------------------------------------------------------
(* The invariant. *)

\* No bucket exists when the proxy starts.
LEMMA InitInv == Init => Inv
  <1> SUFFICES ASSUME Init PROVE Inv
    OBVIOUS
  <1>1. DOMAIN buckets = {}
    BY DEF Init
  <1> QED BY <1>1 DEF Init, Inv

\* allow() leaves a bucket within bounds that was touched just now.
LEMMA AllowInv ==
    ASSUME Inv, NEW c \in Clients, allow(c)
    PROVE  Inv'
  <1>1. Available(c) \in Int /\ 0 <= Available(c) /\ Available(c) <= Capacity
    BY AvailableType, LimiterAssumption
  <1>2. Capacity \in Int /\ Unit \in Int /\ Unit > 0
    BY LimiterAssumption DEF LimiterAssumption
  <1> DEFINE left == IF Available(c) >= Unit THEN Available(c) - Unit ELSE Available(c)
  <1>3. left \in Int /\ 0 <= left /\ left <= Capacity
    BY <1>1, <1>2
  <1>4. /\ buckets' = [d \in DOMAIN buckets \cup {c} |->
                         IF d = c THEN [tokens |-> left, last |-> now] ELSE buckets[d]]
        /\ now' = now /\ reapNow' = reapNow
        /\ answer' \in [Clients -> {"none", "allowed", "limited"}]
    BY DEF allow, Inv
  <1> HIDE DEF left
  <1>5. \A d \in DOMAIN buckets' :
           IF d = c THEN buckets'[d] = [tokens |-> left, last |-> now]
                    ELSE d \in DOMAIN buckets /\ buckets'[d] = buckets[d]
    BY <1>4
  <1>6. DOMAIN buckets' \subseteq Clients
    BY <1>4 DEF Inv
  <1> QED BY <1>3, <1>4, <1>5, <1>6 DEF Inv

\* The other steps add no bucket and change none.
LEMMA NextInv == Inv /\ [Next]_vars => Inv'
  <1> SUFFICES ASSUME Inv, [Next]_vars PROVE Inv'
    OBVIOUS
  <1>1. CASE \E c \in Clients : allow(c)
    BY <1>1, AllowInv
  <1>2. CASE Tick
    BY <1>2 DEF Tick, Inv
  <1>3. CASE ReapStart
    BY <1>3 DEF ReapStart, Inv
  <1>4. CASE ReapShard
    <2>1. /\ DOMAIN buckets' \subseteq DOMAIN buckets
          /\ \A c \in DOMAIN buckets' : buckets'[c] = buckets[c]
      BY <1>4 DEF ReapShard, Restrict
    <2> QED BY <1>4, <2>1 DEF ReapShard, Inv
  <1>5. CASE UNCHANGED vars
    BY <1>5 DEF vars, Inv
  <1> QED BY <1>1, <1>2, <1>3, <1>4, <1>5 DEF Next

\* The clocks and the buckets stay consistent however allow(), reap_idle()
\* and time interleave.
THEOREM BucketsConsistent == Spec => []Inv
  BY InitInv, NextInv, PTL DEF Spec

-----------------------------------------------------------------------------
(* The refinement. *)

\* A request takes a token, if there is one, and no other client's.
LEMMA AllowLevel ==
    \A c \in Clients : Inv /\ allow(c) =>
        /\ Available(c)' = IF Available(c) >= Unit THEN Available(c) - Unit ELSE Available(c)
        /\ \A d \in Clients \ {c} : Available(d)' = Available(d)
  <1> SUFFICES ASSUME NEW c \in Clients, Inv, allow(c)
               PROVE  /\ Available(c)' = IF Available(c) >= Unit THEN Available(c) - Unit
                                                                 ELSE Available(c)
                      /\ \A d \in Clients \ {c} : Available(d)' = Available(d)
    OBVIOUS
  <1> DEFINE left == IF Available(c) >= Unit THEN Available(c) - Unit ELSE Available(c)
  <1>0. Available(c) \in Int /\ Available(c) <= Capacity
    BY AvailableType, LimiterAssumption
  <1>1. Capacity \in Int /\ Unit \in Int /\ Unit > 0 /\ Rate \in Int /\ now \in Int
    BY LimiterAssumption DEF LimiterAssumption, Inv
  <1>2. left \in Int /\ left <= Capacity
    BY <1>0, <1>1
  <1>3. buckets' = [d \in DOMAIN buckets \cup {c} |->
                      IF d = c THEN [tokens |-> left, last |-> now] ELSE buckets[d]]
        /\ now' = now
    BY DEF allow
  <1>4. Available(c)' = left
    <2>1. c \in DOMAIN buckets' /\ buckets'[c] = [tokens |-> left, last |-> now]
      BY <1>3
    <2> HIDE DEF left
    <2>2. Available(c)' = Least(Capacity, left + (now - now) * Rate)
      BY <1>3, <2>1 DEF Available, Refilled, Least
    <2>3. (now - now) * Rate = 0
      BY <1>1, SMT
    <2> QED BY <1>1, <1>2, <2>2, <2>3 DEF Least
  <1>5. \A d \in Clients \ {c} : Available(d)' = Available(d)
    BY <1>3 DEF Available, Refilled, Least
  <1> QED BY <1>4, <1>5

\* So it is the abstract request.
LEMMA AllowRefines ==
    ASSUME Inv, NEW c \in Clients, allow(c)
    PROVE  TB!Request(c)
  <1> DEFINE left == IF Available(c) >= Unit THEN Available(c) - Unit ELSE Available(c)
             lv == [d \in Clients |-> Available(d)]
  <1>1. Available(c) \in Int /\ Unit \in Int
    BY AvailableType, LimiterAssumption DEF LimiterAssumption
  <1>2. lv' = [lv EXCEPT ![c] = left] /\ lv[c] = Available(c)
    BY AllowLevel
  <1>3. CASE Available(c) >= Unit
    BY <1>2, <1>3 DEF TB!Request, allow
  <1>4. CASE ~(Available(c) >= Unit)
    <2>1. lv[c] < Unit
      BY <1>1, <1>2, <1>4
    <2>2. lv' = lv
      BY <1>2, <1>4
    <2> QED BY <1>4, <2>1, <2>2 DEF TB!Request, allow
  <1> QED BY <1>3, <1>4

\* A tick fills every bucket, those that do not exist being full.
LEMMA TickLevel ==
    Inv /\ Tick => \A c \in Clients : Available(c)' = Least(Capacity, Available(c) + Rate)
  <1> SUFFICES ASSUME Inv, Tick, NEW c \in Clients
               PROVE  Available(c)' = Least(Capacity, Available(c) + Rate)
    OBVIOUS
  <1>1. Capacity \in Nat /\ Rate \in Nat
    BY LimiterAssumption DEF LimiterAssumption
  <1>2. CASE c \in DOMAIN buckets
    <2> DEFINE t == buckets[c].tokens
               l == buckets[c].last
    <2>1. t \in Int /\ l \in Int /\ now \in Int
      BY <1>2 DEF Inv
    <2>2. /\ Available(c)' = Least(Capacity, t + ((now + 1) - l) * Rate)
          /\ Available(c) = Least(Capacity, t + (now - l) * Rate)
      BY <1>2 DEF Tick, Available, Refilled, Least
    <2> HIDE DEF t, l
    <2>3. Least(Capacity, t + ((now + 1) - l) * Rate)
            = Least(Capacity, Least(Capacity, t + (now - l) * Rate) + Rate)
      BY <1>1, <2>1, OneMoreTick, Zenon
    <2> QED BY <2>2, <2>3, Zenon
  <1>3. CASE c \notin DOMAIN buckets
    BY <1>1, <1>3 DEF Tick, Available, Least
  <1> QED BY <1>2, <1>3

\* A pass over a shard cannot be seen: what it drops was full.
LEMMA ReapLevel ==
    Inv /\ ReapShard => \A c \in Clients : Available(c)' = Available(c)
  <1> SUFFICES ASSUME Inv, ReapShard, NEW c \in Clients
               PROVE  Available(c)' = Available(c)
    OBVIOUS
  <1>1. now' = now
    BY DEF ReapShard
  <1>2. CASE c \in DOMAIN buckets /\ c \notin DOMAIN buckets'
    <2>1. Idle(c)
      BY <1>2 DEF ReapShard, Restrict
    <2>2. now - buckets[c].last > IdleThreshold /\ now - buckets[c].last \in Int
          /\ buckets[c].tokens \in Nat
      BY <1>2, <2>1, LimiterAssumption DEF Idle, Inv, LimiterAssumption
    <2>3. Available(c) = Least(Capacity, buckets[c].tokens
                                         + (now - buckets[c].last) * Rate)
      BY <1>2 DEF Available, Refilled
    <2>4. Available(c) = Capacity
      BY <2>2, <2>3, IdleIsFull, LimiterAssumption
    <2> QED BY <1>2, <2>4 DEF Available
  <1>3. CASE c \in DOMAIN buckets'
    <2>1. c \in DOMAIN buckets /\ buckets'[c] = buckets[c]
      BY <1>3 DEF ReapShard, Restrict
    <2> QED BY <1>1, <1>3, <2>1 DEF Available, Refilled, Least
  <1>4. CASE c \notin DOMAIN buckets
    <2>1. c \notin DOMAIN buckets'
      BY <1>4 DEF ReapShard, Restrict
    <2> QED BY <1>4, <2>1 DEF Available
  <1> QED BY <1>2, <1>3, <1>4

\* The limiter's answers are those of one never reaped bucket per client
\* (rate_limiter.cpp:36-72), for every rate and burst that refill a bucket
\* within the idle threshold.
THEOREM LimiterRefined == Spec => ImplementsTokenBucket
  <1>1. Init => TB!TInit
    <2> SUFFICES ASSUME Init PROVE TB!TInit
      OBVIOUS
    <2>1. DOMAIN buckets = {}
      BY DEF Init
    <2> QED BY <2>1 DEF Init, TB!TInit, Available
  <1>2. Inv /\ [Next]_vars => [TB!TNext]_(TB!tvars)
    <2> SUFFICES ASSUME Inv, [Next]_vars PROVE [TB!TNext]_(TB!tvars)
      OBVIOUS
    <2>1. CASE \E c \in Clients : allow(c)
      BY <2>1, AllowRefines DEF TB!TNext
    <2>2. CASE Tick
      BY <2>2, TickLevel DEF TB!TNext, TB!Refill, TB!Least, Least, Tick
    <2>3. CASE ReapStart
      BY <2>3 DEF ReapStart, TB!tvars, Available, Refilled, Least
    <2>4. CASE ReapShard
      BY <2>4, ReapLevel DEF TB!tvars, ReapShard
    <2>5. CASE UNCHANGED vars
      BY <2>5 DEF vars, TB!tvars, Available, Refilled, Least
    <2> QED BY <2>1, <2>2, <2>3, <2>4, <2>5 DEF Next
  <1> QED BY <1>1, <1>2, BucketsConsistent, PTL DEF Spec, ImplementsTokenBucket, TB!TSpec

-----------------------------------------------------------------------------
(***************************************************************************)
(* Reaping.  Where a pass of reap_idle() has been there is no idle bucket, *)
(* and none comes back: what allow() adds or touches meanwhile is younger  *)
(* than the pass.                                                          *)
(***************************************************************************)
Reaped ==
    /\ reaping \in 0..Shards
    /\ \A c \in DOMAIN buckets : ShardOf[c] < reaping => ~Idle(c)

LEMMA ShardTypes == /\ Shards \in Nat \ {0} /\ IdleThreshold \in Nat
                    /\ \A c \in Clients : ShardOf[c] \in 1..Shards
  BY LimiterAssumption DEF LimiterAssumption

\* One more shard is done.
LEMMA ShardReaped ==
    ASSUME Inv, Reaped, ReapShard
    PROVE  \A c \in DOMAIN buckets' :
              /\ c \in DOMAIN buckets /\ buckets'[c] = buckets[c]
              /\ ShardOf[c] <= reaping => ~Idle(c) /\ ~Idle(c)'
  <1> SUFFICES ASSUME NEW c \in DOMAIN buckets'
               PROVE  /\ c \in DOMAIN buckets /\ buckets'[c] = buckets[c]
                      /\ ShardOf[c] <= reaping => ~Idle(c) /\ ~Idle(c)'
    OBVIOUS
  <1>1. /\ c \in DOMAIN buckets /\ buckets'[c] = buckets[c] /\ reapNow' = reapNow
        /\ ~(ShardOf[c] = reaping /\ Idle(c))
    BY DEF ReapShard, Restrict
  <1>2. ShardOf[c] \in Int /\ reaping \in Int
    BY <1>1, ShardTypes DEF Inv, Reaped
  <1>3. ShardOf[c] <= reaping => ~Idle(c)
    BY <1>1, <1>2 DEF Reaped
  <1>4. Idle(c)' <=> Idle(c)
    BY <1>1 DEF Idle
  <1> QED  BY <1>1, <1>3, <1>4

LEMMA NextReaped == Inv /\ Reaped /\ [Next]_vars => Reaped'
  <1> SUFFICES ASSUME Inv, Reaped, [Next]_vars PROVE Reaped'
    OBVIOUS
  <1>1. ASSUME NEW c \in Clients, allow(c) PROVE Reaped'
    <2>1. /\ now' = now /\ reaping' = reaping /\ reapNow' = reapNow
          /\ \A d \in DOMAIN buckets' : \/ d \in DOMAIN buckets /\ buckets'[d] = buckets[d]
                                        \/ buckets'[d].last = now
      BY <1>1 DEF allow
    <2>2. ASSUME NEW d \in DOMAIN buckets', buckets'[d].last = now PROVE ~Idle(d)'
      BY <2>1, <2>2, ShardTypes DEF Idle, Inv
    <2>3. ASSUME NEW d \in DOMAIN buckets, d \in DOMAIN buckets', buckets'[d] = buckets[d],
                 ShardOf[d] < reaping'
          PROVE  ~Idle(d)'
      BY <2>1, <2>3 DEF Reaped, Idle
    <2> QED  BY <2>1, <2>2, <2>3 DEF Reaped
  <1>2. CASE Tick
    BY <1>2 DEF Tick, Reaped, Idle
  <1>3. CASE ReapStart
    <2>1. \A c \in DOMAIN buckets : ~(ShardOf[c] < 1)
      BY ShardTypes DEF Inv
    <2> QED  BY <1>3, <2>1, ShardTypes DEF ReapStart, Reaped
  <1>4. CASE ReapShard
    <2>1. reaping' \in 0..Shards /\ reaping \in Int
      BY <1>4, ShardTypes DEF ReapShard, Reaped
    <2>2. ASSUME NEW c \in DOMAIN buckets', ShardOf[c] < reaping' PROVE ~Idle(c)'
      <3>1. c \in Clients /\ ShardOf[c] \in 1..Shards
        BY <1>4, <2>2, ShardReaped, ShardTypes DEF Inv
      <3>2. ShardOf[c] <= reaping
        BY <1>4, <2>1, <2>2, <3>1 DEF ReapShard
      <3> QED  BY <1>4, <2>2, <3>2, ShardReaped
    <2> QED  BY <2>1, <2>2 DEF Reaped
  <1>5. CASE UNCHANGED vars
    BY <1>5 DEF vars, Reaped, Idle
  <1> QED  BY <1>1, <1>2, <1>3, <1>4, <1>5 DEF Next

\* A pass of reap_idle() (rate_limiter.cpp:57-72) that has locked every shard
\* in turn leaves no bucket that was idle when it began, whatever clients did
\* between two locks: for any shards, any clients and any threshold.
THEOREM PassReapsAll == Spec => ReapComplete
  <1>1. Init => Reaped
    BY ShardTypes DEF Init, Reaped
  <1>2. Inv /\ Reaped /\ [Next]_vars
          => [reaping = Shards /\ reaping' = 0 =>
                \A c \in DOMAIN buckets' : reapNow - buckets'[c].last <= IdleThreshold]_vars
    <2> SUFFICES ASSUME Inv, Reaped, Next, reaping = Shards, reaping' = 0,
                        NEW c \in DOMAIN buckets'
                 PROVE  reapNow - buckets'[c].last <= IdleThreshold
      BY DEF vars
    <2>1. ReapShard
      BY ShardTypes DEF Next, allow, Tick, ReapStart
    <2>2. c \in DOMAIN buckets /\ buckets'[c] = buckets[c] /\ (ShardOf[c] <= reaping => ~Idle(c))
      BY <2>1, ShardReaped
    <2>3. ShardOf[c] <= reaping /\ buckets[c].last \in Int /\ reapNow \in Int
      BY <2>2, ShardTypes DEF Inv
    <2> QED  BY <2>2, <2>3, ShardTypes DEF Idle
  <1> QED
    BY <1>1, <1>2, BucketsConsistent, NextReaped, PTL DEF Spec, ReapComplete

-----------------------------------------------------------------------------
(* Type correctness. *)
Clocks == /\ now \in 0..MaxTime /\ reapNow \in 0..now
          /\ \A c \in DOMAIN buckets : 0 <= buckets[c].last

LEMMA InitReaped == Init => Reaped /\ Clocks
  <1>1. MaxTime \in Nat
    BY LimiterAssumption DEF LimiterAssumption
  <1> QED  BY <1>1, ShardTypes DEF Init, Reaped, Clocks

LEMMA NextClocks == Inv /\ Clocks /\ [Next]_vars => Clocks'
  <1> SUFFICES ASSUME Inv, Clocks, [Next]_vars PROVE Clocks'
    OBVIOUS
  <1> USE DEF Clocks
  <1>0. MaxTime \in Nat
    BY LimiterAssumption DEF LimiterAssumption
  <1>1. ASSUME NEW c \in Clients, allow(c) PROVE Clocks'
    BY <1>0, <1>1 DEF allow
  <1>2. CASE ReapShard
    BY <1>2 DEF ReapShard, Restrict
  <1> QED  BY <1>0, <1>1, <1>2 DEF Next, Tick, ReapStart, vars

LEMMA TypesKept == Inv /\ Clocks /\ Reaped => TypeOK
  <1>1. MaxTime \in Nat /\ Capacity \in Nat
    BY LimiterAssumption DEF LimiterAssumption
  <1> QED  BY <1>1 DEF Inv, Clocks, Reaped, TypeOK

\* Tokens stay between nothing and the burst, and no bucket and no pass is
\* from the future (rate_limiter.cpp:36-72).
THEOREM LimiterTypes == Spec => []TypeOK
  BY InitInv, InitReaped, NextInv, NextReaped, NextClocks, TypesKept, PTL DEF Spec
=============================================================================
