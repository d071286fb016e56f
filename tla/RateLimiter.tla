---------------------------- MODULE RateLimiter -----------------------------
(***************************************************************************)
(* The sharded token-bucket limiter (rate_limiter.cpp).  allow() holds the *)
(* lock of the client's shard from reading the clock to its answer, so it  *)
(* is one step.  reap_idle() reads the clock once and then locks one shard *)
(* after the other: between two shards other threads may call allow() and  *)
(* time may pass.                                                          *)
(*                                                                         *)
(* Tokens are counted in parts, Unit parts to a token, so that the refill  *)
(* of one clock tick is a whole number (Rate); the rounding of the code's  *)
(* double arithmetic is not modelled.                                      *)
(***************************************************************************)
EXTENDS Integers, Functions

CONSTANTS Clients,
          Shards,          \* the number of shards
          ShardOf,         \* shard_index: Clients -> 1..Shards
          Capacity, Rate, Unit,
          IdleThreshold,   \* idle_threshold of reap_idle, in ticks
          MaxTime          \* bound: the clock stops there

\* A bucket that is reaped must have been full again: otherwise dropping it
\* would be a gift.  main() reaps after 300 s and refills 20 tokens at 10 per
\* second; the rate and the burst can be overridden, the threshold cannot.
ASSUME LimiterAssumption ==
    /\ Shards \in Nat \ {0} /\ ShardOf \in [Clients -> 1..Shards]
    /\ Capacity \in Nat /\ Rate \in Nat /\ Unit \in Nat \ {0}
    /\ IdleThreshold \in Nat /\ MaxTime \in Nat
    /\ Rate * IdleThreshold >= Capacity

VARIABLES
    now,             \* steady_clock::now()
    buckets,         \* the buckets of all shards: tokens and last_refill
    reaping,         \* the shard reap_idle is about to lock, 0: not running
    reapNow,         \* its local `now`
    answer           \* the last answer each client got

vars == <<now, buckets, reaping, reapNow, answer>>

Least(a, b) == IF a <= b THEN a ELSE b

\* Tokens of a bucket after the refill that is due at time t.
Refilled(bucket, t) == Least(Capacity, bucket.tokens + (t - bucket.last) * Rate)

Init ==
    /\ now = 0
    /\ buckets = <<>>
    /\ reaping = 0 /\ reapNow = 0
    /\ answer = [c \in Clients |-> "none"]

\* try_emplace(client, {capacity, now}), or the refill of the bucket it finds.
Available(c) == IF c \in DOMAIN buckets THEN Refilled(buckets[c], now) ELSE Capacity

\* Seeded fault: last_refill is not moved on, so refills count twice.
allow_stale_refill(c) ==
    LET ok == Available(c) >= Unit
        bucket == [tokens |-> IF ok THEN Available(c) - Unit ELSE Available(c),
                   last |-> IF c \in DOMAIN buckets THEN buckets[c].last ELSE now]
    IN  /\ buckets' = [d \in DOMAIN buckets \cup {c} |-> IF d = c THEN bucket ELSE buckets[d]]
        /\ answer' = [answer EXCEPT ![c] = IF ok THEN "allowed" ELSE "limited"]
        /\ UNCHANGED <<now, reaping, reapNow>>

\* The refill and the decision, under the lock of the client's shard.
allow(c) ==
    LET ok == Available(c) >= Unit
        bucket == [tokens |-> IF ok THEN Available(c) - Unit ELSE Available(c),
                   last |-> now]
    IN  /\ buckets' = [d \in DOMAIN buckets \cup {c} |-> IF d = c THEN bucket ELSE buckets[d]]
        /\ answer' = [answer EXCEPT ![c] = IF ok THEN "allowed" ELSE "limited"]
        /\ UNCHANGED <<now, reaping, reapNow>>

\* reap_idle() is called and reads the clock.
ReapStart ==
    /\ reaping = 0
    /\ reaping' = 1 /\ reapNow' = now
    /\ UNCHANGED <<now, buckets, answer>>

\* Seeded fault: the threshold is forgotten.
Idle_at_once(c) == reapNow >= buckets[c].last

Idle(c) == reapNow - buckets[c].last > IdleThreshold

\* Seeded fault: the loop skips the first shard.
ReapShard_skips_first ==
    /\ reaping # 0
    /\ buckets' = Restrict(buckets, {c \in DOMAIN buckets :
                                       ~(ShardOf[c] = reaping /\ reaping > 1 /\ Idle(c))})
    /\ reaping' = IF reaping = Shards THEN 0 ELSE reaping + 1
    /\ UNCHANGED <<now, reapNow, answer>>

\* The idle buckets of one shard are erased, under the lock of the shard.
ReapShard ==
    /\ reaping # 0
    /\ buckets' = Restrict(buckets, {c \in DOMAIN buckets :
                                       ~(ShardOf[c] = reaping /\ Idle(c))})
    /\ reaping' = IF reaping = Shards THEN 0 ELSE reaping + 1
    /\ UNCHANGED <<now, reapNow, answer>>

Tick ==
    /\ now < MaxTime
    /\ now' = now + 1
    /\ UNCHANGED <<buckets, reaping, reapNow, answer>>

Next == Tick \/ ReapStart \/ ReapShard \/ \E c \in Clients : allow(c)

Spec == Init /\ [][Next]_vars

-----------------------------------------------------------------------------
(* Properties. *)

\* Types; tokens never leave 0..Capacity and no bucket is from the future.
\* (Checked as part of the types of Proxy.)
TypeOK ==
    /\ now \in 0..MaxTime /\ reapNow \in 0..now /\ reaping \in 0..Shards
    /\ DOMAIN buckets \subseteq Clients
    /\ \A c \in DOMAIN buckets : buckets[c].tokens \in 0..Capacity
                                 /\ buckets[c].last \in 0..now
    /\ answer \in [Clients -> {"none", "allowed", "limited"}]

\* The limiter behaves as if every client had had its own, never reaped
\* bucket from the start: sharding, lazy refills, and a reap_idle() that runs
\* shard by shard with an old clock while clients come and go cannot be seen
\* in its answers.
TB == INSTANCE TokenBucket WITH level <- [c \in Clients |-> Available(c)]

ImplementsTokenBucket == TB!TSpec

\* A pass of reap_idle() leaves no bucket that was idle for longer than the
\* threshold when it began ("grows without bound", rate_limiter.hpp:31).
ReapComplete ==
    [][reaping = Shards /\ reaping' = 0 =>
          \A c \in DOMAIN buckets' : reapNow - buckets'[c].last <= IdleThreshold]_vars
=============================================================================
