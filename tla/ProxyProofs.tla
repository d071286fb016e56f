----------------------------- MODULE ProxyProofs ----------------------------
(***************************************************************************)
(* The listener with its limiter and its counters, for any number of       *)
(* connections, clients and scrapers and any rate and burst: how many      *)
(* connections of a client get through in a window of time, and what the   *)
(* counters of a page of metrics add up to.                                *)
(***************************************************************************)
EXTENDS Proxy, FiniteSetTheorems, TLAPS

LP == INSTANCE RateLimiterProofs

-----------------------------------------------------------------------------
(* The limiter inside the proxy. *)

\* What the results of RateLimiterProofs assume of the constants.
LEMMA Limits == LP!LimiterAssumption
  BY ProxyAssumption DEF ProxyAssumption, RL!LimiterAssumption, LP!LimiterAssumption

\* A step of the proxy is a step of the limiter, or does not touch it.
LEMMA LimiterStep == [Next]_vars => [LP!Next]_(LP!vars)
  <1> SUFFICES ASSUME [Next]_vars PROVE [LP!Next]_limiter
    BY DEF limiter, LP!vars
  <1>1. ASSUME NEW c \in Conns, Admit(c) \/ Limit(c) PROVE LP!Next
    <2>1. ClientOf[c] \in Clients
      BY ProxyAssumption DEF ProxyAssumption
    <2>2. LP!allow(ClientOf[c])
      BY <1>1 DEF Admit, Limit, RL!allow, LP!allow, RL!Available, LP!Available, RL!Refilled,
                  LP!Refilled, RL!Least, LP!Least
    <2> QED  BY <2>1, <2>2 DEF LP!Next
  <1>2. ASSUME NEW c \in Conns, Drop(c) \/ OptionThrows(c) \/ Arrive(c) \/ Write429(c)
                                \/ Drain429(c) \/ handle_client(c)
        PROVE  UNCHANGED limiter
    BY <1>2 DEF Drop, OptionThrows, Arrive, Write429, Drain429, Send429, handle_client
  <1>3. CASE ReapTimer
    BY <1>3 DEF ReapTimer, RL!ReapStart, LP!ReapStart, LP!Next
  <1>4. CASE ReapShard
    BY <1>4 DEF ReapShard, RL!ReapShard, LP!ReapShard, RL!Idle, LP!Idle, RL!Restrict, LP!Restrict, LP!Next
  <1>5. CASE Tick
    BY <1>5 DEF Tick, RL!Tick, LP!Tick, LP!Next
  <1>6. CASE WarmedUp \/ AcceptThrows \/ Stop \/ MetricsAcceptThrows \/ UNCHANGED vars
    BY <1>6 DEF WarmedUp, AcceptThrows, Stop, MetricsAcceptThrows, others, vars
  <1>7. ASSUME NEW m \in Scrapes, ScrapeArrive(m) \/ metrics_listen(m) \/ serve_metrics(m)
        PROVE  UNCHANGED limiter
    BY <1>7 DEF ScrapeArrive, metrics_listen, serve_metrics, ServeRead, ServeWrite, ServeDrain,
                ScrapeMoves, others
  <1> QED  BY <1>1, <1>2, <1>3, <1>4, <1>5, <1>6, <1>7 DEF Next, listen

-----------------------------------------------------------------------------
(* The window. *)

\* What client k would find in its bucket now.
Level(k) == LP!Available(k)

\* A connection is let through,
LetThrough(c) ==
    /\ admittedAt' = [admittedAt EXCEPT ![c] = now] /\ now' = now
    /\ Level(ClientOf[c]) >= Unit /\ Level(ClientOf[c])' = Level(ClientOf[c]) - Unit
    /\ \A k \in Clients \ {ClientOf[c]} : Level(k)' = Level(k)

\* time passes,
TimePasses ==
    /\ UNCHANGED admittedAt /\ now' = now + 1
    /\ \A k \in Clients : /\ Level(k)' \in Nat
                          /\ Level(k)' <= Capacity /\ Level(k)' <= Level(k) + Rate

\* or nothing is given.
NothingGiven == UNCHANGED <<admittedAt, now>> /\ \A k \in Clients : Level(k)' = Level(k)

LEMMA LevelStep ==
    ASSUME LP!Inv, [Next]_vars
    PROVE  (\E c \in Conns : LetThrough(c)) \/ TimePasses \/ NothingGiven
  <1>1. /\ Capacity \in Nat /\ Unit \in Int /\ Unit > 0 /\ Rate \in Nat
        /\ \A c \in Conns : ClientOf[c] \in Clients
    BY ProxyAssumption DEF ProxyAssumption, RL!LimiterAssumption
  <1>2. \A k \in Clients : Level(k) \in Nat /\ Level(k) <= Capacity
    BY LP!LevelType, Limits DEF LP!LimiterAssumption, Level
  <1>3. ASSUME NEW c \in Conns, Admit(c) PROVE LetThrough(c)
    <2>1. LP!allow(ClientOf[c]) /\ UNCHANGED now
      BY <1>3 DEF Admit, RL!allow, LP!allow, RL!Available, LP!Available, RL!Refilled,
                  LP!Refilled, RL!Least, LP!Least
    <2>2. Level(ClientOf[c]) >= Unit
      BY <1>1, <1>3, <2>1 DEF Admit, LP!allow, Level, LP!Inv
    <2> QED  BY <1>1, <1>3, <2>1, <2>2, LP!AllowLevel, Limits DEF LP!LimiterAssumption, Admit, LetThrough, Level
  <1>4. ASSUME NEW c \in Conns, Limit(c) PROVE NothingGiven
    <2>1. LP!allow(ClientOf[c]) /\ UNCHANGED <<admittedAt, now>>
      BY <1>4 DEF Limit, RL!allow, LP!allow, RL!Available, LP!Available, RL!Refilled,
                  LP!Refilled, RL!Least, LP!Least
    <2>2. ~(Level(ClientOf[c]) >= Unit)
      BY <1>1, <1>4, <2>1 DEF Limit, LP!allow, Level, LP!Inv
    <2> QED  BY <1>1, <2>1, <2>2, LP!AllowLevel, Limits DEF LP!LimiterAssumption, NothingGiven, Level
  <1>5. CASE Tick
    <2>1. LP!Tick /\ UNCHANGED admittedAt
      BY <1>5 DEF Tick, RL!Tick, LP!Tick, clients
    <2> QED  BY <1>1, <1>2, <2>1, LP!TickLevel, Limits DEF LP!LimiterAssumption, TimePasses, Level, LP!Tick, LP!Least
  <1>6. CASE ReapShard
    <2>1. LP!ReapShard /\ UNCHANGED <<admittedAt, now>>
      BY <1>6 DEF ReapShard, RL!ReapShard, LP!ReapShard, RL!Idle, LP!Idle, RL!Restrict,
                  LP!Restrict, clients
    <2> QED  BY <1>2, <2>1, LP!ReapLevel, Limits DEF LP!LimiterAssumption, NothingGiven, Level
  <1>7. CASE UNCHANGED <<admittedAt, now, buckets>>
    BY <1>2, <1>7 DEF NothingGiven, Level, LP!Available, LP!Refilled, LP!Least
  <1>8. ASSUME NEW c \in Conns, Drop(c) \/ OptionThrows(c) \/ Arrive(c) \/ Write429(c)
                                \/ Drain429(c) \/ handle_client(c)
        PROVE  UNCHANGED <<admittedAt, now, buckets>>
    BY <1>8 DEF Drop, OptionThrows, Arrive, Write429, Drain429, Send429, handle_client, limiter, clients
  <1>9. CASE WarmedUp \/ AcceptThrows \/ Stop \/ MetricsAcceptThrows \/ ReapTimer \/ UNCHANGED vars
    BY <1>7, <1>9
    DEF WarmedUp, AcceptThrows, Stop, MetricsAcceptThrows, ReapTimer, RL!ReapStart, others, vars,
        limiter, clients
  <1>10. ASSUME NEW m \in Scrapes, ScrapeArrive(m) \/ metrics_listen(m) \/ serve_metrics(m)
         PROVE  UNCHANGED <<admittedAt, now, buckets>>
    BY <1>10 DEF ScrapeArrive, metrics_listen, serve_metrics, ServeRead, ServeWrite, ServeDrain,
                 ScrapeMoves, others, limiter, clients
  <1> QED  BY <1>3, <1>4, <1>5, <1>6, <1>7, <1>8, <1>9, <1>10 DEF Next, listen

\* The connections of client k that were let through from f to t.
Through(k, f, t) == {c \in Conns : ClientOf[c] = k /\ admittedAt[c] \in f..t}

\* Why WindowBound is kept: what was let through since f, and what is still in
\* the bucket, are within the bound of the window that ends now.
Budget ==
    \A k \in Clients : \A f \in 0..now :
        Unit * Cardinality(Through(k, f, now)) + Level(k) <= Capacity + Rate * (now - f)

WInv ==
    /\ LP!Inv /\ now \in Nat
    /\ admittedAt \in [Conns -> Int] /\ \A c \in Conns : admittedAt[c] <= now
    /\ \A k \in Clients : Level(k) \in Nat
    /\ Budget /\ WindowBound

LEMMA Counted ==
    ASSUME NEW S, S \subseteq Conns
    PROVE  IsFiniteSet(S) /\ Cardinality(S) \in Nat
  <1>1. IsFiniteSet(Conns)
    <2>1. 1 \in Int /\ NConns \in Int
      BY ProxyAssumption DEF ProxyAssumption
    <2> QED  BY <2>1, FS_Interval DEF Conns
  <1> QED  BY <1>1, FS_Subset, FS_CardinalityType

\* Counting fewer costs no more, and one more costs Unit.
LEMMA Fewer ==
    ASSUME NEW u \in Nat, NEW m \in Nat, NEW n \in Nat, m <= n
    PROVE  u * m \in Nat /\ u * n \in Nat /\ u * m <= u * n
  <1> DEFINE e == n - m
             x == u * m
             y == u * e
             z == u * n
  <1>1. e \in Nat /\ n = m + e
    OBVIOUS
  <1>2. z = x + y
    BY <1>1, SMT
  <1>3. x \in Nat /\ y \in Nat /\ z \in Nat
    BY <1>1, SMT
  <1> HIDE DEF x, y, z
  <1>4. x <= z
    BY <1>2, <1>3
  <1> QED  BY <1>3, <1>4 DEF x, z

LEMMA OneMore ==
    ASSUME NEW u \in Int, NEW n \in Int
    PROVE  u * (n + 1) = u * n + u /\ u * n \in Int
  BY SMT

\* The window that ends now is covered by Budget, older ones do not grow.
LEMMA OldWindows ==
    ASSUME WInv, Budget', \A k \in Clients : Level(k)' \in Nat, now' \in {now, now + 1},
           \A c \in Conns : \A t \in 0..now' - 1 : admittedAt'[c] = t => admittedAt[c] = t
    PROVE  WindowBound'
  <1> SUFFICES ASSUME NEW k \in Clients, NEW f \in 0..now', NEW t \in 0..now', f <= t
               PROVE  Unit * Cardinality(Through(k, f, t)') <= Capacity + Rate * (t - f)
    BY DEF WindowBound, Through
  <1>1. Unit \in Nat /\ Capacity \in Nat /\ Rate \in Nat /\ now \in Nat
    BY Limits DEF LP!LimiterAssumption, WInv
  <1>0. now' \in Nat /\ now' <= now + 1 /\ t \in Nat /\ f \in Nat /\ t <= now'
    <2>1. CASE now' = now
      BY <1>1, <2>1
    <2>2. CASE now' = now + 1
      BY <1>1, <2>2
    <2> QED  BY <2>1, <2>2
  <1>2. Through(k, f, t)' \subseteq Conns /\ Through(k, f, t) \subseteq Conns
    BY DEF Through
  <1>3. Cardinality(Through(k, f, t)') \in Nat /\ Cardinality(Through(k, f, t)) \in Nat
        /\ IsFiniteSet(Through(k, f, t))
    BY <1>2, Counted
  <1> DEFINE x == Unit * Cardinality(Through(k, f, t)')
             r == Rate * (t - f)
  <1>4. x \in Int /\ r \in Int
    BY <1>1, <1>3, SMT
  <1>5. CASE t = now'
    <2>1. Unit * Cardinality(Through(k, f, t)') + Level(k)' <= Capacity + Rate * (t - f)
      BY <1>5, Zenon DEF Budget, Through
    <2>2. Level(k)' \in Nat
      OBVIOUS
    <2>3. x + Level(k)' <= Capacity + r
      BY <2>1
    <2> HIDE DEF x, r
    <2>4. x <= Capacity + r
      BY <1>1, <1>4, <2>2, <2>3
    <2> QED  BY <2>4 DEF x, r
  <1>6. CASE t < now'
    <2>1. t \in 0..now /\ f \in 0..now
      BY <1>0, <1>1, <1>6
    <2>2. Through(k, f, t)' \subseteq Through(k, f, t)
      <3>1. ASSUME NEW c \in Conns, admittedAt'[c] \in f..t PROVE admittedAt[c] \in f..t
        <4>1. admittedAt'[c] \in 0..now' - 1
          BY <1>0, <1>6, <3>1
        <4> QED  BY <3>1, <4>1
      <3> QED  BY <3>1 DEF Through
    <2>3. Cardinality(Through(k, f, t)') <= Cardinality(Through(k, f, t))
      BY <1>3, <2>2, FS_Subset
    <2> DEFINE y == Unit * Cardinality(Through(k, f, t))
    <2>4. x <= y /\ y \in Int
      BY <1>1, <1>3, <2>3, Fewer
    <2>5. y <= Capacity + r
      BY <2>1 DEF WInv, WindowBound, Through
    <2> HIDE DEF x, y, r
    <2>6. x <= Capacity + r
      BY <1>1, <1>4, <2>4, <2>5
    <2> QED  BY <2>6 DEF x, r
  <1> QED  BY <1>0, <1>5, <1>6

\* A connection that gets through pays with a token.
LEMMA LetThroughBudget ==
    ASSUME WInv, NEW c \in Conns, LetThrough(c)
    PROVE  Budget'
  <1> SUFFICES ASSUME NEW k \in Clients, NEW f \in 0..now
               PROVE  Unit * Cardinality(Through(k, f, now)') + Level(k)' <= Capacity + Rate * (now - f)
    BY DEF Budget, LetThrough, Through
  <1>1. Unit \in Nat /\ Capacity \in Nat /\ Rate \in Nat /\ now \in Nat /\ ClientOf[c] \in Clients
    BY ProxyAssumption DEF ProxyAssumption, RL!LimiterAssumption, WInv
  <1>2. Level(k) \in Int
    BY DEF WInv
  <1> DEFINE S == Through(k, f, now)
             n == Cardinality(S)
             r == Rate * (now - f)
  <1>3. IsFiniteSet(S) /\ n \in Nat /\ Cardinality(S') \in Nat
    BY Counted DEF Through
  <1>4. Unit * n + Level(k) <= Capacity + r /\ r \in Int
    BY <1>1, SMT DEF WInv, Budget
  <1>5. CASE ClientOf[c] = k
    <2>1. S' \subseteq S \cup {c}
      <3>1. now' = now /\ \A d \in Conns \ {c} : admittedAt'[d] = admittedAt[d]
        BY DEF LetThrough, WInv
      <3> QED  BY <3>1, Zenon DEF Through
    <2>2. Cardinality(S \cup {c}) <= n + 1 /\ IsFiniteSet(S \cup {c})
      <3> HIDE DEF S
      <3>1. /\ IsFiniteSet(S \cup {c})
            /\ Cardinality(S \cup {c}) = n \/ Cardinality(S \cup {c}) = n + 1
        BY <1>3, FS_AddElement, Zenon
      <3> HIDE DEF n
      <3> QED  BY <1>3, <3>1
    <2>3. Cardinality(S') <= n + 1
      <3>1. Cardinality(S') <= Cardinality(S \cup {c}) /\ Cardinality(S \cup {c}) \in Nat
        BY <2>1, <2>2, FS_Subset, FS_CardinalityType
      <3> HIDE DEF S, n
      <3> QED  BY <1>3, <2>2, <3>1
    <2> DEFINE x == Unit * Cardinality(S')
               y == Unit * n
    <2>4. x \in Int /\ y \in Int /\ x <= y + Unit
      <3> HIDE DEF n, S
      <3>1. n + 1 \in Nat
        BY <1>3
      <3>2. x \in Nat /\ x <= Unit * (n + 1) /\ Unit * (n + 1) \in Nat
        BY <1>1, <1>3, <2>3, <3>1, Fewer
      <3>3. Unit * (n + 1) = y + Unit /\ y \in Int
        BY <1>1, <1>3, OneMore
      <3> HIDE DEF x, y
      <3> QED  BY <1>1, <3>2, <3>3
    <2>5. Level(k)' = Level(k) - Unit
      BY <1>5 DEF LetThrough
    <2>6. y + Level(k) <= Capacity + r
      BY <1>4
    <2> HIDE DEF x, y, r, n, S
    <2>7. x + Level(k)' <= Capacity + r
      BY <1>1, <1>2, <1>4, <2>4, <2>5, <2>6
    <2> QED  BY <2>7 DEF x, r, S
  <1>6. CASE ClientOf[c] # k
    <2>1. S' = S
      BY <1>6 DEF LetThrough, Through, WInv
    <2>2. Level(k)' = Level(k)
      BY <1>6 DEF LetThrough
    <2> QED  BY <1>4, <2>1, <2>2
  <1> QED  BY <1>5, <1>6

\* A tick gives each bucket no more than it adds to each window.
LEMMA TimeBudget ==
    ASSUME WInv, TimePasses
    PROVE  Budget'
  <1> SUFFICES ASSUME NEW k \in Clients, NEW f \in 0..now + 1
               PROVE  Unit * Cardinality(Through(k, f, now)') + Level(k)'
                        <= Capacity + Rate * ((now + 1) - f)
    BY DEF Budget, TimePasses
  <1>1. Unit \in Nat /\ Capacity \in Nat /\ Rate \in Nat /\ now \in Nat
    BY Limits DEF LP!LimiterAssumption, WInv
  <1>2. Level(k) \in Int /\ Level(k)' \in Int
    BY DEF WInv, TimePasses
  <1>3. Level(k)' <= Capacity /\ Level(k)' <= Level(k) + Rate
    BY DEF TimePasses
  <1>4. CASE f <= now
    <2>1. Through(k, f, now)' = Through(k, f, now)
      BY <1>1, <1>4 DEF Through, TimePasses, WInv
    <2> DEFINE x == Unit * Cardinality(Through(k, f, now))
               r == Rate * (now - f)
               r1 == Rate * ((now + 1) - f)
    <2>2. x + Level(k) <= Capacity + r
      BY <1>1, <1>4 DEF WInv, Budget
    <2>3. Cardinality(Through(k, f, now)) \in Nat
      BY Counted DEF Through
    <2>4. x \in Int /\ r \in Int /\ r1 = r + Rate
      BY <1>1, <2>3, SMT
    <2> HIDE DEF x, r, r1
    <2>5. x + Level(k)' <= Capacity + r1
      BY <1>1, <1>2, <1>3, <2>2, <2>4
    <2> QED  BY <2>1, <2>5 DEF x, r1
  <1>5. CASE f = now + 1
    <2>1. Through(k, f, now)' = {}
      BY <1>1, <1>5 DEF Through, TimePasses, WInv
    <2>2. Cardinality(Through(k, f, now)') = 0
      BY <2>1, FS_EmptySet
    <2>3. Unit * 0 = 0 /\ Rate * ((now + 1) - f) = 0
      BY <1>1, <1>5, SMT
    <2> QED  BY <1>1, <1>2, <1>3, <2>2, <2>3
  <1> QED  BY <1>1, <1>4, <1>5

LEMMA InitWInv == Init => WInv
  <1> SUFFICES ASSUME Init PROVE WInv
    OBVIOUS
  <1>1. Unit \in Nat /\ Capacity \in Nat /\ Rate \in Nat
    BY Limits DEF LP!LimiterAssumption
  <1>2. now = 0 /\ admittedAt = [c \in Conns |-> Never] /\ buckets = <<>>
    BY DEF Init, RL!Init
  <1>3. LP!Inv
    BY LP!InitInv, Limits DEF LP!LimiterAssumption, Init, RL!Init, LP!Init
  <1>4. \A k \in Clients : Level(k) = Capacity
    BY <1>2 DEF Level, LP!Available
  <1>5. ASSUME NEW k \in Clients, NEW f \in 0..now, NEW t \in 0..now
        PROVE  Unit * Cardinality(Through(k, f, t)) = 0 /\ Rate * (t - f) = 0
    <2>1. Through(k, f, t) = {} /\ t = 0 /\ f = 0
      BY <1>2, <1>5 DEF Through, Never
    <2>2. Cardinality(Through(k, f, t)) = 0
      BY <2>1, FS_EmptySet
    <2> QED  BY <1>1, <2>1, <2>2, SMT
  <1>6. Budget
    BY <1>1, <1>2, <1>4, <1>5 DEF Budget
  <1>7. WindowBound
    BY <1>1, <1>5 DEF WindowBound, Through
  <1> QED  BY <1>1, <1>2, <1>3, <1>4, <1>6, <1>7 DEF WInv, Never

LEMMA NextWInv == WInv /\ [Next]_vars => WInv'
  <1> SUFFICES ASSUME WInv, [Next]_vars PROVE WInv'
    OBVIOUS
  <1>1. LP!Inv'
    BY LimiterStep, LP!NextInv, Limits DEF LP!LimiterAssumption, WInv
  <1>2. Unit \in Nat /\ \A c \in Conns : ClientOf[c] \in Clients
    BY ProxyAssumption DEF ProxyAssumption, RL!LimiterAssumption
  <1>3. ASSUME NEW c \in Conns, LetThrough(c) PROVE WInv'
    <2>1. /\ now' = now /\ now \in Nat /\ admittedAt' \in [Conns -> Int]
          /\ \A d \in Conns : /\ admittedAt'[d] <= now
                              /\ \A t \in 0..now - 1 : admittedAt'[d] = t => admittedAt[d] = t
      BY <1>3 DEF LetThrough, WInv
    <2>2. \A k \in Clients : Level(k)' \in Nat
      BY <1>2, <1>3 DEF LetThrough, WInv
    <2>3. Budget'
      BY <1>3, LetThroughBudget
    <2> QED  BY <1>1, <2>1, <2>2, <2>3, OldWindows DEF WInv
  <1>4. CASE TimePasses
    <2>1. /\ now' = now + 1 /\ now \in Nat /\ admittedAt' = admittedAt
          /\ \A c \in Conns : admittedAt[c] \in Int /\ admittedAt[c] <= now
      BY <1>4 DEF TimePasses, WInv
    <2>2. \A k \in Clients : Level(k)' \in Nat
      BY <1>4 DEF TimePasses
    <2>3. Budget'
      BY <1>4, TimeBudget
    <2>4. WindowBound'
      BY <2>1, <2>2, <2>3, OldWindows
    <2> QED  BY <1>1, <2>1, <2>2, <2>3, <2>4 DEF WInv
  <1>5. CASE NothingGiven
    BY <1>1, <1>5 DEF NothingGiven, WInv, Budget, Through, WindowBound
  <1> QED  BY <1>3, <1>4, <1>5, LevelStep DEF WInv

\* No client gets more connections through in any window of time than the
\* burst and the window's refill (rate_limiter.cpp:36-72 as main.cpp:119 and
\* main.cpp:58 call it), whatever is reaped in between.
THEOREM WindowHolds == Spec => []WindowBound
  <1>1. WInv => WindowBound
    BY DEF WInv
  <1> QED  BY <1>1, InitWInv, NextWInv, PTL DEF Spec

-----------------------------------------------------------------------------
(* The counters. *)
Served == {c \in Conns : phase[c] = "serving"}

Numbers == <<cids, requests, rate_limited, fallbacks>>

\* A connection that was not accepted has not been spawned, one that was not
\* spawned has not started, and each request that is being served is one that
\* has not been refused.
AInv ==
    /\ arrived \in Nat /\ taken \in Nat /\ taken <= arrived
    /\ cids \in Nat /\ requests \in Nat /\ rate_limited \in Nat /\ fallbacks \in Nat
    /\ DOMAIN stage = Conns /\ DOMAIN phase = Conns
    /\ \A c \in Conns : c > taken => stage[c] \in {"absent", "queued"}
    /\ \A c \in Conns : stage[c] # "spawned" => phase[c] = "waiting"
    /\ Accounted
    /\ fallbacks + Cardinality(Served) <= requests

Pages ==
    \A m \in Scrapes : /\ page[m].requests \in Nat /\ page[m].rate_limited \in Nat
                       /\ page[m].fallbacks \in Nat

LEMMA InitAInv == Init => AInv /\ DOMAIN page = Scrapes /\ Pages /\ PageConsistent
  <1> SUFFICES ASSUME Init PROVE AInv /\ DOMAIN page = Scrapes /\ Pages /\ PageConsistent
    OBVIOUS
  <1>1. Dropped = {} /\ Waiting = {} /\ Served = {}
    BY DEF Init, CS!SInit, Dropped, Waiting, Served
  <1>2. Cardinality(Dropped) = 0 /\ Cardinality(Waiting) = 0 /\ Cardinality(Served) = 0
    BY <1>1, FS_EmptySet
  <1> QED  BY <1>2 DEF Init, CS!SInit, AInv, Accounted, PageConsistent, Pages, NoPage

LEMMA Sizes ==
    /\ IsFiniteSet(Dropped) /\ Cardinality(Dropped) \in Nat
    /\ IsFiniteSet(Waiting) /\ Cardinality(Waiting) \in Nat
    /\ IsFiniteSet(Served) /\ Cardinality(Served) \in Nat
  BY Counted DEF Dropped, Waiting, Served

\* One more connection is accepted.
LEMMA AcceptAInv ==
    ASSUME AInv, NEW c \in Conns, Drop(c) \/ Admit(c) \/ Limit(c) \/ OptionThrows(c)
    PROVE  AInv' /\ cids' >= cids /\ UNCHANGED page
  <1>1. /\ c = taken + 1 /\ taken' = c /\ c <= arrived /\ arrived' = arrived
        /\ UNCHANGED <<phase, requests, fallbacks, page>>
    BY DEF Drop, Admit, Limit, OptionThrows, Accepts, service, scraper
  <1>2. stage[c] \notin {"dropped", "spawned"} /\ phase[c] = "waiting"
    BY <1>1 DEF AInv
  <1>3. Served' = Served
    BY <1>1 DEF Served
  <1>4. CASE Drop(c)
    <2>1. stage' = [stage EXCEPT ![c] = "dropped"] /\ cids' = cids + 1 /\ UNCHANGED rate_limited
      BY <1>4 DEF Drop, Accepts, generate
    <2>2. Dropped' = Dropped \cup {c} /\ c \notin Dropped /\ Waiting' = Waiting
      BY <1>1, <1>2, <2>1 DEF Dropped, Waiting, AInv
    <2>3. Cardinality(Dropped') = Cardinality(Dropped) + 1
      BY <2>2, Sizes, FS_AddElement, Zenon
    <2> QED  BY <1>1, <1>2, <1>3, <2>1, <2>2, <2>3, Sizes DEF AInv, Accounted
  <1>5. CASE Admit(c)
    <2>1. stage' = [stage EXCEPT ![c] = "spawned"] /\ cids' = cids + 1 /\ UNCHANGED rate_limited
      BY <1>5 DEF Admit, Accepts, generate
    <2>2. Dropped' = Dropped /\ c \notin Waiting /\ Waiting' = Waiting \cup {c}
      BY <1>1, <1>2, <2>1 DEF Dropped, Waiting, AInv
    <2>3. Cardinality(Waiting') = Cardinality(Waiting) + 1
      BY <2>2, Sizes, FS_AddElement, Zenon
    <2> QED  BY <1>1, <1>2, <1>3, <2>1, <2>2, <2>3, Sizes DEF AInv, Accounted
  <1>6. CASE Limit(c)
    <2>1. /\ stage' = [stage EXCEPT ![c] = "write429"] /\ cids' = cids + 1
          /\ rate_limited' = rate_limited + 1
      BY <1>6, Zenon DEF Limit, Accepts, generate
    <2>2. Dropped' = Dropped /\ Waiting' = Waiting
      BY <1>1, <1>2, <2>1 DEF Dropped, Waiting, AInv
    <2> QED  BY <1>1, <1>2, <1>3, <2>1, <2>2, Sizes DEF AInv, Accounted
  <1>7. CASE OptionThrows(c)
    <2>1. stage' = [stage EXCEPT ![c] = "cut"] /\ UNCHANGED <<cids, rate_limited>>
      BY <1>7 DEF OptionThrows, Accepts
    <2>2. Dropped' = Dropped /\ Waiting' = Waiting
      BY <1>1, <1>2, <2>1 DEF Dropped, Waiting, AInv
    <2> QED  BY <1>1, <1>2, <1>3, <2>1, <2>2, Sizes DEF AInv, Accounted
  <1> QED  BY <1>4, <1>5, <1>6, <1>7

\* A connection waits in the queue, or its 429 goes on.
LEMMA StageAInv ==
    ASSUME AInv, NEW c \in Conns, Arrive(c) \/ Write429(c) \/ Drain429(c)
    PROVE  AInv' /\ UNCHANGED <<Numbers, page>>
  <1>1. UNCHANGED <<phase, requests, fallbacks, page, cids, rate_limited, taken>>
    BY DEF Arrive, Write429, Drain429, Send429, service, scraper
  <1>2. stage[c] \notin {"dropped", "spawned"} /\ arrived' \in Nat /\ arrived' >= arrived
    BY DEF Arrive, Write429, Drain429, Send429, AInv
  <1>3. PICK to \in {"queued", "drain429", "closed"} :
           stage' = [stage EXCEPT ![c] = to] /\ (c > taken => to = "queued")
    BY DEF Arrive, Write429, Drain429, Send429, AInv
  <1>4. Dropped' = Dropped /\ Waiting' = Waiting /\ Served' = Served
    BY <1>1, <1>2, <1>3 DEF Dropped, Waiting, Served, AInv
  <1> QED  BY <1>1, <1>2, <1>3, <1>4, Sizes DEF AInv, Accounted, Numbers

\* A session starts, ends or refuses.
LEMMA SessionAInv ==
    ASSUME AInv, NEW c \in Conns, handle_client(c)
    PROVE  AInv' /\ UNCHANGED <<cids, page>>
  <1>1. UNCHANGED <<arrived, taken, stage, cids, rate_limited, page>>
    BY DEF handle_client, clients, scraper
  <1>2. Dropped' = Dropped
    BY <1>1 DEF Dropped
  <1>3. CASE Begins(c)
    <2>1. /\ phase[c] = "waiting" /\ stage[c] = "spawned"
          /\ phase' = [phase EXCEPT ![c] = "serving"]
          /\ requests' = requests + 1 /\ UNCHANGED fallbacks
      BY <1>3 DEF Begins, CS!Begin, CS!Moves
    <2>2. /\ Waiting' = Waiting \ {c} /\ c \in Waiting
          /\ Served' = Served \cup {c} /\ c \notin Served
      BY <1>1, <2>1 DEF Waiting, Served, AInv
    <2>3. /\ Cardinality(Waiting') = Cardinality(Waiting) - 1
          /\ Cardinality(Served') = Cardinality(Served) + 1
      BY <2>2, Sizes, FS_AddElement, FS_RemoveElement, Zenon
    <2> QED  BY <1>1, <1>2, <2>1, <2>3, Sizes DEF AInv, Accounted
  <1>4. CASE CS!Finish(c)
    <2>1. /\ phase[c] = "serving" /\ phase' = [phase EXCEPT ![c] = "done"]
          /\ UNCHANGED <<requests, fallbacks>>
      BY <1>4 DEF CS!Finish, CS!Moves
    <2>2. Waiting' = Waiting /\ Served' = Served \ {c} /\ c \in Served
      BY <1>1, <2>1 DEF Waiting, Served, AInv
    <2>3. Cardinality(Served') = Cardinality(Served) - 1
      BY <2>2, Sizes, FS_RemoveElement, Zenon
    <2> QED  BY <1>1, <1>2, <2>1, <2>2, <2>3, Sizes DEF AInv, Accounted
  <1>5. CASE CS!Refuse(c)
    <2>1. /\ phase[c] = "serving" /\ phase' = [phase EXCEPT ![c] = "refusing"]
          /\ UNCHANGED requests /\ fallbacks' = fallbacks + 1
      BY <1>5 DEF CS!Refuse, CS!Moves
    <2>2. Waiting' = Waiting /\ Served' = Served \ {c} /\ c \in Served
      BY <1>1, <2>1 DEF Waiting, Served, AInv
    <2>3. Cardinality(Served') = Cardinality(Served) - 1
      BY <2>2, Sizes, FS_RemoveElement, Zenon
    <2> QED  BY <1>1, <1>2, <2>1, <2>2, <2>3, Sizes DEF AInv, Accounted
  <1>6. CASE CS!Close(c)
    <2>1. /\ phase[c] = "refusing" /\ phase' = [phase EXCEPT ![c] = "done"]
          /\ UNCHANGED <<requests, fallbacks>>
      BY <1>6 DEF CS!Close, CS!Moves
    <2>2. Waiting' = Waiting /\ Served' = Served
      BY <1>1, <2>1 DEF Waiting, Served, AInv
    <2> QED  BY <1>1, <1>2, <2>1, <2>2, Sizes DEF AInv, Accounted
  <1> QED  BY <1>3, <1>4, <1>5, <1>6 DEF handle_client, Ends

\* A page is rendered in one piece, so it shows counters that add up.
CInv == AInv /\ DOMAIN page = Scrapes /\ Pages /\ PageConsistent

LEMMA PageKept ==
    ASSUME CInv, AInv', cids' >= cids, UNCHANGED page
    PROVE  CInv'
  BY DEF CInv, AInv, Pages, PageConsistent

LEMMA ServeCInv ==
    ASSUME CInv, NEW m \in Scrapes, ScrapeArrive(m) \/ metrics_listen(m) \/ serve_metrics(m)
    PROVE  CInv'
  <1>1. UNCHANGED <<clients, service>>
    BY DEF ScrapeArrive, metrics_listen, serve_metrics, ServeRead, ServeWrite, ServeDrain,
           ScrapeMoves, others
  <1>2. AInv' /\ UNCHANGED Numbers
    BY <1>1 DEF CInv, AInv, Accounted, Dropped, Waiting, Served, Numbers, clients, service
  <1>3. requests + rate_limited <= cids /\ fallbacks <= requests
    BY Sizes DEF CInv, AInv, Accounted
  <1>4. CASE UNCHANGED page
    <2>1. AInv' /\ cids' >= cids
      BY <1>2 DEF Numbers, CInv, AInv
    <2> QED  BY <1>4, <2>1, PageKept
  <1>5. ASSUME NEW p \in {NoPage, [requests |-> requests, rate_limited |-> rate_limited,
                                   fallbacks |-> fallbacks]},
               page' = [page EXCEPT ![m] = p]
        PROVE  CInv'
    <2>1. /\ p.requests \in Nat /\ p.rate_limited \in Nat /\ p.fallbacks \in Nat
          /\ p.fallbacks <= p.requests /\ p.requests + p.rate_limited <= cids
      BY <1>3 DEF NoPage, CInv, AInv
    <2> QED  BY <1>2, <1>5, <2>1 DEF CInv, Pages, PageConsistent, Numbers
  <1> QED
    BY <1>4, <1>5
    DEF ScrapeArrive, metrics_listen, serve_metrics, ServeRead, ServeWrite, ServeDrain, render_prometheus

LEMMA NextCInv == CInv /\ [Next]_vars => CInv'
  <1> SUFFICES ASSUME CInv, [Next]_vars PROVE CInv'
    OBVIOUS
  <1>0. AInv /\ cids \in Int
    BY DEF CInv, AInv
  <1>1. ASSUME NEW c \in Conns, Drop(c) \/ Admit(c) \/ Limit(c) \/ OptionThrows(c) PROVE CInv'
    BY <1>0, <1>1, AcceptAInv, PageKept
  <1>2. ASSUME NEW c \in Conns, Arrive(c) \/ Write429(c) \/ Drain429(c) PROVE CInv'
    BY <1>0, <1>2, StageAInv, PageKept DEF Numbers
  <1>3. ASSUME NEW c \in Conns, handle_client(c) PROVE CInv'
    BY <1>0, <1>3, SessionAInv, PageKept
  <1>4. CASE UNCHANGED <<clients, service, page>>
    BY <1>4 DEF CInv, AInv, Accounted, Dropped, Waiting, Served, clients, service, Pages, PageConsistent
  <1>5. CASE \/ WarmedUp \/ AcceptThrows \/ Stop \/ MetricsAcceptThrows \/ ReapTimer \/ ReapShard
             \/ Tick \/ UNCHANGED vars
    BY <1>4, <1>5
    DEF WarmedUp, AcceptThrows, Stop, MetricsAcceptThrows, ReapTimer, ReapShard, Tick, others, vars, scraper
  <1>6. ASSUME NEW m \in Scrapes, ScrapeArrive(m) \/ metrics_listen(m) \/ serve_metrics(m)
        PROVE  CInv'
    BY <1>6, ServeCInv
  <1> QED  BY <1>1, <1>2, <1>3, <1>5, <1>6 DEF Next, listen

\* Every accepted connection is counted exactly once or was dropped
\* (main.cpp:106-133, session.cpp's record_request_received()).
THEOREM AccountedHolds == Spec => []Accounted
  <1>1. CInv => Accounted
    BY DEF CInv, AInv
  <1> QED  BY <1>1, InitAInv, NextCInv, PTL DEF Spec, CInv

\* What render_prometheus() shows is consistent (metrics.hpp:58-110), for any
\* number of scrapers, connections and sessions.
THEOREM PageHolds == Spec => []PageConsistent
  <1>1. CInv => PageConsistent
    BY DEF CInv
  <1> QED  BY <1>1, InitAInv, NextCInv, PTL DEF Spec, CInv

-----------------------------------------------------------------------------
(***************************************************************************)
(* The reaper.  Time does not pass a timer that is due, so the clock is    *)
(* never ahead of reapAt, a pass sees the time it began at, and when it    *)
(* sets the timer again no bucket is left that was idle then.              *)
(***************************************************************************)
Timer ==
    /\ reapAt \in Int
    /\ run = "warming" => DOMAIN buckets = {} /\ reaping = 0
    /\ run # "warming" =>
          /\ now <= reapAt /\ reapAt <= now + ReapPeriod
          /\ \A k \in DOMAIN buckets :
                (reapAt - ReapPeriod) - buckets[k].last <= IdleThreshold
    /\ reaping # 0 => reapAt <= now /\ reapNow = now

RInv == LP!Inv /\ LP!Reaped /\ Timer

LEMMA InitRInv == Init => RInv
  <1> SUFFICES ASSUME Init PROVE RInv
    OBVIOUS
  <1>1. LP!Init
    BY DEF Init, RL!Init, LP!Init
  <1>2. LP!Inv /\ LP!Reaped
    BY <1>1, LP!InitInv, LP!InitReaped, Limits DEF LP!LimiterAssumption
  <1>3. DOMAIN buckets = {}
    BY DEF Init, RL!Init
  <1> QED  BY <1>2, <1>3 DEF Init, RL!Init, RInv, Timer

LEMMA NextTimer == RInv /\ [Next]_vars => Timer'
  <1> SUFFICES ASSUME RInv, [Next]_vars PROVE Timer'
    OBVIOUS
  <1>0. /\ now \in Int /\ reapAt \in Int /\ ReapPeriod \in Nat \ {0} /\ IdleThreshold \in Nat
        /\ Shards \in Nat \ {0} /\ \A k \in DOMAIN buckets : buckets[k].last \in Int
    BY ProxyAssumption DEF ProxyAssumption, RL!LimiterAssumption, RInv, LP!Inv, Timer
  <1>1. CASE UNCHANGED <<limiter, reapAt>> /\ (run = "warming" <=> run' = "warming")
    BY <1>1 DEF RInv, Timer, limiter
  <1>2. ASSUME NEW c \in Conns, Admit(c) \/ Limit(c) PROVE Timer'
    <2>1. /\ run = "listening" /\ run' = run /\ reaping = 0 /\ UNCHANGED <<now, reaping, reapNow, reapAt>>
          /\ \A d \in DOMAIN buckets' : \/ d \in DOMAIN buckets /\ buckets'[d] = buckets[d]
                                        \/ buckets'[d].last = now
      BY <1>2 DEF Admit, Limit, Accepts, ThreadFree, RL!allow
    <2> QED  BY <1>0, <2>1 DEF RInv, Timer
  <1>3. CASE WarmedUp
    BY <1>0, <1>3 DEF WarmedUp, RInv, Timer, limiter
  <1>4. CASE ReapTimer
    BY <1>0, <1>4 DEF ReapTimer, Due, RL!ReapStart, RInv, Timer
  <1>5. CASE ReapShard
    <2>1. LP!ReapShard /\ UNCHANGED run /\ reaping # 0 /\ UNCHANGED <<now, reapNow>>
      BY <1>5 DEF ReapShard, RL!ReapShard, LP!ReapShard, RL!Idle, LP!Idle, RL!Restrict, LP!Restrict
    <2>2. \A k \in DOMAIN buckets' :
             /\ k \in DOMAIN buckets /\ buckets'[k] = buckets[k]
             /\ ShardOf[k] <= reaping => ~LP!Idle(k) /\ ~LP!Idle(k)'
      BY <2>1, LP!ShardReaped, Limits DEF LP!LimiterAssumption, RInv
    <2>3. run # "warming" /\ reapNow = now /\ reapAt <= now /\ now <= reapAt
      BY <2>1 DEF RInv, Timer
    <2>4. CASE reaping' # 0
      <3>1. reapAt' = reapAt
        BY <1>5, <2>4 DEF ReapShard
      <3> QED  BY <1>0, <2>1, <2>2, <2>3, <3>1 DEF RInv, Timer
    <2>5. CASE reaping' = 0
      <3>1. reapAt' = now + ReapPeriod /\ reaping = Shards
        BY <1>0, <1>5, <2>1, <2>5 DEF ReapShard, LP!ReapShard, RInv, LP!Reaped
      <3>2. ASSUME NEW k \in DOMAIN buckets' PROVE now - buckets'[k].last <= IdleThreshold
        <4>1. k \in DOMAIN buckets /\ k \in Clients /\ buckets'[k] = buckets[k]
          BY <2>2, <3>2 DEF RInv, LP!Inv
        <4>2. ShardOf[k] <= reaping
          BY <3>1, <4>1, ProxyAssumption DEF ProxyAssumption, RL!LimiterAssumption
        <4>3. ~LP!Idle(k)
          BY <2>2, <3>2, <4>2
        <4> QED  BY <1>0, <2>3, <4>1, <4>3 DEF LP!Idle
      <3> QED  BY <1>0, <2>1, <2>3, <2>5, <3>1, <3>2 DEF Timer
    <2> QED  BY <2>4, <2>5
  <1>6. CASE Tick
    <2>1. /\ now' = now + 1 /\ UNCHANGED <<buckets, reaping, reapNow, reapAt, run>>
          /\ run # "warming" => now < reapAt
      BY <1>0, <1>6 DEF Tick, Due, RL!Tick
    <2>2. reaping = 0
      BY <1>0, <2>1 DEF RInv, Timer
    <2> QED  BY <1>0, <2>1, <2>2 DEF RInv, Timer
  <1>7. ASSUME NEW c \in Conns, Drop(c) \/ OptionThrows(c) \/ Arrive(c) \/ Write429(c)
                                \/ Drain429(c) \/ handle_client(c)
        PROVE  UNCHANGED <<limiter, reapAt>> /\ (run = "warming" <=> run' = "warming")
    BY <1>7 DEF Drop, OptionThrows, Arrive, Write429, Drain429, Send429, handle_client, Accepts
  <1>8. CASE AcceptThrows \/ Stop \/ MetricsAcceptThrows \/ UNCHANGED vars
    BY <1>1, <1>8 DEF AcceptThrows, Stop, MetricsAcceptThrows, others, vars
  <1>9. ASSUME NEW m \in Scrapes, ScrapeArrive(m) \/ metrics_listen(m) \/ serve_metrics(m)
        PROVE  UNCHANGED <<limiter, reapAt, run>>
    BY <1>9 DEF ScrapeArrive, metrics_listen, serve_metrics, ServeRead, ServeWrite, ServeDrain,
                ScrapeMoves, others
  <1> QED  BY <1>1, <1>2, <1>3, <1>4, <1>5, <1>6, <1>7, <1>8, <1>9 DEF Next, listen

LEMMA NextRInv == RInv /\ [Next]_vars => RInv'
  <1> SUFFICES ASSUME RInv, [Next]_vars PROVE RInv'
    OBVIOUS
  <1>1. LP!Inv' /\ LP!Reaped'
    BY LimiterStep, LP!NextInv, LP!NextReaped, Limits DEF LP!LimiterAssumption, RInv
  <1> QED  BY <1>1, NextTimer DEF RInv

\* reap_loop() (main.cpp:50-61) forgets a client within the idle threshold
\* and one period of its timer, whatever the listener, its clients and the
\* other coroutines do: for any clients, shards, threshold and period.
THEOREM Forgotten == Spec => []ForgottenInTime
  <1>1. RInv => ForgottenInTime
    <2> SUFFICES ASSUME RInv, NEW k \in DOMAIN buckets
                 PROVE  now - buckets[k].last <= IdleThreshold + ReapPeriod
      BY DEF ForgottenInTime
    <2>1. /\ now \in Int /\ reapAt \in Int /\ ReapPeriod \in Nat /\ IdleThreshold \in Nat
          /\ buckets[k].last \in Int
      BY ProxyAssumption DEF ProxyAssumption, RL!LimiterAssumption, RInv, LP!Inv, Timer
    <2>2. now <= reapAt /\ (reapAt - ReapPeriod) - buckets[k].last <= IdleThreshold
      BY DEF RInv, Timer
    <2> QED  BY <2>1, <2>2
  <1> QED  BY <1>1, InitRInv, NextRInv, PTL DEF Spec

-----------------------------------------------------------------------------
(* Type correctness. *)
Stages == {"absent", "queued", "dropped", "cut", "spawned", "write429", "drain429", "closed"}

Control ==
    /\ up \in BOOLEAN /\ run \in {"warming", "listening", "dead"}
    /\ arrived \in 0..NConns /\ cids <= taken
    /\ stage \in [Conns -> Stages]
    /\ admittedAt \in [Conns -> 0..now \cup {Never}]
    /\ phase \in [Conns -> {"waiting", "serving", "refusing", "done"}]
    /\ reapAt \in 0..MaxTime + ReapPeriod
    /\ metrics \in {"off", "listening", "dead"}
    /\ scrape \in [Scrapes -> {"absent", "queued", "read", "write", "drain", "closed"}]

KInv == CInv /\ RInv /\ LP!Clocks /\ Control

LEMMA NextControl == KInv /\ [Next]_vars => Control'
  <1> SUFFICES ASSUME KInv, [Next]_vars PROVE Control'
    OBVIOUS
  <1>0. /\ now \in 0..MaxTime /\ MaxTime \in Nat /\ ReapPeriod \in Nat /\ NConns \in Nat
        /\ cids \in Nat /\ taken \in Nat /\ arrived \in Nat
    BY ProxyAssumption DEF ProxyAssumption, RL!LimiterAssumption, KInv, LP!Clocks, CInv, AInv
  <1> USE DEF KInv
  <1>1. ASSUME NEW c \in Conns, Drop(c) \/ Admit(c) \/ Limit(c) \/ OptionThrows(c) PROVE Control'
    <2>1. /\ UNCHANGED <<up, arrived, service, reapAt, scraper, now>> /\ run' \in {run, "dead"}
          /\ taken' = taken + 1 /\ cids' \in {cids, cids + 1}
      BY <1>1 DEF Drop, Admit, Limit, OptionThrows, Accepts, generate, limiter, RL!allow
    <2>2. stage' \in [Conns -> Stages]
      <3>1. \E to \in Stages : stage' = [stage EXCEPT ![c] = to]
        BY <1>1, Zenon DEF Drop, Admit, Limit, OptionThrows, Accepts, Stages
      <3> QED  BY <3>1 DEF Control
    <2>3. admittedAt' \in [Conns -> 0..now \cup {Never}]
      <3>1. UNCHANGED admittedAt \/ admittedAt' = [admittedAt EXCEPT ![c] = now]
        BY <1>1, Zenon DEF Drop, Admit, Limit, OptionThrows
      <3>2. now \in 0..now
        BY <1>0
      <3> QED  BY <3>1, <3>2, Zenon DEF Control
    <2>4. cids' <= taken'
      BY <1>0, <2>1 DEF Control
    <2> QED  BY <2>1, <2>2, <2>3, <2>4 DEF Control, service, scraper
  <1>2. ASSUME NEW c \in Conns, Arrive(c) \/ Write429(c) \/ Drain429(c) PROVE Control'
    <2>1. UNCHANGED <<up, run, taken, cids, admittedAt, service, reapAt, scraper, now>>
      BY <1>2 DEF Arrive, Write429, Drain429, Send429, limiter
    <2>2. stage' \in [Conns -> Stages] /\ arrived' \in 0..NConns
      BY <1>0, <1>2 DEF Arrive, Write429, Drain429, Send429, Control, Stages, Conns
    <2> QED  BY <2>1, <2>2 DEF Control, service, scraper
  <1>3. ASSUME NEW c \in Conns, handle_client(c) PROVE Control'
    <2>1. UNCHANGED <<up, run, clients, limiter, reapAt, scraper>>
      BY <1>3 DEF handle_client
    <2>2. phase' \in [Conns -> {"waiting", "serving", "refusing", "done"}]
      BY <1>3 DEF handle_client, Begins, Ends, CS!Begin, CS!Finish, CS!Refuse, CS!Close, CS!Moves,
                  Control
    <2> QED  BY <2>1, <2>2 DEF Control, clients, limiter, scraper
  <1>4. CASE WarmedUp
    BY <1>0, <1>4 DEF WarmedUp, Control, clients, service, limiter
  <1>5. CASE Tick
    <2>1. now' = now + 1 /\ UNCHANGED <<up, run, clients, service, reapAt, scraper>>
      BY <1>5 DEF Tick, RL!Tick
    <2>2. admittedAt' \in [Conns -> 0..now' \cup {Never}]
      BY <1>0, <2>1 DEF Control, clients
    <2> QED  BY <2>1, <2>2 DEF Control, clients, service, scraper
  <1>6. CASE ReapTimer \/ ReapShard
    <2>1. UNCHANGED <<up, run, clients, service, scraper, now>> /\ reapAt' \in {reapAt, now + ReapPeriod}
      BY <1>6 DEF ReapTimer, ReapShard, RL!ReapStart, RL!ReapShard
    <2>2. reapAt' \in 0..MaxTime + ReapPeriod
      BY <1>0, <2>1 DEF Control
    <2> QED  BY <2>1, <2>2 DEF Control, clients, service, scraper
  <1>7. CASE AcceptThrows \/ Stop \/ MetricsAcceptThrows \/ UNCHANGED vars
    <2>1. /\ UNCHANGED <<clients, service, limiter, reapAt, scrape>>
          /\ up' \in {up, FALSE} /\ run' \in {run, "dead"} /\ metrics' \in {metrics, "dead"}
      BY <1>7, Zenon DEF AcceptThrows, Stop, MetricsAcceptThrows, others, scraper, vars
    <2> QED  BY <2>1, Zenon DEF Control, clients, service, limiter
  <1>8. ASSUME NEW m \in Scrapes, ScrapeArrive(m) \/ metrics_listen(m) \/ serve_metrics(m)
        PROVE  Control'
    <2>1. UNCHANGED <<others, metrics>>
      BY <1>8 DEF ScrapeArrive, metrics_listen, serve_metrics, ServeRead, ServeWrite, ServeDrain,
                  ScrapeMoves
    <2>2. scrape' \in [Scrapes -> {"absent", "queued", "read", "write", "drain", "closed"}]
      BY <1>8 DEF ScrapeArrive, metrics_listen, serve_metrics, ServeRead, ServeWrite, ServeDrain,
                  ScrapeMoves, Control
    <2> QED  BY <2>1, <2>2 DEF Control, others, clients, service, limiter
  <1> QED  BY <1>1, <1>2, <1>3, <1>4, <1>5, <1>6, <1>7, <1>8 DEF Next, listen

\* The state of the listener, of its limiter and of its counters keeps its
\* types (main.cpp:82-148): in particular no counter runs ahead of the
\* connections it counts, and fallbacks never ahead of requests.
THEOREM ProxyTypes == Spec => []TypeOK
  <1>1. Init => KInv
    <2> SUFFICES ASSUME Init PROVE KInv
      OBVIOUS
    <2>1. CInv /\ RInv
      BY InitAInv, InitRInv DEF CInv
    <2>2. LP!Clocks
      BY LP!InitReaped, Limits DEF LP!LimiterAssumption, Init, RL!Init, LP!Init
    <2>3. Control
      BY ProxyAssumption
      DEF ProxyAssumption, RL!LimiterAssumption, Init, RL!Init, CS!SInit, Control, Stages, Never
    <2> QED  BY <2>1, <2>2, <2>3 DEF KInv
  <1>2. KInv /\ [Next]_vars => KInv'
    <2> SUFFICES ASSUME KInv, [Next]_vars PROVE KInv'
      OBVIOUS
    <2>1. CInv' /\ RInv'
      BY NextCInv, NextRInv DEF KInv
    <2>2. LP!Clocks'
      BY LimiterStep, LP!NextClocks, Limits DEF LP!LimiterAssumption, KInv, RInv
    <2> QED  BY <2>1, <2>2, NextControl DEF KInv
  <1>3. KInv => TypeOK
    <2> SUFFICES ASSUME KInv PROVE TypeOK
      OBVIOUS
    <2>1. LP!TypeOK
      BY LP!TypesKept, Limits DEF LP!LimiterAssumption, KInv, RInv
    <2>2. RL!TypeOK
      BY <2>1 DEF LP!TypeOK, RL!TypeOK
    <2>3. taken \in 0..arrived /\ cids \in 0..taken
      BY DEF KInv, Control, CInv, AInv
    <2>4. rate_limited \in 0..cids /\ requests \in 0..cids /\ fallbacks \in 0..requests
      BY Sizes DEF KInv, CInv, AInv, Accounted
    <2> QED  BY <2>2, <2>3, <2>4 DEF TypeOK, KInv, Control, Stages
  <1> QED  BY <1>1, <1>2, <1>3, PTL DEF Spec
=============================================================================
