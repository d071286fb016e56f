------------------------ MODULE ConnectionPoolProofs ------------------------
(***************************************************************************)
(* For any number of backends, callers and sockets: where a socket is, the *)
(* active count and the size of the pool.                                  *)
(***************************************************************************)
EXTENDS ConnectionPool, FiniteSetTheorems, SequenceTheorems, TLAPS

\* The types the proofs below use.
CallTypes ==
    /\ at \in [Callers -> {"out", "acquire", "connect", "owner", "return"}]
    /\ backend \in [Callers -> Int]
    /\ \A c \in Callers : at[c] # "out" => backend[c] \in Backends
    /\ socket \in [Callers -> Int]

Types ==
    /\ warm.i \in Nat \ {0} /\ warm.n \in Nat /\ made \in Nat
    /\ free_sockets \in [Backends -> Seq(Int)]
    /\ active_counts \in [Backends -> Int]
    /\ CallTypes

\* What pop_back() leaves.
LEMMA FrontIs ==
    ASSUME NEW q \in Seq(Int), q # <<>>
    PROVE  /\ Front(q) \in Seq(Int) /\ Len(q) \in Nat \ {0} /\ Last(q) = q[Len(q)]
           /\ Last(q) \in Int
           /\ Len(Front(q)) = Len(q) - 1
           /\ \A i \in 1..Len(q) - 1 : Front(q)[i] = q[i]
  <1>1. Len(q) \in Nat /\ Len(q) # 0 /\ \A i \in 1..Len(q) : q[i] \in Int
    OBVIOUS
  <1>2. Last(q) = q[Len(q)] /\ Last(q) \in Int
    BY <1>1 DEF Last
  <1>3. Front(q) = SubSeq(q, 1, Len(q) - 1)
    BY DEF Front
  <1>4. 1 \in Int /\ Len(q) - 1 \in Int /\ \A j \in 1..Len(q) - 1 : q[j] \in Int
    BY <1>1
  <1>5. /\ Front(q) \in Seq(Int)
        /\ Len(Front(q)) = IF 1 <= Len(q) - 1 THEN (Len(q) - 1) - 1 + 1 ELSE 0
        /\ \A i \in 1..(Len(q) - 1) - 1 + 1 : Front(q)[i] = q[1 + i - 1]
    BY <1>3, <1>4, SubSeqProperties
  <1>6. \A i \in 1..Len(q) - 1 : Front(q)[i] = q[i]
    BY <1>1, <1>5
  <1>7. Len(Front(q)) = Len(q) - 1
    <2> DEFINE k == Len(q)
               l == Len(Front(q))
    <2>1. k \in Nat /\ k # 0 /\ l = IF 1 <= k - 1 THEN (k - 1) - 1 + 1 ELSE 0
      BY <1>1, <1>5
    <2> HIDE DEF k, l
    <2>2. l = k - 1
      BY <2>1
    <2> QED  BY <2>2 DEF k, l
  <1> QED  BY <1>1, <1>2, <1>5, <1>6, <1>7

\* What push_back() adds.
LEMMA AppendIs ==
    ASSUME NEW q \in Seq(Int), NEW s \in Int
    PROVE  /\ Append(q, s) \in Seq(Int) /\ Len(q) \in Nat
           /\ Len(Append(q, s)) = Len(q) + 1
           /\ \A i \in 1..Len(q) : Append(q, s)[i] = q[i]
           /\ Append(q, s)[Len(q) + 1] = s
  OBVIOUS

LEMMA InitTypes == Init => Types
  BY DEF Init, Types, CallTypes, NoSocket

\* A caller moves on.
LEMMA MoveTypes ==
    ASSUME Types, NEW c \in Callers,
           \/ Leave(c)
           \/ \E s \in Int : at[c] \in {"acquire", "connect"} /\ HandOut(c, s)
    PROVE  CallTypes'
  <1>1. CASE Leave(c)
    BY <1>1 DEF Leave, Types, CallTypes, NoSocket
  <1>2. ASSUME NEW s \in Int, at[c] \in {"acquire", "connect"}, HandOut(c, s) PROVE CallTypes'
    BY <1>2 DEF HandOut, Types, CallTypes
  <1> QED  BY <1>1, <1>2

LEMMA NextTypes == Types /\ [Next]_vars => Types'
  <1> SUFFICES ASSUME Types, [Next]_vars PROVE Types'
    OBVIOUS
  <1>0. MinPool \in Nat /\ NBackends \in Nat
    BY PoolAssumption DEF PoolAssumption
  <1>1. CASE WarmOk
    <2>1. warm.i \in Backends
      BY <1>0, <1>1 DEF WarmOk, Warming, Backends, Types
    <2>2. free_sockets' \in [Backends -> Seq(Int)]
      BY <1>1, <2>1 DEF WarmOk, connect, Types
    <2>3. warm'.i \in Nat \ {0} /\ warm'.n \in Nat
      BY <1>0, <1>1 DEF WarmOk, Advance, Types
    <2> QED  BY <1>1, <2>2, <2>3 DEF WarmOk, connect, Types, CallTypes, call
  <1>2. CASE WarmFail
    BY <1>0, <1>2 DEF WarmFail, Advance, Types, CallTypes, call
  <1>3. ASSUME NEW c \in Callers, NEW b \in Backends, Call(c, b) PROVE Types'
    BY <1>0, <1>3 DEF Call, Types, CallTypes, Backends
  <1>4. ASSUME NEW c \in Callers, AcquireIdle(c) PROVE Types'
    <2>1. /\ backend[c] \in Backends /\ free_sockets[backend[c]] \in Seq(Int)
          /\ free_sockets[backend[c]] # <<>>
      BY <1>4 DEF AcquireIdle, Types, CallTypes
    <2>2. /\ Front(free_sockets[backend[c]]) \in Seq(Int)
          /\ Last(free_sockets[backend[c]]) \in Int
      BY <2>1, FrontIs
    <2>3. free_sockets' \in [Backends -> Seq(Int)]
      BY <1>4, <2>1, <2>2 DEF AcquireIdle, Pop, Types
    <2>4. CallTypes'
      BY <1>4, <2>2, MoveTypes DEF AcquireIdle
    <2>5. active_counts' \in [Backends -> Int]
      BY <1>4, <2>1 DEF AcquireIdle, HandOut, Types
    <2> QED  BY <1>4, <2>3, <2>4, <2>5 DEF AcquireIdle, HandOut, Types
  <1>5. ASSUME NEW c \in Callers, AcquireEmpty(c) \/ ConnectOk(c) \/ ConnectFail(c) PROVE Types'
    <2>1. CASE AcquireEmpty(c)
      BY <2>1 DEF AcquireEmpty, Types, CallTypes
    <2>2. CASE ConnectOk(c)
      <3>1. CallTypes'
        BY <2>2, MoveTypes DEF ConnectOk, connect, Types
      <3>2. active_counts' \in [Backends -> Int]
        BY <2>2 DEF ConnectOk, HandOut, Types, CallTypes
      <3> QED  BY <2>2, <3>1, <3>2 DEF ConnectOk, HandOut, connect, Types
    <2>3. CASE ConnectFail(c)
      BY <2>3, MoveTypes DEF ConnectFail, Types
    <2> QED  BY <1>5, <2>1, <2>2, <2>3
  <1>6. ASSUME NEW c \in Callers, NEW h \in BOOLEAN, NEW o \in BOOLEAN, release(c, h, o)
        PROVE  Types'
    <2>1. CallTypes'
      BY <1>6, MoveTypes, Zenon DEF release, Types, CallTypes
    <2>2. active_counts' \in [Backends -> Int]
      BY <1>6 DEF release, CountOut, Types, CallTypes
    <2> QED  BY <1>6, <2>1, <2>2 DEF release, Types
  <1>7. ASSUME NEW c \in Callers, PushBack(c) PROVE Types'
    <2>1. backend[c] \in Backends /\ socket[c] \in Int /\ free_sockets[backend[c]] \in Seq(Int)
      BY <1>7 DEF PushBack, Types, CallTypes
    <2>2. free_sockets' \in [Backends -> Seq(Int)]
      BY <1>7, <2>1, AppendIs DEF PushBack, Types
    <2> QED  BY <1>7, <2>2, MoveTypes DEF PushBack, Types
  <1>8. CASE UNCHANGED vars
    BY <1>8 DEF vars, call, Types, CallTypes
  <1> QED  BY <1>1, <1>2, <1>3, <1>4, <1>5, <1>6, <1>7, <1>8 DEF Next, Acquiring

-----------------------------------------------------------------------------
(* The active count. *)
Owners(b) == {c \in Callers : at[c] = "owner" /\ backend[c] = b}

Busy(b) == {c \in Callers : at[c] \in {"connect", "owner", "return"} /\ backend[c] = b}

LEMMA Counted ==
    ASSUME NEW S, S \subseteq Callers
    PROVE  IsFiniteSet(S) /\ Cardinality(S) \in Nat /\ Cardinality(S) <= Cardinality(Callers)
           /\ Cardinality(Callers) \in Nat
  BY PoolAssumption, FS_Subset, FS_CardinalityType DEF PoolAssumption

\* A caller gets a socket,
LEMMA OwnerIn ==
    ASSUME Types, NEW c \in Callers, at[c] \in {"acquire", "connect"}, NEW s, HandOut(c, s)
    PROVE  /\ backend[c] \in Backends /\ \A b \in Backends : c \notin Owners(b)
           /\ \A b \in Backends :
                 Owners(b)' = IF b = backend[c] THEN Owners(b) \cup {c} ELSE Owners(b)
  BY DEF HandOut, Types, CallTypes, Owners

\* or gives it back.
LEMMA OwnerOut ==
    ASSUME Types, NEW c \in Callers, NEW h, NEW o, release(c, h, o)
    PROVE  /\ backend[c] \in Backends /\ c \in Owners(backend[c])
           /\ \A b \in Backends : Owners(b)' = Owners(b) \ {c}
           /\ \A b \in Backends \ {backend[c]} : c \notin Owners(b)
  <1>1. at[c] = "owner" /\ backend[c] \in Backends
    BY DEF release, Types, CallTypes
  <1>2. (at' = [at EXCEPT ![c] = "return"] /\ backend' = backend) \/ Leave(c)
    BY DEF release
  <1> QED  BY <1>1, <1>2 DEF Leave, Types, CallTypes, Owners

\* The other steps do neither.
LEMMA OwnerSame ==
    ASSUME Types,
           \/ WarmOk \/ WarmFail \/ UNCHANGED vars
           \/ \E c \in Callers : \/ \E b \in Backends : Call(c, b)
                                 \/ AcquireEmpty(c) \/ ConnectFail(c) \/ PushBack(c)
    PROVE  UNCHANGED active_counts /\ \A b \in Backends : Owners(b)' = Owners(b)
  <1>1. CASE WarmOk \/ WarmFail \/ UNCHANGED vars
    BY <1>1 DEF WarmOk, WarmFail, vars, call, Owners
  <1>2. ASSUME NEW c \in Callers, NEW b \in Backends, Call(c, b)
        PROVE  UNCHANGED active_counts /\ \A d \in Backends : Owners(d)' = Owners(d)
    BY <1>2 DEF Call, Types, CallTypes, Owners
  <1>3. ASSUME NEW c \in Callers, AcquireEmpty(c)
        PROVE  UNCHANGED active_counts /\ \A d \in Backends : Owners(d)' = Owners(d)
    BY <1>3 DEF AcquireEmpty, Types, CallTypes, Owners
  <1>4. ASSUME NEW c \in Callers, ConnectFail(c) \/ PushBack(c)
        PROVE  UNCHANGED active_counts /\ \A d \in Backends : Owners(d)' = Owners(d)
    BY <1>4 DEF ConnectFail, PushBack, Leave, Types, CallTypes, Owners
  <1> QED  BY <1>1, <1>2, <1>3, <1>4

LEMMA NextActive == Types /\ ActiveExact /\ [Next]_vars => ActiveExact'
  <1> SUFFICES ASSUME Types, ActiveExact, [Next]_vars, NEW b \in Backends
               PROVE  active_counts'[b] = Cardinality(Owners(b)')
    BY DEF ActiveExact, Owners
  <1>1. active_counts[b] = Cardinality(Owners(b)) /\ active_counts[b] \in Int
        /\ DOMAIN active_counts = Backends
    BY DEF ActiveExact, Owners, Types
  <1>2. IsFiniteSet(Owners(b)) /\ Cardinality(Owners(b)) \in Nat
    BY Counted DEF Owners
  <1>3. ASSUME NEW c \in Callers, AcquireIdle(c) \/ ConnectOk(c)
        PROVE  active_counts'[b] = Cardinality(Owners(b)')
    <2>1. PICK s : HandOut(c, s) /\ at[c] \in {"acquire", "connect"}
      BY <1>3 DEF AcquireIdle, ConnectOk
    <2>2. CASE b = backend[c]
      <3>1. Owners(b)' = Owners(b) \cup {c} /\ c \notin Owners(b)
        BY <2>1, <2>2, OwnerIn
      <3>2. Cardinality(Owners(b)') = Cardinality(Owners(b)) + 1
        BY <1>2, <3>1, FS_AddElement, Zenon
      <3> QED  BY <1>1, <2>1, <2>2, <3>2 DEF HandOut
    <2>3. CASE b # backend[c]
      BY <1>1, <2>1, <2>3, OwnerIn, Zenon DEF HandOut
    <2> QED  BY <2>2, <2>3
  <1>4. ASSUME NEW c \in Callers, NEW h \in BOOLEAN, NEW o \in BOOLEAN, release(c, h, o)
        PROVE  active_counts'[b] = Cardinality(Owners(b)')
    <2>1. active_counts' = [active_counts EXCEPT ![backend[c]] = @ - 1]
      BY <1>4 DEF release, CountOut
    <2>2. CASE b = backend[c]
      BY <1>1, <1>2, <1>4, <2>1, <2>2, OwnerOut, FS_RemoveElement
    <2>3. CASE b # backend[c]
      <3>1. Owners(b)' = Owners(b)
        BY <1>4, <2>3, OwnerOut
      <3> QED  BY <1>1, <2>1, <2>3, <3>1
    <2> QED  BY <2>2, <2>3
  <1>5. CASE UNCHANGED active_counts /\ \A d \in Backends : Owners(d)' = Owners(d)
    BY <1>1, <1>5
  <1> QED  BY <1>3, <1>4, <1>5, OwnerSame DEF Next, Acquiring

\* active_counts_ (connection_pool.cpp:56, 62, 68) counts the callers that own
\* a socket, for any number of threads and however acquire() ends.
THEOREM ActiveCountExact == Spec => []ActiveExact
  <1>1. Init => ActiveExact
    <2> SUFFICES ASSUME Init, NEW b \in Backends PROVE active_counts[b] = Cardinality(Owners(b))
      BY DEF ActiveExact, Owners
    <2>1. Owners(b) = {}
      BY DEF Init, Owners
    <2> QED  BY <2>1, FS_EmptySet DEF Init
  <1> QED  BY <1>1, InitTypes, NextTypes, NextActive, PTL DEF Spec

-----------------------------------------------------------------------------
(* The size of the pool. *)
Bound == Max({MinPool, Cardinality(Callers)})

LEMMA BoundIs == Bound \in Nat /\ MinPool <= Bound /\ Cardinality(Callers) <= Bound
  <1> DEFINE k == Cardinality(Callers)
  <1>1. MinPool \in Nat /\ k \in Nat
    BY PoolAssumption, FS_CardinalityType DEF PoolAssumption
  <1> HIDE DEF k
  <1>2. \E x \in {MinPool, k} : \A y \in {MinPool, k} : x >= y
    <2>1. CASE MinPool >= k
      BY <1>1, <2>1
    <2>2. CASE k >= MinPool
      BY <1>1, <2>2
    <2> QED  BY <1>1, <2>1, <2>2
  <1>3. Max({MinPool, k}) \in {MinPool, k} /\ \A y \in {MinPool, k} : Max({MinPool, k}) >= y
    BY <1>2 DEF Max
  <1> QED  BY <1>1, <1>3 DEF Bound, k

\* During the warm-up nobody has called, and no list is longer than the loops
\* have come.
WarmInv ==
    Warming =>
        /\ \A c \in Callers : at[c] = "out"
        /\ warm.n < MinPool
        /\ \A b \in Backends : /\ b > warm.i => Len(free_sockets[b]) = 0
                               /\ b = warm.i => Len(free_sockets[b]) <= warm.n

SInv ==
    /\ Types /\ WarmInv
    /\ \A b \in Backends : Len(free_sockets[b]) + Cardinality(Busy(b)) <= Bound

LEMMA Lengths ==
    ASSUME Types, NEW b \in Backends
    PROVE  Len(free_sockets[b]) \in Nat /\ free_sockets[b] \in Seq(Int)
           /\ IsFiniteSet(Busy(b)) /\ Cardinality(Busy(b)) \in Nat
           /\ Cardinality(Busy(b)) <= Cardinality(Callers) /\ Cardinality(Callers) \in Nat
  BY Counted DEF Types, Busy

LEMMA WarmSInv ==
    ASSUME SInv, Types', WarmOk \/ WarmFail
    PROVE  SInv'
  <1>1. /\ Warming /\ Advance /\ UNCHANGED <<at, backend>>
        /\ warm.n < MinPool /\ warm.i \in Backends
    BY PoolAssumption DEF WarmOk, WarmFail, call, SInv, WarmInv, Warming, Types, Backends, PoolAssumption
  <1>2. \A b \in Backends : Busy(b) = {} /\ Busy(b)' = {}
    BY <1>1, Zenon DEF SInv, WarmInv, Busy, Types, CallTypes
  <1>3. \A b \in Backends : Cardinality(Busy(b)) = 0 /\ Cardinality(Busy(b)') = 0
    BY <1>2, FS_EmptySet
  <1>4. \A b \in Backends : /\ b # warm.i => free_sockets'[b] = free_sockets[b]
                            /\ b = warm.i => Len(free_sockets'[b]) <= Len(free_sockets[b]) + 1
                            /\ Len(free_sockets'[b]) \in Nat /\ Len(free_sockets[b]) \in Nat
    <2>1. CASE WarmFail
      BY <2>1, Lengths DEF WarmFail, SInv
    <2>2. CASE WarmOk
      <3>1. PICK x \in Int : free_sockets' = [free_sockets EXCEPT ![warm.i] = Append(@, x)]
        <4>1. made' \in Int
          BY DEF Types
        <4>2. free_sockets' = [free_sockets EXCEPT ![warm.i] = Append(@, made')]
          BY <2>2, Zenon DEF WarmOk
        <4> QED  BY <4>1, <4>2, Zenon
      <3>2. free_sockets \in [Backends -> Seq(Int)]
        BY DEF SInv, Types
      <3> DEFINE q == free_sockets[warm.i]
      <3>3. /\ q \in Seq(Int) /\ free_sockets'[warm.i] = Append(q, x)
            /\ \A b \in Backends : b # warm.i => free_sockets'[b] = free_sockets[b]
        BY <1>1, <3>1, <3>2
      <3> HIDE DEF q
      <3>4. Len(Append(q, x)) = Len(q) + 1 /\ Len(q) \in Nat
        BY <3>3, AppendIs
      <3>5. \A b \in Backends : Len(free_sockets[b]) \in Nat
        BY Lengths DEF SInv
      <3> QED  BY <3>3, <3>4, <3>5 DEF q
    <2> QED  BY <2>1, <2>2
  <1>5. MinPool \in Nat /\ NBackends \in Nat /\ warm.i \in Nat /\ warm.n \in Nat
    BY PoolAssumption DEF PoolAssumption, SInv, Types
  <1>6. ASSUME NEW b \in Backends PROVE Len(free_sockets'[b]) + Cardinality(Busy(b)') <= Bound
    <2>1. Len(free_sockets[b]) <= Bound /\ Len(free_sockets[warm.i]) <= warm.n
      BY <1>1, <1>3, <1>4 DEF SInv, WarmInv
    <2>2. Len(free_sockets'[b]) <= Bound
      BY <1>1, <1>4, <1>5, <2>1, BoundIs
    <2> QED  BY <1>3, <1>4, <2>2
  <1>7. Len(free_sockets'[warm.i]) <= warm.n + 1
    <2>1. Len(free_sockets[warm.i]) <= warm.n
      BY <1>1 DEF SInv, WarmInv
    <2>2. /\ Len(free_sockets'[warm.i]) <= Len(free_sockets[warm.i]) + 1
          /\ Len(free_sockets'[warm.i]) \in Nat /\ Len(free_sockets[warm.i]) \in Nat
      BY <1>1, <1>4
    <2> QED  BY <1>5, <2>1, <2>2
  <1>8. ASSUME NEW b \in Backends, b > warm.i PROVE Len(free_sockets'[b]) = 0
    <2>1. Len(free_sockets[b]) = 0
      BY <1>1, <1>8 DEF SInv, WarmInv
    <2>2. b # warm.i
      BY <1>5, <1>8 DEF Backends
    <2> QED  BY <1>4, <2>1, <2>2, Zenon
  <1>9. WarmInv'
    <2>1. \A c \in Callers : at'[c] = "out"
      BY <1>1 DEF SInv, WarmInv
    <2>2. CASE warm.n + 1 < MinPool
      <3>1. warm' = [i |-> warm.i, n |-> warm.n + 1]
        BY <1>1, <2>2 DEF Advance
      <3>2. warm'.i = warm.i /\ warm'.n = warm.n + 1
        BY <3>1
      <3> QED  BY <1>7, <1>8, <2>1, <2>2, <3>2, Zenon DEF WarmInv
    <2>3. CASE ~(warm.n + 1 < MinPool)
      <3>1. warm' = [i |-> warm.i + 1, n |-> 0]
        BY <1>1, <2>3 DEF Advance
      <3>2. warm'.i = warm.i + 1 /\ warm'.n = 0
        BY <3>1
      <3>3. ASSUME NEW b \in Backends PROVE /\ b > warm'.i => Len(free_sockets'[b]) = 0
                                            /\ b = warm'.i => Len(free_sockets'[b]) <= warm'.n
        <4>1. b >= warm'.i => b > warm.i
          BY <1>5, <3>2 DEF Backends
        <4>2. b > warm.i => Len(free_sockets'[b]) = 0
          BY <1>8
        <4> QED  BY <1>5, <3>2, <4>1, <4>2 DEF Backends
      <3>4. Warming' => warm'.n < MinPool
        BY <1>5, <3>2 DEF Warming
      <3> QED  BY <2>1, <3>3, <3>4, Zenon DEF WarmInv
    <2> QED  BY <2>2, <2>3
  <1> QED  BY <1>6, <1>9 DEF SInv

\* A caller moves to st, keeping its backend or leaving.
MovesTo(c, st) == \/ at' = [at EXCEPT ![c] = st] /\ UNCHANGED backend
                  \/ Leave(c) /\ st = "out"

BusyAt == {"connect", "owner", "return"}

\* It becomes busy, stays so, or stops being so.
LEMMA BecomesBusy ==
    ASSUME Types, NEW c \in Callers, at[c] = "acquire", NEW st \in BusyAt, MovesTo(c, st),
           NEW b \in Backends
    PROVE  Cardinality(Busy(b)') = Cardinality(Busy(b)) + IF b = backend[c] THEN 1 ELSE 0
  <1>1. at' = [at EXCEPT ![c] = st] /\ UNCHANGED backend
    BY DEF MovesTo, BusyAt
  <1>2. IsFiniteSet(Busy(b)) /\ Cardinality(Busy(b)) \in Nat /\ c \notin Busy(b)
    BY Lengths DEF Busy
  <1>3. CASE b = backend[c]
    <2>1. Busy(b)' = Busy(b) \cup {c}
      BY <1>1, <1>3 DEF Types, CallTypes, Busy, BusyAt
    <2>2. Cardinality(Busy(b) \cup {c}) = Cardinality(Busy(b)) + 1
      BY <1>2, FS_AddElement, Zenon
    <2> QED  BY <1>3, <2>1, <2>2
  <1>4. CASE b # backend[c]
    <2>1. Busy(b)' = Busy(b)
      BY <1>1, <1>4 DEF Types, CallTypes, Busy
    <2> QED  BY <1>2, <1>4, <2>1
  <1> QED  BY <1>3, <1>4

LEMMA StaysBusy ==
    ASSUME Types, NEW c \in Callers, at[c] \in BusyAt, NEW st \in BusyAt, MovesTo(c, st),
           NEW b \in Backends
    PROVE  Cardinality(Busy(b)') = Cardinality(Busy(b))
  <1>1. at' = [at EXCEPT ![c] = st] /\ UNCHANGED backend
    BY DEF MovesTo, BusyAt
  <1>2. Busy(b)' = Busy(b)
    BY <1>1 DEF Types, CallTypes, Busy, BusyAt
  <1> QED  BY <1>2

LEMMA StopsBusy ==
    ASSUME Types, NEW c \in Callers, at[c] \in BusyAt, Leave(c), NEW b \in Backends
    PROVE  Cardinality(Busy(b)') = Cardinality(Busy(b)) - IF b = backend[c] THEN 1 ELSE 0
  <1>1. IsFiniteSet(Busy(b)) /\ Cardinality(Busy(b)) \in Nat
    BY Lengths
  <1>2. CASE b = backend[c]
    <2>1. Busy(b)' = Busy(b) \ {c} /\ c \in Busy(b)
      BY <1>2 DEF Leave, Types, CallTypes, Busy, BusyAt
    <2>2. Cardinality(Busy(b) \ {c}) = Cardinality(Busy(b)) - 1
      BY <1>1, <2>1, FS_RemoveElement, Zenon
    <2> QED  BY <1>2, <2>1, <2>2
  <1>3. CASE b # backend[c]
    <2>1. Busy(b)' = Busy(b)
      BY <1>3, PoolAssumption DEF Leave, Types, CallTypes, Busy, BusyAt, Backends, PoolAssumption
    <2> QED  BY <1>1, <1>3, <2>1
  <1> QED  BY <1>2, <1>3

\* The list of backend b and its busy callers after a caller's step.
LEMMA CallerSize ==
    ASSUME SInv, NEW c \in Callers, NEW b \in Backends,
           AcquireIdle(c) \/ AcquireEmpty(c) \/ ConnectOk(c) \/ ConnectFail(c) \/ PushBack(c)
             \/ \E h, o \in BOOLEAN : release(c, h, o)
    PROVE  Len(free_sockets'[b]) + Cardinality(Busy(b)') <= Bound
  <1> DEFINE l == Len(free_sockets[b])
             l1 == Len(free_sockets'[b])
             k == Cardinality(Busy(b))
             k1 == Cardinality(Busy(b)')
  <1>0. /\ Types /\ Bound \in Nat /\ DOMAIN free_sockets = Backends
        /\ l + k <= Bound /\ l \in Nat /\ k \in Nat /\ free_sockets[b] \in Seq(Int)
    BY BoundIs, Lengths DEF SInv, Types
  <1>1. CASE AcquireIdle(c)
    <2>1. at[c] = "acquire" /\ MovesTo(c, "owner")
      BY <1>1 DEF AcquireIdle, HandOut, MovesTo
    <2>2. k1 = k + IF b = backend[c] THEN 1 ELSE 0
      BY <1>0, <2>1, BecomesBusy DEF BusyAt
    <2>3. l1 = l - IF b = backend[c] THEN 1 ELSE 0
      <3>1. CASE b = backend[c]
        <4>1. free_sockets'[b] = Front(free_sockets[b]) /\ free_sockets[b] # <<>>
          BY <1>0, <1>1, <3>1 DEF AcquireIdle, Pop
        <4> QED  BY <1>0, <3>1, <4>1, FrontIs
      <3>2. CASE b # backend[c]
        BY <1>0, <1>1, <3>2 DEF AcquireIdle, Pop
      <3> QED  BY <3>1, <3>2, Zenon
    <2> HIDE DEF l, l1, k, k1
    <2>4. l1 + k1 <= Bound
      BY <1>0, <2>2, <2>3
    <2> QED  BY <2>4 DEF l1, k1
  <1>2. CASE AcquireEmpty(c)
    <2>1. at[c] = "acquire" /\ MovesTo(c, "connect") /\ l1 = l
      BY <1>2 DEF AcquireEmpty, MovesTo
    <2>2. k1 = k + IF b = backend[c] THEN 1 ELSE 0
      BY <1>0, <2>1, BecomesBusy DEF BusyAt
    <2>3. b = backend[c] => l = 0
      BY <1>2 DEF AcquireEmpty, Exhausted
    <2>4. k1 <= Bound
      <3>1. Busy(b)' \subseteq Callers
        BY DEF Busy
      <3> QED  BY <3>1, Counted, BoundIs
    <2> HIDE DEF l, l1, k, k1
    <2>5. l1 + k1 <= Bound
      BY <1>0, <2>1, <2>2, <2>3, <2>4
    <2> QED  BY <2>5 DEF l1, k1
  <1>3. CASE ConnectOk(c)
    <2>1. at[c] \in BusyAt /\ MovesTo(c, "owner") /\ l1 = l
      BY <1>3 DEF ConnectOk, HandOut, MovesTo, BusyAt
    <2>2. k1 = k
      BY <1>0, <2>1, StaysBusy DEF BusyAt
    <2> QED  BY <1>0, <2>1, <2>2
  <1>4. CASE ConnectFail(c)
    <2>1. at[c] \in BusyAt /\ Leave(c) /\ l1 = l
      BY <1>4 DEF ConnectFail, BusyAt
    <2>2. k1 = k - IF b = backend[c] THEN 1 ELSE 0
      BY <1>0, <2>1, StopsBusy
    <2> HIDE DEF l, l1, k, k1
    <2>3. l1 + k1 <= Bound
      BY <1>0, <2>1, <2>2
    <2> QED  BY <2>3 DEF l1, k1
  <1>5. CASE PushBack(c)
    <2>1. at[c] \in BusyAt /\ Leave(c) /\ socket[c] \in Int
      BY <1>0, <1>5 DEF PushBack, BusyAt, Types, CallTypes
    <2>2. k1 = k - IF b = backend[c] THEN 1 ELSE 0
      BY <1>0, <2>1, StopsBusy
    <2>3. l1 = l + IF b = backend[c] THEN 1 ELSE 0
      <3>1. CASE b = backend[c]
        <4>1. free_sockets'[b] = Append(free_sockets[b], socket[c])
          BY <1>0, <1>5, <3>1 DEF PushBack
        <4> QED  BY <1>0, <2>1, <3>1, <4>1, AppendIs
      <3>2. CASE b # backend[c]
        BY <1>0, <1>5, <3>2 DEF PushBack
      <3> QED  BY <3>1, <3>2, Zenon
    <2> HIDE DEF l, l1, k, k1
    <2>4. l1 + k1 <= Bound
      BY <1>0, <2>2, <2>3
    <2> QED  BY <2>4 DEF l1, k1
  <1>6. ASSUME NEW h \in BOOLEAN, NEW o \in BOOLEAN, release(c, h, o)
        PROVE  l1 + k1 <= Bound
    <2>1. at[c] \in BusyAt /\ l1 = l /\ (MovesTo(c, "return") \/ Leave(c))
      BY <1>6 DEF release, BusyAt, MovesTo
    <2>2. k1 = k \/ k1 = k - IF b = backend[c] THEN 1 ELSE 0
      BY <1>0, <2>1, StaysBusy, StopsBusy DEF BusyAt
    <2> HIDE DEF l, l1, k, k1
    <2> QED  BY <1>0, <2>1, <2>2
  <1> QED  BY <1>1, <1>2, <1>3, <1>4, <1>5, <1>6

LEMMA NextSInv == SInv /\ [Next]_vars => SInv'
  <1> SUFFICES ASSUME SInv, [Next]_vars PROVE SInv'
    OBVIOUS
  <1>0. Types /\ Types'
    BY NextTypes DEF SInv
  <1>1. CASE WarmOk \/ WarmFail
    BY <1>0, <1>1, WarmSInv
  <1>2. ASSUME NEW c \in Callers, NEW b \in Backends, Call(c, b) PROVE SInv'
    <2>1. ~Warming' /\ UNCHANGED free_sockets
      BY <1>2 DEF Call, Warming
    <2>2. \A d \in Backends : Busy(d)' = Busy(d)
      BY <1>0, <1>2 DEF Call, Types, CallTypes, Busy
    <2> QED  BY <1>0, <2>1, <2>2 DEF SInv, WarmInv
  <1>3. ASSUME NEW c \in Callers,
               Acquiring(c) \/ PushBack(c) \/ \E h, o \in BOOLEAN : release(c, h, o)
        PROVE  SInv'
    <2>1. at[c] # "out" /\ UNCHANGED warm
      BY <1>3 DEF Acquiring, AcquireIdle, AcquireEmpty, ConnectOk, HandOut, ConnectFail, PushBack, release
    <2>2. WarmInv'
      BY <2>1 DEF SInv, WarmInv, Warming
    <2> QED  BY <1>0, <1>3, <2>2, CallerSize DEF SInv, Acquiring
  <1>4. CASE UNCHANGED vars
    BY <1>0, <1>4 DEF vars, call, SInv, WarmInv, Warming, Busy
  <1> QED  BY <1>1, <1>2, <1>3, <1>4 DEF Next

\* acquire() opens a connection only when no idle one is left
\* (connection_pool.cpp:53-60): a backend never has more than its warm
\* connections, or one for each concurrent caller.
THEOREM PoolStaysBounded == Spec => []PoolBounded
  <1>1. Init => SInv
    <2> SUFFICES ASSUME Init PROVE SInv
      OBVIOUS
    <2>1. \A b \in Backends : Busy(b) = {} /\ Len(free_sockets[b]) = 0
      BY DEF Init, Busy
    <2>2. ASSUME NEW b \in Backends PROVE Len(free_sockets[b]) + Cardinality(Busy(b)) <= Bound
      <3>1. Cardinality(Busy(b)) = 0 /\ Len(free_sockets[b]) = 0
        BY <2>1, FS_EmptySet, Zenon
      <3> QED  BY <3>1, BoundIs
    <2>3. WarmInv
      BY <2>1, PoolAssumption DEF Init, WarmInv, Warming, PoolAssumption
    <2> QED  BY <2>2, <2>3, InitTypes DEF SInv
  <1>2. SInv => PoolBounded
    BY Zenon DEF SInv, PoolBounded, Connections, Busy, Bound
  <1> QED  BY <1>1, <1>2, NextSInv, PTL DEF Spec

-----------------------------------------------------------------------------
(***************************************************************************)
(* A socket of the pool is on one free list, with one caller, or closed.   *)
(***************************************************************************)
\* Sockets are numbered as they are opened, so a new one is nowhere yet.
Known ==
    /\ \A b \in Backends : \A j \in DOMAIN free_sockets[b] : free_sockets[b][j] \in 1..made
    /\ \A c \in Callers : at[c] \in {"owner", "return"} => socket[c] \in 1..made
    /\ broken \subseteq 1..made

LInv ==
    /\ Types /\ Known /\ OnePlace
    /\ \A s \in Int : IsFiniteSet(Listed(s))

LEMMA ListedIs ==
    ASSUME NEW s, NEW b \in Backends, NEW j
    PROVE  <<b, j>> \in Listed(s) <=> j \in DOMAIN free_sockets[b] /\ free_sockets[b][j] = s
  BY DEF Listed

\* push_back() adds one place,
LEMMA PushPlaces ==
    ASSUME Types, NEW b \in Backends, NEW x \in Int,
           free_sockets' = [free_sockets EXCEPT ![b] = Append(@, x)], NEW s \in Int
    PROVE  /\ s # x => Listed(s)' = Listed(s)
           /\ s = x => /\ Listed(s)' = Listed(s) \cup {<<b, Len(free_sockets[b]) + 1>>}
                       /\ <<b, Len(free_sockets[b]) + 1>> \notin Listed(s)
  <1> DEFINE q == free_sockets[b]
             n == Len(q)
  <1>1. q \in Seq(Int) /\ free_sockets'[b] = Append(q, x) /\ n \in Nat
    BY DEF Types
  <1>2. \A d \in Backends \ {b} : free_sockets'[d] = free_sockets[d]
    BY DEF Types
  <1>3. /\ DOMAIN Append(q, x) = 1..n + 1 /\ DOMAIN q = 1..n
        /\ \A i \in 1..n : Append(q, x)[i] = q[i]
        /\ Append(q, x)[n + 1] = x
    BY <1>1, AppendIs
  <1> HIDE DEF q, n
  <1>4. ASSUME NEW y
        PROVE  {<<b, j>> : j \in {i \in DOMAIN Append(q, x) : Append(q, x)[i] = y}}
                 = {<<b, j>> : j \in {i \in DOMAIN q : q[i] = y}}
                   \cup IF y = x THEN {<<b, n + 1>>} ELSE {}
    BY <1>1, <1>3
  <1>5. Listed(s)' = Listed(s) \cup IF s = x THEN {<<b, n + 1>>} ELSE {}
    <2> DEFINE P(f, d) == {<<d, j>> : j \in {i \in DOMAIN f[d] : f[d][i] = s}}
    <2>1. /\ Listed(s) = UNION {P(free_sockets, d) : d \in Backends}
          /\ Listed(s)' = UNION {P(free_sockets', d) : d \in Backends}
      BY DEF Listed
    <2>2. P(free_sockets', b) = P(free_sockets, b) \cup IF s = x THEN {<<b, n + 1>>} ELSE {}
      <3>1. P(free_sockets', b) = {<<b, j>> : j \in {i \in DOMAIN Append(q, x) : Append(q, x)[i] = s}}
        BY <1>1, Zenon
      <3>2. P(free_sockets, b) = {<<b, j>> : j \in {i \in DOMAIN q : q[i] = s}}
        BY Zenon DEF q
      <3> HIDE DEF P
      <3> QED  BY <1>4, <3>1, <3>2, Zenon
    <2>3. \A d \in Backends \ {b} : P(free_sockets', d) = P(free_sockets, d)
      BY <1>2
    <2> HIDE DEF P
    <2> QED  BY <2>1, <2>2, <2>3, Zenon
  <1>6. <<b, n + 1>> \notin Listed(s)
    <2>1. n + 1 \notin DOMAIN free_sockets[b]
      BY <1>1, <1>3 DEF q
    <2> QED  BY <2>1, ListedIs
  <1> QED  BY <1>5, <1>6 DEF n, q

\* and pop_back() removes one.
LEMMA PopPlaces ==
    ASSUME Types, NEW b \in Backends, free_sockets[b] # <<>>, Pop(b), NEW s \in Int
    PROVE  /\ s # Last(free_sockets[b]) => Listed(s)' = Listed(s)
           /\ s = Last(free_sockets[b]) =>
                 /\ Listed(s)' = Listed(s) \ {<<b, Len(free_sockets[b])>>}
                 /\ <<b, Len(free_sockets[b])>> \in Listed(s)
  <1> DEFINE q == free_sockets[b]
             n == Len(q)
             x == Last(q)
  <1>1. q \in Seq(Int) /\ q # <<>> /\ free_sockets'[b] = Front(q)
    BY DEF Types, Pop
  <1>2. \A d \in Backends \ {b} : free_sockets'[d] = free_sockets[d]
    BY DEF Types, Pop
  <1>3. /\ n \in Nat \ {0} /\ DOMAIN Front(q) = 1..n - 1 /\ DOMAIN q = 1..n
        /\ \A i \in 1..n - 1 : Front(q)[i] = q[i]
        /\ q[n] = x
    <2>1. /\ n \in Nat \ {0} /\ Front(q) \in Seq(Int) /\ Len(Front(q)) = n - 1
          /\ \A i \in 1..n - 1 : Front(q)[i] = q[i]
          /\ q[n] = x
      BY <1>1, FrontIs, Zenon
    <2>2. DOMAIN q = 1..n /\ DOMAIN Front(q) = 1..Len(Front(q))
      BY <1>1, <2>1, LenProperties
    <2> QED  BY <2>1, <2>2
  <1> HIDE DEF q, n, x
  <1>4. ASSUME NEW y
        PROVE  {<<b, j>> : j \in {i \in DOMAIN Front(q) : Front(q)[i] = y}}
                 = {<<b, j>> : j \in {i \in DOMAIN q : q[i] = y}}
                   \ IF y = x THEN {<<b, n>>} ELSE {}
    BY <1>3
  <1>5. Listed(s)' = Listed(s) \ IF s = x THEN {<<b, n>>} ELSE {}
    <2> DEFINE P(f, d) == {<<d, j>> : j \in {i \in DOMAIN f[d] : f[d][i] = s}}
    <2>1. /\ Listed(s) = UNION {P(free_sockets, d) : d \in Backends}
          /\ Listed(s)' = UNION {P(free_sockets', d) : d \in Backends}
      BY DEF Listed
    <2>2. P(free_sockets', b) = P(free_sockets, b) \ IF s = x THEN {<<b, n>>} ELSE {}
      <3>1. P(free_sockets', b) = {<<b, j>> : j \in {i \in DOMAIN Front(q) : Front(q)[i] = s}}
        BY <1>1, Zenon
      <3>2. P(free_sockets, b) = {<<b, j>> : j \in {i \in DOMAIN q : q[i] = s}}
        BY Zenon DEF q
      <3> HIDE DEF P
      <3> QED  BY <1>4, <3>1, <3>2, Zenon
    <2>3. ASSUME NEW d \in Backends \ {b}
          PROVE  P(free_sockets', d) = P(free_sockets, d) /\ <<b, n>> \notin P(free_sockets, d)
      BY <1>2, <2>3
    <2> HIDE DEF P
    <2> QED  BY <2>1, <2>2, <2>3
  <1>6. s = x => <<b, n>> \in Listed(s)
    <2>1. n \in DOMAIN free_sockets[b] /\ free_sockets[b][n] = x
      BY <1>3 DEF q
    <2> QED  BY <2>1, ListedIs
  <1> QED  BY <1>5, <1>6 DEF n, q, x

\* A caller becomes an owner, or is one no more.
LEMMA OwnedIn ==
    ASSUME Types, NEW c \in Callers, at[c] \notin {"owner", "return"}, NEW x, HandOut(c, x), NEW s
    PROVE  OwnedBy(s)' = (OwnedBy(s) \cup IF s = x THEN {c} ELSE {}) /\ c \notin OwnedBy(s)
  BY DEF Types, CallTypes, HandOut, OwnedBy

LEMMA OwnedOut ==
    ASSUME Types, NEW c \in Callers, at[c] \in {"owner", "return"}, Leave(c), NEW s
    PROVE  /\ OwnedBy(s)' = OwnedBy(s) \ {c}
           /\ c \in OwnedBy(s) <=> s = socket[c]
  BY DEF Types, CallTypes, Leave, OwnedBy

\* The steps that move no socket.
LEMMA OwnedSame ==
    ASSUME Types,
           \/ WarmOk \/ WarmFail \/ UNCHANGED vars
           \/ \E c \in Callers :
                 \/ \E b \in Backends : Call(c, b)
                 \/ AcquireEmpty(c) \/ ConnectFail(c)
                 \/ at[c] = "owner" /\ at' = [at EXCEPT ![c] = "return"] /\ UNCHANGED socket
    PROVE  /\ \A s : OwnedBy(s)' = OwnedBy(s)
           /\ \A c \in Callers : at'[c] \in {"owner", "return"} =>
                                    at[c] \in {"owner", "return"} /\ socket'[c] = socket[c]
  <1>1. CASE WarmOk \/ WarmFail \/ UNCHANGED vars
    BY <1>1 DEF WarmOk, WarmFail, vars, call, OwnedBy
  <1>2. ASSUME NEW c \in Callers,
               \/ \E b \in Backends : Call(c, b)
               \/ AcquireEmpty(c)
               \/ at[c] = "owner" /\ at' = [at EXCEPT ![c] = "return"] /\ UNCHANGED socket
        PROVE  /\ \A s : OwnedBy(s)' = OwnedBy(s)
               /\ \A d \in Callers : at'[d] \in {"owner", "return"} =>
                                        at[d] \in {"owner", "return"} /\ socket'[d] = socket[d]
    BY <1>2 DEF Call, AcquireEmpty, Types, CallTypes, OwnedBy
  <1>3. ASSUME NEW c \in Callers, ConnectFail(c)
        PROVE  /\ \A s : OwnedBy(s)' = OwnedBy(s)
               /\ \A d \in Callers : at'[d] \in {"owner", "return"} =>
                                        at[d] \in {"owner", "return"} /\ socket'[d] = socket[d]
    BY <1>3 DEF ConnectFail, Leave, Types, CallTypes, OwnedBy
  <1> QED  BY <1>1, <1>2, <1>3

Places(s) == Cardinality(Listed(s)) + Cardinality(OwnedBy(s))

LEMMA Finite ==
    ASSUME LInv, NEW s \in Int
    PROVE  /\ IsFiniteSet(Listed(s)) /\ Cardinality(Listed(s)) \in Nat
           /\ IsFiniteSet(OwnedBy(s)) /\ Cardinality(OwnedBy(s)) \in Nat
  BY FS_CardinalityType, Counted DEF LInv, OwnedBy

\* A new socket is nowhere.
LEMMA Fresh ==
    ASSUME LInv
    PROVE  /\ Listed(made + 1) = {} /\ OwnedBy(made + 1) = {} /\ made + 1 \notin broken
           /\ Places(made + 1) = 0 /\ made \in Nat
  <1>1. made \in Nat /\ made + 1 \notin 1..made
    BY DEF LInv, Types
  <1>2. Listed(made + 1) = {} /\ OwnedBy(made + 1) = {} /\ made + 1 \notin broken
    BY <1>1 DEF LInv, Known, Listed, OwnedBy
  <1>3. Places(made + 1) = 0
    BY <1>2, FS_EmptySet DEF Places
  <1> QED  BY <1>1, <1>2, <1>3

\* One place more in one set, or less.
LEMMA SetSizes ==
    ASSUME NEW S, IsFiniteSet(S), NEW e
    PROVE  /\ IsFiniteSet(S \cup {e}) /\ IsFiniteSet(S \ {e})
           /\ e \notin S => Cardinality(S \cup {e}) = Cardinality(S) + 1
           /\ e \in S => Cardinality(S \ {e}) = Cardinality(S) - 1
  BY FS_AddElement, FS_RemoveElement

LEMMA WarmPlaces ==
    ASSUME LInv, Types', WarmOk
    PROVE  LInv'
  <1> DEFINE x == made + 1
  <1>1. /\ warm.i \in Backends /\ made' = x /\ UNCHANGED broken
        /\ free_sockets' = [free_sockets EXCEPT ![warm.i] = Append(@, x)]
    BY PoolAssumption DEF WarmOk, connect, Warming, Backends, LInv, Types, PoolAssumption
  <1>2. Types /\ x \in Int /\ made \in Nat
    BY DEF LInv, Types
  <1>3. /\ \A s : OwnedBy(s)' = OwnedBy(s)
        /\ \A c \in Callers : at'[c] \in {"owner", "return"} =>
                                 at[c] \in {"owner", "return"} /\ socket'[c] = socket[c]
    BY <1>2, OwnedSame
  <1>4. ASSUME NEW s \in Int
        PROVE  /\ IsFiniteSet(Listed(s)')
               /\ Places(s)' = IF s = x THEN 1 ELSE Places(s)
    <2>1. CASE s = x
      <3>1. Listed(s)' = Listed(s) \cup {<<warm.i, Len(free_sockets[warm.i]) + 1>>}
            /\ <<warm.i, Len(free_sockets[warm.i]) + 1>> \notin Listed(s)
        BY <1>1, <1>2, <2>1, PushPlaces, Zenon
      <3>2. IsFiniteSet(Listed(s)') /\ Cardinality(Listed(s)') = Cardinality(Listed(s)) + 1
        BY <3>1, Finite, SetSizes, Zenon
      <3> QED  BY <1>3, <2>1, <3>2, Fresh, Finite DEF Places
    <2>2. CASE s # x
      <3>1. Listed(s)' = Listed(s)
        BY <1>1, <1>2, <2>2, PushPlaces, Zenon
      <3> QED  BY <1>3, <2>2, <3>1, Finite DEF Places
    <2> QED  BY <2>1, <2>2
  <1>5. OnePlace'
    <2> SUFFICES ASSUME NEW s \in 1..x PROVE Places(s)' = IF s \in broken THEN 0 ELSE 1
      BY <1>1 DEF OnePlace, Places
    <2>1. CASE s = x
      BY <1>2, <1>4, <2>1, Fresh
    <2>2. CASE s # x
      <3>1. s \in 1..made
        BY <1>2, <2>2
      <3> QED  BY <1>4, <2>2, <3>1 DEF LInv, OnePlace, Places
    <2> QED  BY <2>1, <2>2
  <1>6. Known'
    <2>1. ASSUME NEW b \in Backends, NEW j \in DOMAIN free_sockets'[b]
          PROVE  free_sockets'[b][j] \in 1..x
      <3>1. CASE b = warm.i
        <4> DEFINE q == free_sockets[b]
        <4>1. q \in Seq(Int) /\ free_sockets'[b] = Append(q, x)
          BY <1>1, <1>2, <3>1 DEF Types
        <4>2. \A i \in 1..Len(q) : q[i] \in 1..made
          BY <4>1 DEF LInv, Known
        <4> HIDE DEF q
        <4> QED  BY <1>2, <2>1, <4>1, <4>2, AppendIs
      <3>2. CASE b # warm.i
        <4>1. free_sockets'[b] = free_sockets[b]
          BY <1>1, <1>2, <3>2 DEF Types
        <4> QED  BY <1>2, <2>1, <4>1 DEF LInv, Known
      <3> QED  BY <3>1, <3>2
    <2> QED  BY <1>1, <1>2, <1>3, <2>1 DEF LInv, Known
  <1> QED  BY <1>4, <1>5, <1>6 DEF LInv

\* acquire() opens a socket for its caller.
LEMMA ConnectPlaces ==
    ASSUME LInv, Types', NEW c \in Callers, ConnectOk(c)
    PROVE  LInv'
  <1> DEFINE x == made + 1
  <1>1. /\ made' = x /\ UNCHANGED <<broken, free_sockets>> /\ HandOut(c, x)
        /\ at[c] \notin {"owner", "return"}
    BY DEF ConnectOk, connect, HandOut
  <1>2. Types /\ x \in Int /\ made \in Nat
    BY DEF LInv, Types
  <1>3. ASSUME NEW s \in Int
        PROVE  Listed(s)' = Listed(s) /\ Places(s)' = IF s = x THEN 1 ELSE Places(s)
    <2>0. Listed(s)' = Listed(s)
      BY <1>1 DEF Listed
    <2>1. CASE s = x
      <3>1. OwnedBy(s)' = OwnedBy(s) \cup {c} /\ c \notin OwnedBy(s)
        BY <1>1, <1>2, <2>1, OwnedIn
      <3>2. Cardinality(OwnedBy(s)') = Cardinality(OwnedBy(s)) + 1
        BY <3>1, Finite, SetSizes, Zenon
      <3> QED  BY <2>0, <2>1, <3>2, Fresh, Finite DEF Places
    <2>2. CASE s # x
      <3>1. OwnedBy(s)' = OwnedBy(s)
        BY <1>1, <1>2, <2>2, OwnedIn
      <3> QED  BY <2>0, <2>2, <3>1 DEF Places
    <2> QED  BY <2>1, <2>2
  <1>4. OnePlace'
    <2> SUFFICES ASSUME NEW s \in 1..x PROVE Places(s)' = IF s \in broken THEN 0 ELSE 1
      BY <1>1 DEF OnePlace, Places
    <2>1. CASE s = x
      BY <1>2, <1>3, <2>1, Fresh
    <2>2. CASE s # x
      <3>1. s \in 1..made
        BY <1>2, <2>2
      <3> QED  BY <1>3, <2>2, <3>1 DEF LInv, OnePlace, Places
    <2> QED  BY <2>1, <2>2
  <1>5. Known'
    BY <1>1, <1>2 DEF LInv, Known, HandOut, Types, CallTypes
  <1> QED  BY <1>3, <1>4, <1>5 DEF LInv

\* A socket moves between a free list and a caller.
LEMMA MovePlaces ==
    ASSUME LInv, Types', NEW c \in Callers, AcquireIdle(c) \/ PushBack(c)
    PROVE  LInv'
  <1> DEFINE b == backend[c]
             q == free_sockets[b]
             x == IF at[c] = "return" THEN socket[c] ELSE Last(q)
  <1>1. /\ Types /\ b \in Backends /\ UNCHANGED <<made, broken>> /\ q \in Seq(Int) /\ made \in Nat
        /\ \A i \in DOMAIN q : q[i] \in 1..made
    BY Zenon DEF LInv, Known, Types, CallTypes, AcquireIdle, HandOut, PushBack
  <1>2. x \in 1..made
    <2>1. CASE AcquireIdle(c)
      <3>1. x = Last(q) /\ q # <<>>
        BY <2>1 DEF AcquireIdle
      <3>2. Last(q) = q[Len(q)] /\ Len(q) \in Nat \ {0} /\ DOMAIN q = 1..Len(q)
        BY <1>1, <3>1, FrontIs, LenProperties
      <3> HIDE DEF x, q
      <3> QED  BY <1>1, <3>1, <3>2
    <2>2. CASE PushBack(c)
      BY <2>2 DEF PushBack, LInv, Known
    <2> QED  BY <2>1, <2>2
  <1>3. ASSUME NEW s \in Int PROVE IsFiniteSet(Listed(s)') /\ Places(s)' = Places(s)
    <2>1. CASE AcquireIdle(c)
      <3>1. q # <<>> /\ Pop(b) /\ HandOut(c, x) /\ x = Last(q) /\ at[c] \notin {"owner", "return"}
        BY <2>1 DEF AcquireIdle
      <3>2. /\ s # x => Listed(s)' = Listed(s)
            /\ s = x => Listed(s)' = Listed(s) \ {<<b, Len(q)>>} /\ <<b, Len(q)>> \in Listed(s)
        BY <1>1, <3>1, PopPlaces
      <3>3. OwnedBy(s)' = (OwnedBy(s) \cup IF s = x THEN {c} ELSE {}) /\ c \notin OwnedBy(s)
        BY <1>1, <3>1, OwnedIn
      <3> HIDE DEF x, q, b
      <3>4. CASE s = x
        <4>1. IsFiniteSet(Listed(s)') /\ Cardinality(Listed(s)') = Cardinality(Listed(s)) - 1
          <5> DEFINE e == <<b, Len(q)>>
          <5>1. Listed(s)' = Listed(s) \ {e} /\ e \in Listed(s) /\ IsFiniteSet(Listed(s))
            BY <3>2, <3>4, Finite
          <5> HIDE DEF e
          <5> QED  BY <5>1, SetSizes
        <4>2. Cardinality(OwnedBy(s)') = Cardinality(OwnedBy(s)) + 1
          BY <3>3, <3>4, Finite, SetSizes, Zenon
        <4> QED  BY <4>1, <4>2, Finite DEF Places
      <3>5. CASE s # x
        BY <3>2, <3>3, <3>5, Finite DEF Places
      <3> QED  BY <3>4, <3>5
    <2>2. CASE PushBack(c)
      <3>1. /\ free_sockets' = [free_sockets EXCEPT ![b] = Append(@, x)]
            /\ at[c] \in {"owner", "return"} /\ Leave(c) /\ x = socket[c] /\ x \in Int
        BY <1>1, <1>2, <2>2 DEF PushBack
      <3>2. /\ s # x => Listed(s)' = Listed(s)
            /\ s = x => /\ Listed(s)' = Listed(s) \cup {<<b, Len(q) + 1>>}
                        /\ <<b, Len(q) + 1>> \notin Listed(s)
        <4> HIDE DEF x, b
        <4> QED  BY <1>1, <3>1, PushPlaces, Zenon
      <3>3. OwnedBy(s)' = OwnedBy(s) \ {c} /\ (c \in OwnedBy(s) <=> s = x)
        BY <1>1, <3>1, OwnedOut
      <3> HIDE DEF x, q, b
      <3>4. CASE s = x
        <4>1. IsFiniteSet(Listed(s)') /\ Cardinality(Listed(s)') = Cardinality(Listed(s)) + 1
          <5> DEFINE e == <<b, Len(q) + 1>>
          <5>1. Listed(s)' = Listed(s) \cup {e} /\ e \notin Listed(s) /\ IsFiniteSet(Listed(s))
            BY <3>2, <3>4, Finite
          <5> HIDE DEF e
          <5> QED  BY <5>1, SetSizes
        <4>2. Cardinality(OwnedBy(s)') = Cardinality(OwnedBy(s)) - 1
          BY <3>3, <3>4, Finite, SetSizes, Zenon
        <4> QED  BY <4>1, <4>2, Finite DEF Places
      <3>5. CASE s # x
        <4>1. OwnedBy(s)' = OwnedBy(s)
          BY <3>3, <3>5
        <4> QED  BY <3>2, <3>5, <4>1, Finite DEF Places
      <3> QED  BY <3>4, <3>5
    <2> QED  BY <2>1, <2>2
  <1>4. OnePlace'
    <2>1. \A s \in 1..made : Places(s)' = Places(s)
      BY <1>3
    <2> QED  BY <1>1, <2>1 DEF LInv, OnePlace, Places
  <1>5. Known'
    <2>1. CASE AcquireIdle(c)
      <3>1. \A d \in Backends : \A j \in DOMAIN free_sockets'[d] : free_sockets'[d][j] \in 1..made
        <4>1. ASSUME NEW d \in Backends, NEW j \in DOMAIN free_sockets'[d], d = b
              PROVE  free_sockets'[d][j] \in 1..made
          <5>1. q # <<>> /\ free_sockets'[d] = Front(q)
            BY <1>1, <2>1, <4>1 DEF AcquireIdle, Pop, Types
          <5> HIDE DEF q
          <5>2. /\ Front(q) \in Seq(Int) /\ Len(Front(q)) = Len(q) - 1 /\ Len(q) \in Nat
                /\ \A i \in 1..Len(q) - 1 : Front(q)[i] = q[i]
            BY <1>1, <5>1, FrontIs
          <5>3. DOMAIN q = 1..Len(q) /\ DOMAIN Front(q) = 1..Len(Front(q))
            BY <1>1, <5>2, LenProperties
          <5>4. j \in 1..Len(q) - 1
            BY <4>1, <5>1, <5>2, <5>3
          <5>5. Front(q)[j] = q[j] /\ q[j] \in 1..made
            BY <1>1, <5>2, <5>3, <5>4
          <5> QED  BY <5>1, <5>5
        <4>2. ASSUME NEW d \in Backends, d # b PROVE free_sockets'[d] = free_sockets[d]
          BY <1>1, <2>1, <4>2 DEF AcquireIdle, Pop, Types
        <4> QED  BY <4>1, <4>2 DEF LInv, Known
      <3>2. \A d \in Callers : at'[d] \in {"owner", "return"} => socket'[d] \in 1..made
        <4>1. HandOut(c, x)
          BY <2>1 DEF AcquireIdle
        <4> HIDE DEF x
        <4> QED  BY <1>1, <1>2, <4>1 DEF HandOut, LInv, Known, Types, CallTypes
      <3> QED  BY <1>1, <3>1, <3>2 DEF LInv, Known
    <2>2. CASE PushBack(c)
      <3>1. \A d \in Backends : \A j \in DOMAIN free_sockets'[d] : free_sockets'[d][j] \in 1..made
        <4>1. ASSUME NEW d \in Backends, NEW j \in DOMAIN free_sockets'[d], d = b
              PROVE  free_sockets'[d][j] \in 1..made
          <5>1. free_sockets'[d] = Append(q, x)
            BY <1>1, <2>2, <4>1 DEF PushBack, Types
          <5>2. x \in Int /\ DOMAIN q = 1..Len(q)
            BY <1>1, <1>2, LenProperties
          <5> HIDE DEF q, x
          <5> QED  BY <1>1, <1>2, <4>1, <5>1, <5>2, AppendIs
        <4>2. ASSUME NEW d \in Backends, d # b PROVE free_sockets'[d] = free_sockets[d]
          BY <1>1, <2>2, <4>2 DEF PushBack, Types
        <4> QED  BY <4>1, <4>2 DEF LInv, Known
      <3>2. \A d \in Callers : at'[d] \in {"owner", "return"} => socket'[d] \in 1..made
        BY <1>1, <2>2 DEF PushBack, Leave, LInv, Known, Types, CallTypes
      <3> QED  BY <1>1, <3>1, <3>2 DEF LInv, Known
    <2> QED  BY <2>1, <2>2
  <1> QED  BY <1>3, <1>4, <1>5 DEF LInv

\* A socket that is not recycled is nowhere any more.
LEMMA DropPlaces ==
    ASSUME LInv, Types', NEW c \in Callers, at[c] = "owner", Leave(c),
           UNCHANGED <<free_sockets, made>>, broken' = broken \cup {socket[c]}
    PROVE  LInv'
  <1>0. PICK x \in 1..made : x = socket[c]
    BY DEF LInv, Known
  <1>1. Types /\ x \in Int
    BY DEF LInv
  <1>2. \A s \in Int : Listed(s)' = Listed(s)
    BY DEF Listed
  <1>3. \A s \in Int : OwnedBy(s)' = OwnedBy(s) \ {c} /\ (c \in OwnedBy(s) <=> s = x)
    BY <1>0, <1>1, OwnedOut
  <1>4. Places(x)' = 0
    <2>1. Cardinality(OwnedBy(x)') = Cardinality(OwnedBy(x)) - 1 /\ Cardinality(OwnedBy(x)') \in Nat
      <3>1. OwnedBy(x)' \subseteq Callers
        BY DEF OwnedBy
      <3> QED  BY <1>1, <1>3, <3>1, Finite, SetSizes, Counted, Zenon
    <2>2. Places(x) <= 1 /\ Places(x) = Cardinality(Listed(x)) + Cardinality(OwnedBy(x))
      BY <1>1 DEF LInv, OnePlace, Places
    <2>3. Cardinality(Listed(x)) \in Nat /\ Cardinality(OwnedBy(x)) \in Nat
      BY <1>1, Finite
    <2>4. Cardinality(Listed(x)) = 0 /\ Cardinality(OwnedBy(x)') = 0
      BY <2>1, <2>2, <2>3
    <2>5. Listed(x)' = Listed(x)
      BY <1>1, <1>2
    <2> QED  BY <2>4, <2>5 DEF Places
  <1>5. ASSUME NEW s \in Int, s # x PROVE Places(s)' = Places(s)
    <2>1. OwnedBy(s)' = OwnedBy(s) /\ Listed(s)' = Listed(s)
      BY <1>2, <1>3, <1>5
    <2> QED  BY <2>1 DEF Places
  <1>6. OnePlace'
    <2> SUFFICES ASSUME NEW s \in 1..made PROVE Places(s)' = IF s \in broken' THEN 0 ELSE 1
      BY DEF OnePlace, Places
    <2>1. CASE s = x
      BY <1>0, <1>4, <2>1
    <2>2. CASE s # x
      <3>1. Places(s) = IF s \in broken THEN 0 ELSE 1
        BY DEF LInv, OnePlace, Places
      <3> QED  BY <1>0, <1>5, <2>2, <3>1
    <2> QED  BY <2>1, <2>2
  <1>7. Known'
    BY <1>0, <1>1, Zenon DEF LInv, Known, Leave, Types, CallTypes
  <1> QED  BY <1>2, <1>6, <1>7 DEF LInv

\* Nothing moves.
LEMMA StillPlaces ==
    ASSUME LInv, Types', UNCHANGED <<free_sockets, made, broken>>,
           \A s : OwnedBy(s)' = OwnedBy(s),
           \A c \in Callers : at'[c] \in {"owner", "return"} =>
                                 at[c] \in {"owner", "return"} /\ socket'[c] = socket[c]
    PROVE  LInv'
  <1>1. \A s \in Int : Listed(s)' = Listed(s)
    BY DEF Listed
  <1>2. OnePlace'
    <2> SUFFICES ASSUME NEW s \in 1..made
                 PROVE  Cardinality(Listed(s)') + Cardinality(OwnedBy(s)')
                          = IF s \in broken THEN 0 ELSE 1
      BY DEF OnePlace
    <2>1. Listed(s)' = Listed(s) /\ OwnedBy(s)' = OwnedBy(s)
      BY <1>1
    <2> QED  BY <2>1 DEF LInv, OnePlace
  <1>3. Known'
    BY DEF LInv, Known
  <1> QED  BY <1>1, <1>2, <1>3 DEF LInv

LEMMA NextLInv == LInv /\ [Next]_vars => LInv'
  <1> SUFFICES ASSUME LInv, [Next]_vars PROVE LInv'
    OBVIOUS
  <1>0. Types /\ Types'
    BY NextTypes DEF LInv
  <1>1. CASE WarmOk
    BY <1>0, <1>1, WarmPlaces
  <1>2. CASE WarmFail \/ UNCHANGED vars
    <2>1. UNCHANGED <<free_sockets, made, broken>>
      BY <1>2 DEF WarmFail, vars
    <2> QED  BY <1>0, <1>2, <2>1, OwnedSame, StillPlaces
  <1>3. ASSUME NEW c \in Callers,
               (\E b \in Backends : Call(c, b)) \/ AcquireEmpty(c) \/ ConnectFail(c)
        PROVE  LInv'
    <2>1. UNCHANGED <<free_sockets, made, broken>>
      BY <1>3 DEF Call, AcquireEmpty, ConnectFail
    <2> QED  BY <1>0, <1>3, <2>1, OwnedSame, StillPlaces
  <1>4. ASSUME NEW c \in Callers, AcquireIdle(c) \/ PushBack(c) PROVE LInv'
    BY <1>0, <1>4, MovePlaces
  <1>5. ASSUME NEW c \in Callers, ConnectOk(c) PROVE LInv'
    BY <1>0, <1>5, ConnectPlaces
  <1>6. ASSUME NEW c \in Callers, NEW h \in BOOLEAN, NEW o \in BOOLEAN, release(c, h, o)
        PROVE  LInv'
    <2>1. CASE h /\ o
      <3>1. /\ at[c] = "owner" /\ at' = [at EXCEPT ![c] = "return"]
            /\ UNCHANGED <<socket, free_sockets, made, broken>>
        BY <1>6, <2>1 DEF release, Recyclable
      <3> QED  BY <1>0, <3>1, OwnedSame, StillPlaces, Zenon
    <2>2. CASE ~(h /\ o)
      <3>1. /\ at[c] = "owner" /\ Leave(c) /\ UNCHANGED <<free_sockets, made>>
            /\ broken' = broken \cup {socket[c]}
        BY <1>6, <2>2 DEF release, Recyclable
      <3> QED  BY <1>0, <3>1, DropPlaces
    <2> QED  BY <2>1, <2>2
  <1> QED  BY <1>1, <1>2, <1>3, <1>4, <1>5, <1>6 DEF Next, Acquiring

LEMMA InitPlaces == Init => LInv
  <1> SUFFICES ASSUME Init PROVE LInv
    OBVIOUS
  <1>1. \A s \in Int : Listed(s) = {}
    BY DEF Init, Listed
  <1>2. \A s \in Int : IsFiniteSet(Listed(s))
    BY <1>1, FS_EmptySet
  <1>3. Known /\ OnePlace
    BY DEF Init, Known, OnePlace
  <1> QED  BY <1>2, <1>3, InitTypes DEF LInv

\* No socket is lost, shared or handed out after it was released as broken
\* (connection_pool.cpp:49-75), for any number of threads and backends.
THEOREM SocketsInOnePlace == Spec => []OnePlace
  <1>1. LInv => OnePlace
    BY DEF LInv
  <1> QED  BY <1>1, InitPlaces, NextLInv, PTL DEF Spec

-----------------------------------------------------------------------------
(* Type correctness. *)
Ranges ==
    /\ warm \in [i : 1..NBackends + 1, n : 0..MinPool] /\ made \in 0..MaxSockets
    /\ backend \in [Callers -> 0..NBackends] /\ socket \in [Callers -> 0..made]

LEMMA NextRanges == LInv /\ Ranges /\ [Next]_vars => Ranges'
  <1> SUFFICES ASSUME LInv, Ranges, [Next]_vars PROVE Ranges'
    OBVIOUS
  <1>0. MinPool \in Nat /\ NBackends \in Nat /\ MaxSockets \in Nat
    BY PoolAssumption DEF PoolAssumption
  <1>1. ASSUME Warming, Advance PROVE warm' \in [i : 1..NBackends + 1, n : 0..MinPool]
    BY <1>0, <1>1 DEF Warming, Advance, Ranges
  <1>2. ASSUME connect PROVE made' \in 0..MaxSockets /\ made' \in Nat /\ made < made'
    BY <1>0, <1>2 DEF connect, Ranges
  <1>3. CASE WarmOk
    <2>1. socket' \in [Callers -> 0..made']
      BY <1>2, <1>3 DEF WarmOk, call, Ranges
    <2> QED  BY <1>1, <1>2, <1>3, <2>1 DEF WarmOk, call, Ranges
  <1>4. CASE WarmFail
    BY <1>1, <1>4 DEF WarmFail, call, Ranges
  <1>5. ASSUME NEW c \in Callers, Leave(c), UNCHANGED <<warm, made>> PROVE Ranges'
    BY <1>0, <1>5 DEF Leave, Ranges, NoSocket
  <1>6. ASSUME NEW c \in Callers, NEW b \in Backends, Call(c, b) PROVE Ranges'
    BY <1>0, <1>6 DEF Call, Ranges, Backends
  <1>7. ASSUME NEW c \in Callers, AcquireIdle(c) PROVE Ranges'
    <2> DEFINE q == free_sockets[backend[c]]
    <2>1. backend[c] \in Backends /\ q \in Seq(Int) /\ q # <<>>
      BY <1>7 DEF AcquireIdle, LInv, Types, CallTypes
    <2>2. Len(q) \in Nat \ {0} /\ Last(q) = q[Len(q)]
      BY <2>1, FrontIs
    <2>3. Last(q) \in 0..made
      BY <2>1, <2>2 DEF LInv, Known, Types
    <2> QED  BY <1>7, <2>3 DEF AcquireIdle, HandOut, Ranges
  <1>8. ASSUME NEW c \in Callers, ConnectOk(c) PROVE Ranges'
    <2>1. socket' \in [Callers -> 0..made']
      BY <1>2, <1>8 DEF ConnectOk, HandOut, Ranges
    <2> QED  BY <1>2, <1>8, <2>1 DEF ConnectOk, HandOut, Ranges
  <1>9. ASSUME NEW c \in Callers, AcquireEmpty(c) \/ ConnectFail(c) \/ PushBack(c) PROVE Ranges'
    BY <1>5, <1>9 DEF AcquireEmpty, ConnectFail, PushBack, Ranges
  <1>10. ASSUME NEW c \in Callers, NEW h \in BOOLEAN, NEW o \in BOOLEAN, release(c, h, o)
         PROVE  Ranges'
    BY <1>5, <1>10 DEF release, Ranges
  <1>11. CASE UNCHANGED vars
    BY <1>11 DEF vars, call, Ranges
  <1> QED
    BY <1>3, <1>4, <1>6, <1>7, <1>8, <1>9, <1>10, <1>11 DEF Next, Acquiring

\* The loop variables of warm_up(), the lists, the counts and the callers
\* (connection_pool.cpp:12-75) keep their types; only a socket that was
\* opened is ever on a list or with a caller.
THEOREM PoolTypes == Spec => []TypeOK
  <1>1. Init => Ranges
    BY PoolAssumption DEF Init, Ranges, NoSocket, PoolAssumption
  <1>2. LInv /\ Ranges => TypeOK
    <2> SUFFICES ASSUME LInv, Ranges PROVE TypeOK
      OBVIOUS
    <2>0. MaxSockets \in Nat /\ made \in 0..MaxSockets /\ 0..made \subseteq Sockets \cup {NoSocket}
          /\ 1..made \subseteq Sockets
      BY PoolAssumption DEF PoolAssumption, Ranges, Sockets, NoSocket
    <2>1. free_sockets \in [Backends -> Seq(Sockets)]
      <3> SUFFICES ASSUME NEW b \in Backends PROVE free_sockets[b] \in Seq(Sockets)
        BY DEF LInv, Types
      <3>1. free_sockets[b] \in Seq(Int) /\ \A j \in 1..Len(free_sockets[b]) : free_sockets[b][j] \in Sockets
        BY <2>0 DEF LInv, Types, Known
      <3> QED  BY <3>1
    <2>2. socket \in [Callers -> Sockets \cup {NoSocket}]
      BY <2>0 DEF Ranges
    <2>3. broken \subseteq Sockets
      BY <2>0 DEF LInv, Known
    <2> QED  BY <2>1, <2>2, <2>3 DEF TypeOK, LInv, Types, CallTypes, Ranges
  <1> QED  BY <1>1, <1>2, InitPlaces, NextLInv, NextRanges, PTL DEF Spec
=============================================================================
