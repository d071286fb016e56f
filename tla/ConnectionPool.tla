--------------------------- MODULE ConnectionPool ---------------------------
(***************************************************************************)
(* ConnectionPool (connection_pool.cpp): warm_up() opens sockets for one   *)
(* backend after the other, acquire() hands one out or opens a new one,    *)
(* release() takes it back or drops it.  The class promises to be          *)
(* thread-safe (connection_pool.hpp:22), so callers interleave between any *)
(* two accesses to the shared state: a free list under its mutex, or the   *)
(* atomic count.  The outcome of connect() (resolve, connect, set_option)  *)
(* is up to the network.                                                   *)
(***************************************************************************)
EXTENDS Integers, SequencesExt, FiniteSetsExt

CONSTANTS
    NBackends,    \* backends_.size()
    MinPool,      \* min_pool_size of every backend
    Callers,      \* who calls acquire() and release()
    MaxSockets    \* bound: sockets opened at most

ASSUME PoolAssumption ==
    NBackends \in Nat /\ MinPool \in Nat /\ MaxSockets \in Nat /\ IsFiniteSet(Callers)

Backends == 1..NBackends
Sockets  == 1..MaxSockets       \* numbered as they are opened
NoSocket == 0

VARIABLES
    warm,           \* the loop variables of warm_up(): backend i, connect n
    free_sockets,   \* free_sockets_
    active_counts,  \* active_counts_
    at,             \* where each caller is
    backend,        \* the backend_index it has passed
    socket,         \* the socket it owns
    made,           \* sockets opened so far
    broken          \* history: sockets that were released as not reusable

call == <<at, backend, socket>>
vars == <<warm, free_sockets, active_counts, call, made, broken>>

Init ==
    /\ warm = [i |-> 1, n |-> 0]
    /\ free_sockets = [b \in Backends |-> <<>>]
    /\ active_counts = [b \in Backends |-> 0]
    /\ at = [c \in Callers |-> "out"]
    /\ backend = [c \in Callers |-> 0]
    /\ socket = [c \in Callers |-> NoSocket]
    /\ made = 0 /\ broken = {}

-----------------------------------------------------------------------------
\* Seeded fault: one iteration too many.
Warming_one_more == warm.i <= NBackends + 1 /\ MinPool > 0

\* The two loops of warm_up(): MinPool connects for each backend.
Warming == warm.i <= NBackends /\ MinPool > 0

Advance ==
    warm' = IF warm.n + 1 < MinPool THEN [i |-> warm.i, n |-> warm.n + 1]
                                    ELSE [i |-> warm.i + 1, n |-> 0]

connect == made < MaxSockets /\ made' = made + 1

WarmOk ==
    /\ Warming /\ connect /\ Advance
    /\ free_sockets' = [free_sockets EXCEPT ![warm.i] = Append(@, made')]
    /\ UNCHANGED <<active_counts, call, broken>>

\* Seeded fault: a failed connect starts the warm-up over.
WarmFail_starts_over ==
    /\ Warming /\ warm' = [i |-> 1, n |-> 0]
    /\ UNCHANGED <<free_sockets, active_counts, call, made, broken>>

\* The exception is caught and the loop goes on.
WarmFail ==
    /\ Warming /\ Advance
    /\ UNCHANGED <<free_sockets, active_counts, call, made, broken>>

\* acquire(b) is called; main() waits for warm_up() first.
Call(c, b) ==
    /\ ~Warming /\ at[c] = "out"
    /\ at' = [at EXCEPT ![c] = "acquire"]
    /\ backend' = [backend EXCEPT ![c] = b]
    /\ UNCHANGED <<warm, free_sockets, active_counts, socket, made, broken>>

\* The caller gets the socket, which counts as active.
HandOut(c, s) ==
    /\ active_counts' = [active_counts EXCEPT ![backend[c]] = @ + 1]
    /\ socket' = [socket EXCEPT ![c] = s]
    /\ at' = [at EXCEPT ![c] = "owner"]
    /\ UNCHANGED <<warm, backend, broken>>

\* Seeded fault: the socket stays on the free list.
Pop_copies(b) == UNCHANGED free_sockets

\* free_list.pop_back()
Pop(b) == free_sockets' = [free_sockets EXCEPT ![b] = Front(@)]

AcquireIdle(c) ==
    /\ at[c] = "acquire" /\ free_sockets[backend[c]] # <<>>
    /\ HandOut(c, Last(free_sockets[backend[c]])) /\ Pop(backend[c])
    /\ UNCHANGED made

\* Seeded fault: acquire() does not look at the free list.
Exhausted_always(b) == TRUE

Exhausted(b) == free_sockets[b] = <<>>

\* Seeded fault: acquire() waits until a socket is released.
AcquireEmpty_waits(c) == at[c] = "acquire" /\ Exhausted(backend[c]) /\ UNCHANGED vars

\* The pool is empty: acquire() suspends in connect().
AcquireEmpty(c) ==
    /\ at[c] = "acquire" /\ Exhausted(backend[c])
    /\ at' = [at EXCEPT ![c] = "connect"]
    /\ UNCHANGED <<warm, free_sockets, active_counts, backend, socket, made, broken>>

ConnectOk(c) ==
    /\ at[c] = "connect" /\ connect
    /\ HandOut(c, made') /\ UNCHANGED free_sockets

\* The call of acquire() or of release() is over.
Leave(c) ==
    /\ at' = [at EXCEPT ![c] = "out"]
    /\ backend' = [backend EXCEPT ![c] = 0]
    /\ socket' = [socket EXCEPT ![c] = NoSocket]

\* The exception reaches the caller of acquire().
ConnectFail(c) ==
    /\ at[c] = "connect" /\ Leave(c)
    /\ UNCHANGED <<warm, free_sockets, active_counts, made, broken>>

Recyclable(healthy, is_open) == healthy /\ is_open

\* Seeded fault: the early return comes before fetch_sub().
CountOut_recycled_only(c) ==
    active_counts' = [active_counts EXCEPT ![backend[c]] = IF at'[c] = "return" THEN @ - 1 ELSE @]

CountOut(c) == active_counts' = [active_counts EXCEPT ![backend[c]] = @ - 1]

\* release(b, socket, healthy): counted out, and dropped or on its way back.
release(c, healthy, is_open) ==
    /\ at[c] = "owner"
    /\ \/ /\ Recyclable(healthy, is_open)
          /\ at' = [at EXCEPT ![c] = "return"]
          /\ UNCHANGED <<backend, socket>>
       \/ ~Recyclable(healthy, is_open) /\ Leave(c)
    /\ CountOut(c)
    /\ broken' = broken \cup IF healthy /\ is_open THEN {} ELSE {socket[c]}
    /\ UNCHANGED <<warm, free_sockets, made>>

PushBack(c) ==
    /\ at[c] = "return" /\ Leave(c)
    /\ free_sockets' = [free_sockets EXCEPT ![backend[c]] = Append(@, socket[c])]
    /\ UNCHANGED <<warm, active_counts, made, broken>>

Acquiring(c) == AcquireIdle(c) \/ AcquireEmpty(c) \/ ConnectOk(c) \/ ConnectFail(c)

Next ==
    \/ WarmOk \/ WarmFail
    \/ \E c \in Callers :
          \/ \E b \in Backends : Call(c, b)
          \/ Acquiring(c) \/ PushBack(c)
          \/ \E healthy, is_open \in BOOLEAN : release(c, healthy, is_open)

Spec == Init /\ [][Next]_vars

\* A connect ends, one way or the other, and threads are scheduled.  Nobody
\* has to release anything.
FairSpec == Spec /\ WF_vars(WarmOk \/ WarmFail) /\ \A c \in Callers : WF_vars(Acquiring(c))

-----------------------------------------------------------------------------
(* Properties. *)

\* Types of the lists, the counts and the callers.
TypeOK ==
    /\ warm \in [i : 1..NBackends + 1, n : 0..MinPool] /\ made \in 0..MaxSockets
    /\ free_sockets \in [Backends -> Seq(Sockets)]
    /\ active_counts \in [Backends -> Int]
    /\ at \in [Callers -> {"out", "acquire", "connect", "owner", "return"}]
    /\ backend \in [Callers -> 0..NBackends]
    /\ socket \in [Callers -> Sockets \cup {NoSocket}]
    /\ broken \subseteq Sockets

\* Where a socket is: positions on the free lists, and callers that own it.
Listed(s)  == UNION {{<<b, j>> : j \in {i \in DOMAIN free_sockets[b] : free_sockets[b][i] = s}} : b \in Backends}
OwnedBy(s) == {c \in Callers : at[c] \in {"owner", "return"} /\ socket[c] = s}

\* A socket that was opened is in exactly one place: on one free list, or
\* with one caller, or dropped.  None is lost, none is shared, and one that
\* was released as broken is never handed out again.
OnePlace ==
    \A s \in 1..made :
        Cardinality(Listed(s)) + Cardinality(OwnedBy(s)) = IF s \in broken THEN 0 ELSE 1

\* active_counts_ is the number of callers between acquire() and release(),
\* at every moment that another thread may read it.
ActiveExact ==
    \A b \in Backends :
        active_counts[b] = Cardinality({c \in Callers : at[c] = "owner" /\ backend[c] = b})

\* The connections of a backend, those being opened included.
Connections(b) ==
    Len(free_sockets[b])
    + Cardinality({c \in Callers : at[c] \in {"connect", "owner", "return"} /\ backend[c] = b})

\* There is no limit in the code, but a new connection is opened only when no
\* idle one is left, so the pool of a backend never grows beyond its warm
\* size, or one connection for each concurrent caller.
PoolBounded == \A b \in Backends : Connections(b) <= Max({MinPool, Cardinality(Callers)})

\* acquire() opens a connection "rather than blocking" (connection_pool.hpp:37):
\* it returns or throws although nobody releases anything.
AcquireReturns == \A c \in Callers : at[c] = "acquire" ~> at[c] \in {"owner", "out"}

\* warm_up() ends, whichever connects fail, and callers can start.
WarmUpEnds == <>~Warming
=============================================================================
