------------------------------- MODULE Session ------------------------------
(***************************************************************************)
(* handle_client() (session.cpp): every client connection is a coroutine   *)
(* that picks a backend on the ring, asks its breaker, takes a connection  *)
(* from the pool, replays what the client has sent so far, relays bytes in *)
(* both directions, and either is done or tries the next backend.  The     *)
(* breakers (BreakerOps), the pool (connection_pool.cpp), the ring         *)
(* (RingOps) and the metrics (metrics.hpp) are shared by all sessions.     *)
(*                                                                         *)
(* Steps.  main() runs io_context(1) on one thread, so a coroutine gives   *)
(* way to others only where it suspends in a co_await.  An action is what  *)
(* runs between two suspensions, with one exception: an iteration of the   *)
(* retry loop that ends in `continue` runs straight into the next one, and *)
(* a session whose pc is "loop" or "giveup" keeps the thread until it      *)
(* suspends (ThreadFree).                                                  *)
(*                                                                         *)
(* Data.  The client's request is the byte positions 1..ReqLen; a response *)
(* is only whether a byte of it reached the client.  The peers (client,    *)
(* backends, network) decide what each read, write and connect gives.      *)
(***************************************************************************)
EXTENDS BreakerOps, RingOps, Sequences

CONSTANTS
    Sessions,      \* client connections that pass the rate limiter
    Backends,
    Ring,          \* the hash ring, fixed once main() has built it
    KeyHash,       \* KeyHash[s]: the hash of the session's client key
    MaxAttempts,   \* max_attempts
    MinPool,       \* min_pool_size of every backend
    ReqLen,        \* bound: bytes the client sends at most
    MaxRead,       \* bound: bytes one async_read_some returns at most
    KCap           \* RequestBuffer::kCap

ASSUME SessionAssumption ==
    /\ MaxAttempts \in Nat /\ MinPool \in Nat /\ ReqLen \in Nat
    /\ MaxRead \in Nat \ {0} /\ KCap \in Nat
    /\ DOMAIN Ring \subseteq Nat /\ \A p \in DOMAIN Ring : Ring[p] \in Backends
    /\ KeyHash \in [Sessions -> Nat]
    /\ NoBackend \notin Backends /\ "503" \notin Backends

ASSUME BackendsFinite == IsFiniteSet(Backends)    \* a vector in the configuration

VARIABLES
    pc,          \* where each session is suspended, or "loop" / "giveup"
    excluded, attempts, cur,      \* locals of handle_client
    data, capped,                 \* req_buf
    consumed,    \* bytes read from the client so far
    clientEof,   \* the client has closed its side
    c2b, b2c,    \* the two relay() legs
    chunk,       \* the buffer of the client-to-backend leg
    started,     \* response_started
    sent,        \* bytes of the request the current backend has got
    toClient,    \* who has sent bytes to the client: backends, or "503"
    br,          \* the breakers
    free, active,                 \* free_sockets_[b].size(), active_counts_
    requests, fallbacks, succs, fails,    \* counters of MetricsRegistry
    gBreaker, gActive, gIdle              \* gauges of MetricsRegistry

retry    == <<excluded, attempts, cur>>
request  == <<data, capped, consumed, clientEof>>
legs     == <<c2b, b2c, chunk, started, sent>>
pool     == <<free, active>>
counters == <<requests, fallbacks, succs, fails>>
gauges   == <<gBreaker, gActive, gIdle>>
control  == <<pc, retry, br, pool, counters, gauges>>      \* all but the bytes
vars == <<pc, retry, request, legs, toClient, br, pool, counters, gauges>>

Holding   == {"replay", "relay"}            \* owns a socket of the pool
Admitted  == {"connecting"} \cup Holding    \* allow_request() said yes
Answering == {"write503", "drain"}          \* in send_status()
PCs == {"idle", "loop", "giveup", "closed"} \cup Admitted \cup Answering

\* A leg waits in a read or a write; it has returned by itself, or it was
\* cancelled because the other one returned.
LegPCs == {"read", "write", "ended", "aborted"}
Over(leg) == leg \in {"ended", "aborted"}

ThreadFree == \A s \in Sessions : pc[s] \notin {"loop", "giveup"}

WarmedUp == [Backends -> 0..MinPool]    \* warm_up() may fail to connect

Init ==
    /\ pc = [s \in Sessions |-> "idle"]
    /\ excluded = [s \in Sessions |-> {}] /\ toClient = excluded
    /\ attempts = [s \in Sessions |-> 0] /\ consumed = attempts
    /\ cur = [s \in Sessions |-> NoBackend]
    /\ data = [s \in Sessions |-> <<>>] /\ chunk = data /\ sent = data
    /\ capped = [s \in Sessions |-> FALSE] /\ clientEof = capped /\ started = capped
    /\ c2b = [s \in Sessions |-> "ended"] /\ b2c = c2b
    /\ br = [b \in Backends |-> NewBreaker]
    /\ free \in WarmedUp
    /\ active = [b \in Backends |-> 0]
    /\ requests = 0 /\ fallbacks = 0 /\ succs = active /\ fails = active
    /\ gBreaker = active /\ gActive = active /\ gIdle = active

-----------------------------------------------------------------------------
(***************************************************************************)
(* The retry loop.                                                         *)
(***************************************************************************)

\* The coroutine starts: record_request_received().
Spawn(s) ==
    /\ pc[s] = "idle" /\ ThreadFree
    /\ pc' = [pc EXCEPT ![s] = "loop"]
    /\ requests' = requests + 1
    /\ UNCHANGED <<retry, request, legs, toClient, br, pool, fallbacks, succs, fails, gauges>>

Target(s) == get_backend_excluding(Ring, KeyHash[s], excluded[s])

\* Seeded fault: the loop condition is attempts <= max_attempts.
InBudget_off_by_one(s) == attempts[s] <= MaxAttempts

InBudget(s) == attempts[s] < MaxAttempts

\* The loop reaches a breaker, and its gauge is set before it is asked.
Reaches(s, b) ==
    /\ pc[s] = "loop" /\ InBudget(s)
    /\ b = Target(s) /\ b # NoBackend
    /\ gBreaker' = [gBreaker EXCEPT ![b] = StateCode(br[b].state)]

\* Seeded fault: the failed backend is not excluded.
GiveUpOn_keeps_candidate(s, b) ==
    /\ attempts' = [attempts EXCEPT ![s] = @ + 1]
    /\ cur' = [cur EXCEPT ![s] = NoBackend]
    /\ UNCHANGED excluded

\* excluded.insert(b); ++attempts
GiveUpOn(s, b) ==
    /\ excluded' = [excluded EXCEPT ![s] = @ \cup {b}]
    /\ attempts' = [attempts EXCEPT ![s] = @ + 1]
    /\ cur' = [cur EXCEPT ![s] = NoBackend]

BreakerSkip(s, b) ==
    /\ Reaches(s, b) /\ ~allows(br[b])
    /\ GiveUpOn(s, b)
    /\ UNCHANGED <<pc, request, legs, toClient, br, pool, counters, gActive, gIdle>>

\* The new connection: the captured bytes are replayed if there are any,
\* otherwise the relay starts at once.
Attach(s) ==
    /\ pc' = [pc EXCEPT ![s] = IF data[s] = <<>> THEN "relay" ELSE "replay"]
    /\ c2b' = [c2b EXCEPT ![s] = "read"]
    /\ b2c' = [b2c EXCEPT ![s] = "read"]
    /\ UNCHANGED <<request, chunk, started, sent, toClient>>

\* Seeded fault: the active gauge is not set after acquire().
CheckedOut_no_gauge(b) ==
    /\ active' = [active EXCEPT ![b] = @ + 1]
    /\ gIdle' = [gIdle EXCEPT ![b] = free'[b]]
    /\ UNCHANGED gActive

\* acquire() has checked out a socket; set_pool_active(), set_pool_idle().
CheckedOut(b) ==
    /\ active' = [active EXCEPT ![b] = @ + 1]
    /\ gActive' = [gActive EXCEPT ![b] = active'[b]]
    /\ gIdle' = [gIdle EXCEPT ![b] = free'[b]]

\* allow_request() is true and acquire() finds an idle socket.
AdmitPooled(s, b) ==
    /\ Reaches(s, b) /\ allows(br[b]) /\ free[b] > 0
    /\ br' = [br EXCEPT ![b] = allow_request(@)]
    /\ cur' = [cur EXCEPT ![s] = b]
    /\ free' = [free EXCEPT ![b] = @ - 1]
    /\ CheckedOut(b) /\ Attach(s)
    /\ UNCHANGED <<excluded, attempts, counters>>

\* allow_request() is true and acquire() suspends in connect().
AdmitConnect(s, b) ==
    /\ Reaches(s, b) /\ allows(br[b]) /\ free[b] = 0
    /\ br' = [br EXCEPT ![b] = allow_request(@)]
    /\ cur' = [cur EXCEPT ![s] = b]
    /\ pc' = [pc EXCEPT ![s] = "connecting"]
    /\ UNCHANGED <<excluded, attempts, request, legs, toClient, pool, counters, gActive, gIdle>>

ConnectOk(s) ==
    /\ pc[s] = "connecting" /\ ThreadFree
    /\ UNCHANGED free /\ CheckedOut(cur[s]) /\ Attach(s)
    /\ UNCHANGED <<retry, br, counters, gBreaker>>

\* Seeded fault: the breaker gauge is not set after the outcome.
ShowBreaker_not(b) == UNCHANGED gBreaker

\* set_breaker_state() after an outcome.
ShowBreaker(b) == gBreaker' = [gBreaker EXCEPT ![b] = StateCode(br'[b].state)]

\* Seeded fault: the failure of a trial is not reported to the breaker.
RecordFailure_not_of_trial(b) ==
    br' = [br EXCEPT ![b] = IF @.trial THEN @ ELSE record_failure(@)]

RecordFailure(b) == br' = [br EXCEPT ![b] = record_failure(@)]

\* record_failure(), record_backend_failure(), set_breaker_state(), and the
\* backend is given up.
AttemptFailed(s, b) ==
    /\ RecordFailure(b) /\ ShowBreaker(b)
    /\ fails' = [fails EXCEPT ![b] = @ + 1]
    /\ GiveUpOn(s, b)

\* connect() throws.
ConnectFail(s) ==
    /\ pc[s] = "connecting" /\ ThreadFree
    /\ AttemptFailed(s, cur[s])
    /\ pc' = [pc EXCEPT ![s] = "loop"]
    /\ UNCHANGED <<request, legs, toClient, pool, requests, fallbacks, succs, gActive, gIdle>>

\* Seeded fault: the socket is dropped without counting it out.
release_leaks(b) == UNCHANGED pool

\* release(b, socket, healthy = false): counted out and closed.
release(b) == active' = [active EXCEPT ![b] = @ - 1] /\ UNCHANGED free

ReplayOk(s) ==
    /\ pc[s] = "replay" /\ ThreadFree
    /\ sent' = [sent EXCEPT ![s] = data[s]]
    /\ pc' = [pc EXCEPT ![s] = "relay"]
    /\ UNCHANGED <<retry, request, c2b, b2c, chunk, started, toClient, br, pool, counters, gauges>>

\* What the legs leave behind when the attempt is over.
ResetLegs(s) ==
    /\ c2b' = [c2b EXCEPT ![s] = "ended"]
    /\ b2c' = [b2c EXCEPT ![s] = "ended"]
    /\ chunk' = [chunk EXCEPT ![s] = <<>>]
    /\ started' = [started EXCEPT ![s] = FALSE]
    /\ sent' = [sent EXCEPT ![s] = <<>>]

\* The replay write fails.  The pool gauges are not set on this path.
ReplayFail(s) ==
    /\ pc[s] = "replay" /\ ThreadFree
    /\ AttemptFailed(s, cur[s])
    /\ release(cur[s])
    /\ pc' = [pc EXCEPT ![s] = "loop"]
    /\ ResetLegs(s)
    /\ UNCHANGED <<request, toClient, requests, fallbacks, succs, gActive, gIdle>>

-----------------------------------------------------------------------------
(***************************************************************************)
(* relay(client, backend) || relay(backend, client).  operator|| cancels   *)
(* the other leg as soon as one returns.  The operation that leg waits in  *)
(* then either still completes, the code up to the next co_await runs and  *)
(* that co_await throws; or it fails with operation_aborted.               *)
(***************************************************************************)
Relaying(s) == pc[s] = "relay" /\ ThreadFree

\* A leg goes on to its next co_await, unless the other leg has returned.
GoOn(other, next) == IF Over(other) THEN "aborted" ELSE next

\* A step of the client-to-backend leg, and one of the other leg.
C2B(s, from, to) ==
    /\ Relaying(s) /\ c2b[s] = from /\ c2b' = [c2b EXCEPT ![s] = to]
    /\ UNCHANGED <<control, b2c>>

B2C(s, from, to) ==
    /\ Relaying(s) /\ b2c[s] = from /\ b2c' = [b2c EXCEPT ![s] = to]
    /\ UNCHANGED <<control, request, c2b, chunk, sent>>

\* Seeded fault: an overflowing chunk is cut at kCap and capped is not set.
append_truncates(s, bytes) ==
    /\ data' = [data EXCEPT ![s] =
                  SubSeq(@ \o bytes, 1, Min({KCap, Len(@) + Len(bytes)}))]
    /\ UNCHANGED capped

\* req_buf.append(): all of the chunk or, from the first overflow on, nothing.
append(s, bytes) ==
    /\ capped' = [capped EXCEPT ![s] = @ \/ Len(data[s]) + Len(bytes) > KCap]
    /\ data' = [data EXCEPT ![s] = IF capped'[s] THEN @ ELSE @ \o bytes]

Positions(from, n) == [i \in 1..n |-> from + i]

C2BRead(s) ==
    /\ C2B(s, "read", GoOn(b2c[s], "write")) /\ ~clientEof[s]
    /\ \E n \in 1..MaxRead :
          /\ consumed[s] + n <= ReqLen
          /\ chunk' = [chunk EXCEPT ![s] = Positions(consumed[s], n)]
          /\ append(s, Positions(consumed[s], n))
          /\ consumed' = [consumed EXCEPT ![s] = @ + n]
    /\ UNCHANGED <<clientEof, started, sent, toClient>>

\* The client closes or resets: the read returns an error.
C2BEof(s) ==
    /\ C2B(s, "read", "ended")
    /\ clientEof' = [clientEof EXCEPT ![s] = TRUE]
    /\ UNCHANGED <<data, capped, consumed, chunk, started, sent, toClient>>

C2BWrite(s) ==
    /\ C2B(s, "write", GoOn(b2c[s], "read"))
    /\ sent' = [sent EXCEPT ![s] = @ \o chunk[s]]
    /\ UNCHANGED <<request, chunk, started, toClient>>

\* The write fails, or is cancelled, after n bytes went out.
C2BWriteStops(s, how) ==
    /\ C2B(s, "write", how)
    /\ \E n \in 0..Len(chunk[s]) :
          sent' = [sent EXCEPT ![s] = @ \o SubSeq(chunk[s], 1, n)]
    /\ UNCHANGED <<request, chunk, started, toClient>>

C2BWriteFail(s) == C2BWriteStops(s, "ended")

\* Seeded fault: a read that is waiting is not cancelled.
C2BAbort_write_only(s) == Over(b2c[s]) /\ C2BWriteStops(s, "aborted")

C2BAbort(s) ==
    /\ Over(b2c[s])
    /\ \/ C2BWriteStops(s, "aborted")
       \/ C2B(s, "read", "aborted") /\ UNCHANGED <<request, chunk, started, sent, toClient>>

\* Seeded fault: response_started is not stored.
B2CRead_no_flag(s) == B2C(s, "read", GoOn(c2b[s], "write")) /\ UNCHANGED <<started, toClient>>

\* response_started is stored before the bytes are written to the client.
B2CRead(s) ==
    /\ B2C(s, "read", GoOn(c2b[s], "write"))
    /\ started' = [started EXCEPT ![s] = TRUE] /\ UNCHANGED toClient

\* The backend closes or fails: the read returns an error.
B2CEof(s) == B2C(s, "read", "ended") /\ UNCHANGED <<started, toClient>>

B2CWrite(s) ==
    /\ B2C(s, "write", GoOn(c2b[s], "read"))
    /\ toClient' = [toClient EXCEPT ![s] = @ \cup {cur[s]}] /\ UNCHANGED started

\* The write to the client fails, or is cancelled, before or after some of
\* the bytes went out.
B2CWriteStops(s, how) ==
    /\ B2C(s, "write", how) /\ UNCHANGED started
    /\ \E got \in {{}, {cur[s]}} : toClient' = [toClient EXCEPT ![s] = @ \cup got]

B2CWriteFail(s) == B2CWriteStops(s, "ended")

B2CAbort(s) ==
    /\ Over(c2b[s])
    /\ \/ B2CWriteStops(s, "aborted")
       \/ B2C(s, "read", "aborted") /\ UNCHANGED <<started, toClient>>

\* The co_await on both legs returns; release() and the pool gauges.
RelayOver(s) ==
    /\ Relaying(s) /\ Over(c2b[s]) /\ Over(b2c[s])
    /\ release(cur[s])
    /\ gActive' = [gActive EXCEPT ![cur[s]] = active'[cur[s]]]
    /\ gIdle' = [gIdle EXCEPT ![cur[s]] = free[cur[s]]]
    /\ ResetLegs(s)
    /\ UNCHANGED <<request, toClient, requests, fallbacks>>

\* Seeded fault: record_backend_success() is missing.
CountSuccess_not(b) == UNCHANGED succs

CountSuccess(b) == succs' = [succs EXCEPT ![b] = @ + 1]

RelaySucceeded(s) ==
    /\ RelayOver(s) /\ started[s]
    /\ br' = [br EXCEPT ![cur[s]] = record_success(@)]
    /\ CountSuccess(cur[s]) /\ ShowBreaker(cur[s])
    /\ pc' = [pc EXCEPT ![s] = "closed"]
    /\ cur' = [cur EXCEPT ![s] = NoBackend]
    /\ UNCHANGED <<excluded, attempts, fails>>

\* No response byte was read: the next backend, unless the buffer overflowed.
RelayFailed(s) ==
    /\ RelayOver(s) /\ ~started[s]
    /\ AttemptFailed(s, cur[s])
    /\ pc' = [pc EXCEPT ![s] = IF capped[s] THEN "giveup" ELSE "loop"]
    /\ UNCHANGED succs

-----------------------------------------------------------------------------
(***************************************************************************)
(* The 503 answer and the specification.                                   *)
(***************************************************************************)
\* Seeded fault: record_fallback_503() is missing.
record_fallback_503_not == UNCHANGED fallbacks

record_fallback_503 == fallbacks' = fallbacks + 1

Fallback503(s) ==
    /\ pc[s] = "giveup" \/ (pc[s] = "loop" /\ (~InBudget(s) \/ Target(s) = NoBackend))
    /\ record_fallback_503
    /\ pc' = [pc EXCEPT ![s] = "write503"]
    /\ UNCHANGED <<retry, request, legs, toClient, br, pool, requests, succs, fails, gauges>>

\* The write ends, whether or not the client got any of it; the send side is
\* shut down and what the client still sends is read and dropped.
Write503(s) ==
    /\ pc[s] = "write503" /\ ThreadFree
    /\ \E got \in {{}, {"503"}} : toClient' = [toClient EXCEPT ![s] = @ \cup got]
    /\ pc' = [pc EXCEPT ![s] = "drain"]
    /\ UNCHANGED <<retry, request, legs, br, pool, counters, gauges>>

DrainRead(s) ==
    /\ pc[s] = "drain" /\ ThreadFree /\ ~clientEof[s]
    /\ \E n \in 1..MaxRead :
          consumed[s] + n <= ReqLen /\ consumed' = [consumed EXCEPT ![s] = @ + n]
    /\ UNCHANGED <<pc, retry, data, capped, clientEof, legs, toClient, br, pool, counters, gauges>>

DrainEof(s) ==
    /\ pc[s] = "drain" /\ ThreadFree
    /\ pc' = [pc EXCEPT ![s] = "closed"]
    /\ clientEof' = [clientEof EXCEPT ![s] = TRUE]
    /\ UNCHANGED <<retry, data, capped, consumed, legs, toClient, br, pool, counters, gauges>>

\* The clock moves on for every breaker.
Tick ==
    /\ \E b \in Backends : br[b].state = "OPEN" /\ br[b].elapsed < Cooldown
    /\ br' = [b \in Backends |-> Elapse(br[b])]
    /\ UNCHANGED <<pc, retry, request, legs, toClient, pool, counters, gauges>>

\* All clients are served and the proxy waits for the next one.
Quiescent == (\A s \in Sessions : pc[s] = "closed") /\ UNCHANGED vars

\* What the coroutine does without waiting for anybody.
Runs(s) ==
    \/ \E b \in Backends : BreakerSkip(s, b) \/ AdmitPooled(s, b) \/ AdmitConnect(s, b)
    \/ RelaySucceeded(s) \/ RelayFailed(s) \/ Fallback503(s)
    \/ C2BAbort(s) \/ B2CAbort(s)

\* The end of a connect or of a write.
IODone(s) ==
    \/ ConnectOk(s) \/ ConnectFail(s) \/ ReplayOk(s) \/ ReplayFail(s) \/ Write503(s)
    \/ C2BWrite(s) \/ C2BWriteFail(s) \/ B2CWrite(s) \/ B2CWriteFail(s)

\* Bytes arrive.
Arrives(s) == C2BRead(s) \/ B2CRead(s) \/ DrainRead(s)

\* A peer closes its connection or resets it.
PeerCloses(s) == C2BEof(s) \/ B2CEof(s) \/ DrainEof(s)

SessionStep(s) == Spawn(s) \/ Runs(s) \/ IODone(s) \/ Arrives(s) \/ PeerCloses(s)

Next == Tick \/ Quiescent \/ \E s \in Sessions : SessionStep(s)

Spec == Init /\ [][Next]_vars

\* Coroutines are resumed; connects and the writes of each leg end; one of
\* the two peers of a relay closes some day; and so does a client that has
\* got its 503.  The code has no timeout of its own, so all but the first
\* are assumptions on the peers and on TCP.  Nothing is assumed of the other
\* peer of a relay: ending its leg is up to operator||.
FirstCloses(s) == ~Over(c2b[s]) /\ ~Over(b2c[s]) /\ (C2BEof(s) \/ B2CEof(s))

Fairness ==
    \A s \in Sessions :
        /\ WF_vars(Runs(s)) /\ WF_vars(FirstCloses(s)) /\ WF_vars(DrainEof(s))
        /\ WF_vars(IODone(s)) /\ WF_vars(C2BWrite(s) \/ C2BWriteFail(s))

FairSpec == Spec /\ Fairness

-----------------------------------------------------------------------------
(* Properties. *)

Bytes == Seq(1..ReqLen)

\* Types of the locals, the shared objects and the metrics.
TypeOK ==
    /\ pc \in [Sessions -> PCs]
    /\ excluded \in [Sessions -> SUBSET Backends]
    /\ attempts \in [Sessions -> 0..MaxAttempts]
    /\ cur \in [Sessions -> Backends \cup {NoBackend}]
    /\ capped \in [Sessions -> BOOLEAN]
    /\ consumed \in [Sessions -> 0..ReqLen]
    /\ clientEof \in [Sessions -> BOOLEAN]
    /\ c2b \in [Sessions -> LegPCs] /\ b2c \in [Sessions -> LegPCs]
    /\ \A s \in Sessions : data[s] \in Bytes /\ chunk[s] \in Bytes /\ sent[s] \in Bytes
    /\ started \in [Sessions -> BOOLEAN]
    /\ toClient \in [Sessions -> SUBSET (Backends \cup {"503"})]
    /\ br \in [Backends -> Breaker]
    /\ free \in [Backends -> 0..MinPool] /\ active \in [Backends -> Int]
    /\ requests \in Nat /\ fallbacks \in Nat
    /\ succs \in [Backends -> Nat] /\ fails \in [Backends -> Nat]
    /\ gBreaker \in [Backends -> 0..2]
    /\ gActive \in [Backends -> Int] /\ gIdle \in [Backends -> Int]

\* Retry safety: whatever the interleaving of the legs, cancellations and
\* retries, a client gets bytes from one backend only, or from the 503
\* answer, and never a 503 after the start of a backend's response.
SingleSource == \A s \in Sessions : \A x, y \in toClient[s] : x = y

\* What a backend gets is a prefix of what the client sent, without a gap, a
\* repetition or a byte out of order, however the request was cut between
\* failed attempts, replays and live bytes; and before the next live read it
\* is all the client has sent (session.cpp:185, "Replay whatever we've
\* already captured").
FaithfulForward ==
    \A s \in Sessions : pc[s] = "relay" =>
        /\ sent[s] = Positions(0, Len(sent[s])) /\ Len(sent[s]) <= consumed[s]
        /\ c2b[s] = "read" => Len(sent[s]) = consumed[s]

\* active_counts_ is the number of sessions that own a socket of the
\* backend, whichever way their attempts end.
PoolAccounting ==
    \A b \in Backends :
        active[b] = Cardinality({s \in Sessions : pc[s] \in Holding /\ cur[s] = b})

\* A HALF_OPEN trial slot is always held by a session that is still busy with
\* the backend: no path through handle_client leaves without recording an
\* outcome.
TrialSlotHeld ==
    \A b \in Backends :
        br[b].trial => \E s \in Sessions : pc[s] \in Admitted /\ cur[s] = b

\* One attempt, one backend: the attempts are counted by the excluded
\* backends, a backend is never tried twice for a client, and the budget
\* holds.
AttemptBudget ==
    \A s \in Sessions :
        /\ attempts[s] = Cardinality(excluded[s])
        /\ pc[s] \in Admitted => cur[s] \notin excluded[s] /\ attempts[s] < MaxAttempts

\* The breaker gauge tells the breaker's state, except that it may still say
\* OPEN for a breaker that has gone HALF_OPEN (it is set before
\* allow_request() and not after).
BreakerGaugeLag ==
    \A b \in Backends :
        \/ gBreaker[b] = StateCode(br[b].state)
        \/ gBreaker[b] = StateCode("OPEN") /\ br[b].state = "HALF_OPEN"

\* The gauge of checked-out connections never shows fewer than there are.  It
\* may show more: a failed replay releases its connection and sets no gauge.
ActiveGaugeCovers == \A b \in Backends : gActive[b] >= active[b]

\* Every request counted is being served, or has been counted as the success
\* of one backend, or as one 503.
RequestsAccounted ==
    requests = SumFunction(succs) + fallbacks
               + Cardinality({s \in Sessions : pc[s] \in Admitted \cup {"loop", "giveup"}})

\* Each backend gets the quiet period its breaker promises, as the sessions
\* use it: no session starts with a backend while it runs.  (The conjunction
\* of the backends' specifications QP(b)!QSpec, with the box outside.)
QP(b) == INSTANCE QuietPeriod
           WITH Requests <- Sessions,
                calls <- {s \in Sessions : pc[s] \in Admitted /\ cur[s] = b},
                quiet <- IF br[b].state = "OPEN" THEN Cooldown - br[b].elapsed ELSE 0

ImplementsQuietPeriod ==
    /\ \A b \in Backends : QP(b)!QInit
    /\ [][\A b \in Backends : [QP(b)!QNext]_(QP(b)!qvars)]_vars

\* What the listener relies on (Proxy): whatever a session goes through, it is
\* one request, and its end is one service or one counted 503.
Phase(s) ==
    CASE pc[s] = "idle" -> "waiting"
      [] pc[s] \in Answering -> "refusing"
      [] pc[s] = "closed" -> "done"
      [] OTHER -> "serving"

CS == INSTANCE ClientService WITH phase <- [s \in Sessions |-> Phase(s)]

ImplementsClientService == CS!SSpec

\* Every session that has started ends, when its peers answer or close.
SessionEnds == \A s \in Sessions : pc[s] = "loop" ~> pc[s] = "closed"

-----------------------------------------------------------------------------
(* What the documents say and the code does not do. *)

\* "this breaker protects against dead/ unreachable nodes"
\* (session.cpp:212): the step that trips a breaker is never the end of a
\* relay that the client ended while the backend's side was still open.
TripsOnDeadNodes ==
    [][\A s \in Sessions :
          RelayFailed(s) /\ clientEof[s] /\ b2c[s] = "aborted"
              => br'[cur[s]].state # "OPEN" \/ br[cur[s]].state = "OPEN"]_vars

\* "client already has data" (session.cpp:227, and session.cpp:43): a session
\* counted as the success of a backend has delivered a byte to its client.
SuccessMeansDelivered ==
    [][\A s \in Sessions : RelaySucceeded(s) => toClient[s] # {}]_vars

\* "Reuses warm backend connections instead of paying a fresh TCP handshake
\* on every request" (README.md:14): a backend that has served a request, has
\* not failed one and has no connection in use needs no new connection.
WarmConnectionsReused ==
    [][\A s \in Sessions, b \in Backends :
          AdmitConnect(s, b) => succs[b] = 0 \/ fails[b] > 0 \/ active[b] > 0]_vars
=============================================================================
