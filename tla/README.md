# A TLA+ model of Aegis Proxy

Aegis is a Layer-4 reverse proxy (C++20, Asio coroutines, one io thread). A
client connection passes a rate limiter, is routed on a consistent-hash ring,
asks the circuit breaker of the chosen backend, takes a connection from a pool,
and is relayed byte by byte; an attempt that produced no response byte is
repeated on the next backend. These modules model that path, TLC checks them on
small instances, and TLAPS proves the central properties for all instances.

## 1. The system

| Part | State | Operations | Used by |
|---|---|---|---|
| Circuit breaker (`circuit_breaker.*`) | `state_`, failure and success streaks, `opened_at_`, `half_open_trial_in_flight_` | `allow_request`, `record_success`, `record_failure`, `state` | sessions, one breaker per backend |
| Session (`session.*`) | locals of `handle_client`: `excluded`, `attempts`, `req_buf`, the socket, `response_started` | the retry loop, `relay` in both directions, `RequestBuffer::append`, `send_status` | spawned by the listener |
| Connection pool (`connection_pool.*`) | `free_sockets_`, `active_counts_` | `warm_up`, `acquire`, `connect`, `release` | sessions |
| Hash ring (`hash_ring.*`) | `ring_`, `active_backends_` | `add_backend`, `remove_backend`, `get_backend`, `get_backend_excluding` | main at start-up, sessions |
| Rate limiter (`rate_limiter.*`) | per shard: client -> tokens and `last_refill` | `allow`, `reap_idle` | listener, reaper loop |
| Metrics (`metrics.hpp`) | counters and gauges | `record_*`, `set_*`, `render_prometheus` | sessions, listener, metrics endpoint |
| Listener, reaper, start-up (`main.cpp`) | sockets, timer | `listen`, `send_429`, `reap_loop`, `serve_metrics`, `run` | |
| Tracer (`tracer.hpp`) | a sequence number | log lines | everybody |

What makes it hard: coroutines interleave at every `co_await`; `operator||`
cancels one relay leg wherever it happens to wait; an outcome reaches a breaker
long after the admission it belongs to, perhaps in another breaker state; the
request has to be replayed from a bounded buffer; four ways out of an attempt
each have to release, count and record; `reap_idle` runs shard by shard with an
old clock; an exception silently ends the coroutine it leaves; nothing has a
timeout. `PROJECT.json` lists these
hazards with their lines and the properties aimed at them.

## 2. Modules

| Module | Models | Remarks |
|---|---|---|
| `BreakerOps` | the methods of `CircuitBreaker` | operators on a record of the fields; every method holds the mutex throughout, so each is atomic |
| `CircuitBreaker` | one breaker, concurrent requests | history variables `flight` and `polluted` say which admission an outcome belongs to; the code does not know |
| `QuietPeriod` | abstract: what a breaker promises its backend | a full cooldown without a new call, never prolonged |
| `RingOps` | lookups on a ring | `lower_bound` with wrap-around |
| `HashRing` | the ring under additions and removals, for every hash function | also has the loop of `get_backend_excluding` iterator by iterator (`Walk`) |
| `Session` | `handle_client` with breakers, pool counts, ring and metrics | many sessions, shared objects |
| `ClientService` | abstract: what the listener may expect of `handle_client` | counted once, then served, or refused with one 503 |
| `ConnectionPool` | `warm_up`, `acquire`, `release` with single sockets | threads interleave between any two accesses to shared state, as connection_pool.hpp:22 allows |
| `RateLimiter` | the sharded limiter | `allow` is one step, `reap_idle` one step per shard |
| `TokenBucket` | abstract: an everlasting bucket per client | |
| `Proxy` | `main.cpp`: start-up, listener, 429, reaper, metrics port, signals | instantiates `RateLimiter` for the limiter and `ClientService` for the sessions |
| `MCSession`, `MCHashRing`, `MCRateLimiter`, `MCProxy` | instances for TLC | definitions of constants only |
| `*Proofs` | theorems and lemmas | checked by TLAPS |

Definitions named `..._no_gate`, `..._leaks` and so on, marked "Seeded fault",
are deliberately wrong variants of the definition that follows. No
specification uses them. Put in the place of their original, each makes a run
report the violation listed under "mutants" in `PROJECT.json`; they show that
the properties can fail.

### Session in more detail

`pc[s]` is the suspension point of a coroutine: `connecting` (in
`pool.acquire`), `replay` (the write at session.cpp:187), `relay` (the two
legs), `write503` and `drain` (in `send_status`). `loop` and `giveup` are not
suspension points: an iteration of the retry loop that ends in `continue` runs
on without yielding, so while a session is there no other coroutine moves
(`ThreadFree`). That is the guarantee of `io_context(1)` with one thread.

The relay legs have their own position (`c2b`, `b2c`: in a read, in a write,
`ended` by themselves or `aborted`). When one leg ends, the other is cancelled;
its pending operation may nevertheless complete, in which case the code runs up
to its next `co_await`, which throws (`GoOn`). A write may have sent any part
of its chunk when it stops. A request is the sequence of its byte positions, so
that gaps and repetitions can be seen; a response is only its origin.

Time exists only where the code reads it. A breaker's `elapsed` is
`now - opened_at_`, kept at `Cooldown` once reached; the limiter has a clock.

The peers are the environment: they may answer, stay silent, close or fail at
any moment. Warm-up may fail for any number of sockets (`WarmedUp`).

### Proxy and ConnectionPool in more detail

`Proxy` is the composition. `run` is the coroutine of that name: it warms the
pool, starts `reap_loop` and `metrics_listen`, and then is `listen`. A
connection waits in the kernel's queue (`queued`, also before and after
`listen` runs), and one step of `listen` takes it up to the next `co_await`:
`Drop` (`remote_endpoint` fails), `Limit` (429) or `Admit`, with the limiter's
`allow` inside the step. `OptionThrows` and `AcceptThrows` are the two lines
that can throw; the coroutine dies, the process does not. `handle_client(c)` is
a step of `ClientService`, which `Session` is proved to implement, so what is
shown about `Proxy` holds with the real sessions in their place. The steps of a
reaper pass keep the thread (`ThreadFree`), since `reap_idle` does not suspend.

In `ConnectionPool` a socket is the number of its connect. `at[c]` says where
a caller is: inside `acquire` before the list is looked at, suspended in
`connect`, owner of a socket, or inside `release` between the counter and the
free list. `warm` holds the loop variables of `warm_up`. Sessions only ever
release with `healthy = false`; the module has all four cases.

## 3. Runs

| Run | Instance | Shows |
|---|---|---|
| `breaker` | 4 requests, thresholds 2 and 2, cooldown 2 | no leaked trial slot (`SlotHasOwner`), streaks forgotten on closing (`ClosedBelowThreshold`), one trial at a time unless an old outcome interferes (`SingleTrialUnlessStale`), `QuietPeriod` implemented, always admits again (`KeepsAdmitting`) |
| `session_retry` | 1 session, 3 backends, 2 attempts, request of 4 bytes, buffer of 3 | one source of bytes per client (`SingleSource`), backends get a gapless prefix (`FaithfulForward`), `AttemptBudget`, the session ends (`SessionEnds`) |
| `session_shared` | 2 sessions, 2 backends, 3 attempts, cooldown 2 | `PoolAccounting`, `TrialSlotHeld`, how far gauges may lag (`BreakerGaugeLag`, `ActiveGaugeCovers`), `RequestsAccounted`, `QuietPeriod` per backend and `ClientService` implemented |
| `ring` | 3 backends x 2 virtual nodes; all hash functions onto 4 points, all injective ones onto 6 | `NoGhosts`, `Clockwise`, the loop finds what it should (`WalkFinds`); without collisions `RingIsMembership` and `ExclusionIsRemoval`; with or without, a change moves only the keys it must (`MinimalDisruption`) |
| `limiter` | 2 clients, 2 shards, 2 tokens, half a token per tick, 7 ticks | `TokenBucket` implemented, `ReapComplete` |
| `pool` | 3 callers, 2 backends with 2 warm sockets each, 4 sockets in all | no socket lost, shared or reused when broken (`OnePlace`), `ActiveExact`, `PoolBounded`, `AcquireReturns`, `WarmUpEnds` |
| `proxy` | 2 connections of one client with 1 token, a scraper, reaper passes at 2 and 4 of 5 ticks | each connection counted once (`Accounted`), the rate limit over any window (`WindowBound`), `ForgottenInTime`, `PageConsistent`; nobody accepted is forgotten (`AcceptedEnds`), nobody waits behind another, even one that never ends (`QueuedTaken`), `ScrapeAnswered` |

Runs that are expected to find a violation. Each states a sentence of the
repository and the code does otherwise:

| Run | The sentence | What the code does |
|---|---|---|
| `breaker_single_trial` | "exactly ONE trial request" (circuit_breaker.hpp:13) | an outcome of an older request frees the slot of a running trial (and, if a success, counts as one of its successes) |
| `session_trips` | "protects against dead/ unreachable nodes" (session.cpp:212) | a client that leaves early is a failure of the backend |
| `session_delivered` | "client already has data" (session.cpp:227) | the flag is set before the write, which may fail |
| `session_reuse` | "Reuses warm backend connections" (README.md:14) | no connection is ever put back |
| `proxy_listener` | "for every incoming connection, decides which backend should handle it" (README.md:3) | an exception of `set_option` or `async_accept` ends `listen`, the process runs on |

Two more divergences are visible in the exact form of passing properties.
`ActiveGaugeCovers` is an inequality: after a failed replay (session.cpp:194)
the socket is released and the gauge "Checked-out connections per backend"
(metrics.hpp:95) is not set. In `Accounted` the counter described as "Total
requests accepted by the listener" (metrics.hpp:61) does not include
connections answered with a 429.

### Bounds

The bounds are the smallest at which the interesting cases meet: four requests
let two old outcomes meet two trials; a request of four bytes read at most two
at a time against a buffer of three fits, fits exactly and overflows; two
attempts on three backends end by the budget (`session_retry`), three attempts
on two backends by the exhausted ring (`session_shared`), where one session's
failure also opens a breaker while the other's outcome is still to come. In the
ring every hash function onto four points collides, and six points are enough
for none. The limiter's clock (`MaxTime`) allows a bucket to fill, to be reaped,
and to be made again. In the pool three callers of one backend need more than
the two warm sockets, and of two backends may find some idle and some not;
`MaxSockets` only makes later connects fail, when a list may already have been
emptied, refilled and emptied again. In `proxy` the second connection of the
client may come before its bucket is full, after, and after the bucket was
reaped. Thresholds are small versions of the 5, 2 and 5000 ms of `main`; the
proofs cover all values.

### Fairness

`breaker`: the clock advances, and an admitted request ends. `session_retry`:
a coroutine that can run is resumed (Asio's scheduler); a connect and a write
end (TCP gives up at last); one of the two peers of a relay closes some day, and
so does a client that got its 503. The code has no timeouts, so the last two
are assumptions about the peers. Of the other peer of a relay nothing is
assumed: that its leg ends is the work of `operator||`.

`pool`: a connect ends, one way or the other, and threads are scheduled;
nothing obliges an owner to release.

`proxy`: the warm-up ends (`WarmUpEnds`, checked in `pool`), and the loops of
the process run when they can. This is all that `QueuedTaken` has: every other
session, 429 and scrape may stay open for ever, since the code has no timeout
for them. `AcceptedEnds` and `ScrapeAnswered` name what they need besides as a
premise, of the one client or scraper they are about: that its session ends
(`SessionEnds`, checked in `session_retry`), or that it takes its answer and
closes (`ClientActs`, `ScraperActs`). All others may be stuck there too.
Weak fairness is enough for `listen`, although the reaper takes the
thread from time to time: its passes are finite and far apart. The clock waits
while a pass is due (`Tick`): `ForgottenInTime` assumes that the io thread keeps
up with its timer. Nothing is assumed about clients that are still queued,
about throwing, or about signals.

## 4. Proofs

Every safety invariant, action property and refinement that a run checks is
also a theorem. The theorems hold for any number of
sessions, connections, clients, backends, callers and sockets, any bounds and
any time. Their assumptions are those named in the modules that declare the
constants (`...Assumption`, `BackendsFinite`, `PointsBounded`).

`OperatorProofs` has the lemmas about the operators the models are built from:
what each method does to a breaker; what `FirstAt` finds, and that the point
found among more points is the one found among fewer, if it is still there
(`FoundAmongFewer`); what `SumFunction` gives when one summand grows
(`SumCounts`). The least element of a set of naturals comes from the
well-foundedness of `<` (`MinIs`), and induction over a set of naturals from it
(`NatInduct`).

`CircuitBreakerProofs` proves `TypeOK`, `ClosedBelowThreshold`, `SlotHasOwner`,
`SingleTrialUnlessStale` and the refinement of `QuietPeriod`. The inductive
invariant `Inv` combines the first four: a CLOSED breaker is below its threshold
(otherwise the failure count could run past it), a taken slot belongs to a trial
in a HALF_OPEN breaker, and, as long as no old outcome has interfered, trials
and slot agree.

`SessionProofs` follows the control of `handle_client`.
- `RetrySafe` (`SingleSource`): the strengthening `CommitInv` says that a
  session that may still choose a backend has sent nothing to its client, and
  that in a relay bytes came from the current backend only, and only after
  `response_started` was set. This is the retry rule of session.cpp:201-246.
- `SlotsHeld` (`TrialSlotHeld`): every action either enters a backend (an
  admission), leaves it (with exactly one outcome) or stays (`Classify`), and a
  taken slot has a session inside (`BreakersInv`).
- `BackendsLeftAlone`: the same classification maps every step to a step of
  `QuietPeriod` for every backend.
- `ServiceRefined`: `Phase` maps the program counter to a phase of
  `ClientService`. Each action either moves one session along one edge
  (`StepMoves`) or leaves phases and both counters alone (`BytesOnly`,
  `LoopServes`).
- `BudgetHolds` (`AttemptBudget`): `BudgetInv` adds that excluded sets are
  finite sets of backends. The ring's answer is never an excluded backend
  (`TargetIs`), so each attempt that fails excludes one more (`TriedBudget`).
- `GaugeFollows` (`BreakerGaugeLag`): only an admission changes a breaker's
  state without setting the gauge afterwards, and it does so only from OPEN,
  which the gauge shows by then.

`SessionDataProofs` follows what sessions move and count.
- `ForwardFaithful` (`FaithfulForward`) speaks of a session in its relay, and is
  not inductive: a replay sends what was captured attempts ago. `ForwardInv`
  follows the bytes through the whole life of a session (`Captured`): the buffer
  is everything read until it overflows, an overflow leaves no retry, nothing
  has been sent before an attempt, and a chunk in a write is what the backend
  lacks. The facts about sequences are three lemmas on `Positions`.
- `PoolAccounts` (`PoolAccounting`) and `GaugeCovers` (`ActiveGaugeCovers`):
  every step checks a socket out, in, or neither (`Sockets`), and the sessions
  that have begun are finitely many, though `Sessions` need not be (`PoolInv`).
- `RequestsAddUp` (`RequestsAccounted`): a request that ends is added to one
  summand when it leaves the open ones (`CountInv`). That the sum over the
  backends grows by one is `SumCounts`; it needs `BackendsFinite`.
- `SessionTypes` (`TypeOK`), from all of these.

`RateLimiterProofs` proves `LimiterRefined`: a bucket that is absent counts as
full; a tick fills every bucket by the rate (`TickLevel`), and what a pass of
`reap_idle` drops was full (`ReapLevel`), since its clock is never ahead of
the real one (`Inv`). It rests on `LimiterAssumption`: a bucket fills within the
idle threshold. This holds for the defaults (20 tokens, 10 per second, 300 s);
the environment variables for rate and burst can break it. `PassReapsAll`
(`ReapComplete`) needs the invariant `Reaped`: the shards behind a pass have no
bucket that is idle by its clock, since what `allow` touches meanwhile is
younger. `LimiterTypes` is `TypeOK`.

`ProxyProofs` proves
- `WindowHolds` (`WindowBound`). The bound itself is not inductive: it says
  nothing of what the bucket still holds. The invariant `WInv` adds, for every
  client and every start of a window, that the admissions since then and the
  present level together are within capacity and refill (`Budget`). An
  admission moves a unit from one to the other, a tick adds at most the rate to
  the level, and a reaper pass leaves levels as they are; these three facts are
  the lemmas about levels of `RateLimiterProofs`, instantiated. A window that
  ends earlier was bounded when it ended;
- `AccountedHolds` (`Accounted`), with the finite sets of connections that are
  dropped or about to start tracked through each step (`AInv`);
- `PageHolds` (`PageConsistent`): the counters bear the relation at the moment
  they are rendered, and `cids` never falls (`CInv`);
- `Forgotten` (`ForgottenInTime`): `Timer` says that the clock is never ahead of
  a timer that is set, that a pass sees the time it began at, and that no bucket
  was idle when the timer was set last. The last step of a pass restores this by
  `ShardReaped`, the lemma behind `PassReapsAll`;
- `ProxyTypes` (`TypeOK`), from these invariants and the limiter's.

`ConnectionPoolProofs` proves `ActiveCountExact` and `PoolStaysBounded`. For the
bound, `SInv` adds to it that during the warm-up nobody has called and no list
is longer than the loops have come (`WarmInv`). Afterwards a list only grows by
a socket that its owner gives up, and a connect starts only from an empty list,
when there are at most as many connections as callers. For `SocketsInOnePlace`,
`LInv` adds to the property that sockets on lists or with callers have been
opened (`Known`), so a new one is nowhere yet, and that the sets whose sizes are
compared are finite. `PoolTypes` is `TypeOK`.

`HashRingProofs` proves `NoGhostsEver`, `RingOfMembers`, `ExclusionLikeRemoval`,
`DisruptionMinimal`, `NearestClockwise` and `WalkCorrect`. The invariant `Owned` says that a
point on the ring is a virtual node of the member it leads to; `Full`, that
without collisions no member lacks one of its points. `DisruptionMinimal` needs
`Full` only to say whose keys a removal moves; which points lose or gain keys
does not depend on collisions. That few keys move is a
fact about lookups (`FoundAmongFewer`). For `Clockwise`, `Around` computes the
distance on the circle, which is finite by `PointsBounded`.
`WalkCorrect` (`WalkFinds`) is about the loop of `get_backend_excluding`, a
recursive function on the points of the ring. Each iteration moves away from the
first iterator until the loop is back there (`AfterIs`). `Found`, the nearest
candidate ahead of each point, satisfies the equation of the loop
(`FoundLoops`). No other function does (`OneWalk`): at the farthest point where
two differ, the next point is farther still. At the first iterator the nearest
candidate is the first from the key on (`FirstIsNearest`).

Only model-checked: the liveness properties (`KeepsAdmitting`, `SessionEnds`,
`AcquireReturns`, `WarmUpEnds`, `AcceptedEnds`, `QueuedTaken`,
`ScrapeAnswered`), which are outside the prover's reach.

## 5. Not modelled

- `hash_key`'s bit arithmetic and the evenness of the distribution: numerical
  facts about fixed 64-bit constants. The hash is an arbitrary function.
- Rounding of the limiter's doubles: tokens are exact multiples of a part.
- A backend that closes a pooled socket while it is idle, as a state of that
  socket: the session that gets it sees a relay that fails, which it may for any
  socket.
- The text of responses, of log lines and of a page of metrics, and on the page
  the series per backend; no other part of the system reads them.
- Command line, environment variables and ports.
- Several io threads in the sessions: `main` has one. The objects that claim
  thread safety (breaker, pool, limiter) are modelled with concurrent callers;
  the ring's operations are atomic under its lock.
- Wrap-around of the 64-bit counters.

## 6. Plan

1. `Session`'s pool counts as a refinement of `ConnectionPool`: the counts are
   those of its lists and owners.
2. Fairness in `ClientService`, once sessions have timeouts in the code.
