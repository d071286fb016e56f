------------------------------- MODULE Proxy --------------------------------
(***************************************************************************)
(* main.cpp: run() warms the pool, starts the reaper and the metrics       *)
(* listener and accepts clients; a client passes the rate limiter          *)
(* (RateLimiter) and is handed to handle_client() (ClientService, which    *)
(* Session implements), or gets a 429.  All coroutines share the thread of *)
(* io_context(1), and an action is what runs between two suspensions; a    *)
(* pass of reap_idle() has several steps and keeps the thread              *)
(* (ThreadFree).  An exception that leaves a coroutine spawned as detached *)
(* is dropped with the coroutine; the others go on.                        *)
(***************************************************************************)
EXTENDS Integers, FiniteSets

CONSTANTS
    NConns,         \* client connections that may arrive
    ClientOf,       \* the client_key of each
    Scrapes,        \* connections to the metrics port
    ReapPeriod,     \* the 60 s of reap_loop
    Clients, Shards, ShardOf, Capacity, Rate, Unit, IdleThreshold, MaxTime

Conns == 1..NConns      \* numbered as they arrive

VARIABLES
    up,             \* io_context.run() has not been stopped
    run,            \* the coroutine run(): "warming", "listening" or "dead"
    arrived, taken, \* connections the kernel, and the acceptor, has taken so far
    stage,          \* what has become of each connection
    cids,           \* CorrelationId::counter_
    rate_limited,   \* rate_limited_ of MetricsRegistry
    admittedAt,     \* history: when the limiter said yes
    phase, requests, fallbacks,                  \* ClientService
    now, buckets, reaping, reapNow, answer,      \* RateLimiter
    reapAt,         \* expiry of reap_loop's timer
    metrics,        \* metrics_listen(): "off", "listening" or "dead"
    scrape,         \* what has become of each metrics connection
    page            \* the counters each was shown

service == <<phase, requests, fallbacks>>
limiter == <<now, buckets, reaping, reapNow, answer>>
clients == <<arrived, taken, stage, cids, rate_limited, admittedAt>>
scraper == <<metrics, scrape, page>>
vars == <<up, run, clients, service, limiter, reapAt, scraper>>

CS == INSTANCE ClientService WITH Sessions <- Conns
RL == INSTANCE RateLimiter

ASSUME ProxyAssumption ==
    /\ NConns \in Nat /\ ClientOf \in [Conns -> Clients] /\ ReapPeriod \in Nat \ {0}
    /\ RL!LimiterAssumption

Never == -1
NoPage == [requests |-> 0, rate_limited |-> 0, fallbacks |-> 0]

Init ==
    /\ up = TRUE /\ run = "warming"
    /\ arrived = 0 /\ taken = 0 /\ stage = [c \in Conns |-> "absent"]
    /\ cids = 0 /\ rate_limited = 0 /\ admittedAt = [c \in Conns |-> Never]
    /\ CS!SInit /\ RL!Init /\ reapAt = 0
    /\ metrics = "off" /\ scrape = [m \in Scrapes |-> "absent"]
    /\ page = [m \in Scrapes |-> NoPage]

ThreadFree == up /\ reaping = 0

-----------------------------------------------------------------------------
(***************************************************************************)
(* The listener.                                                           *)
(***************************************************************************)

\* The acceptor is bound before run() starts, so the kernel takes connections
\* during the warm-up too, and when nobody accepts them any more.
Arrive(c) ==
    /\ up /\ c = arrived + 1 /\ arrived' = c
    /\ stage' = [stage EXCEPT ![c] = "queued"]
    /\ UNCHANGED <<up, run, taken, cids, rate_limited, admittedAt, service, limiter, reapAt, scraper>>

\* Seeded fault: metrics_listen() is to start when listen() is done.
WarmedUp_no_metrics ==
    /\ up /\ run = "warming"
    /\ run' = "listening" /\ reapAt' = now + ReapPeriod
    /\ UNCHANGED <<up, clients, service, limiter, scraper>>

\* warm_up() is over: reap_loop() sets its timer, both acceptors are read.
WarmedUp ==
    /\ up /\ run = "warming"
    /\ run' = "listening" /\ metrics' = "listening"
    /\ reapAt' = now + ReapPeriod
    /\ UNCHANGED <<up, clients, service, limiter, scrape, page>>

\* Seeded fault: the counter is read, not advanced.
generate_load == UNCHANGED cids

\* CorrelationId::generate(): the counter makes identifiers differ; their text
\* is only logged.
generate == cids' = cids + 1

\* Seeded fault: listen() awaits handle_client() and send_429() instead of
\* spawning them.
Accepts_inline(c, to) ==
    /\ ThreadFree /\ run = "listening"
    /\ \A d \in 1..taken : stage[d] \in {"dropped", "closed"} \/ phase[d] = "done"
    /\ c = taken + 1 /\ c <= arrived /\ taken' = c
    /\ stage' = [stage EXCEPT ![c] = to]
    /\ UNCHANGED <<up, arrived, service, reapAt, scraper>>

\* async_accept() gives the next connection.
Accepts(c, to) ==
    /\ ThreadFree /\ run = "listening"
    /\ c = taken + 1 /\ c <= arrived /\ taken' = c
    /\ stage' = [stage EXCEPT ![c] = to]
    /\ UNCHANGED <<up, arrived, service, reapAt, scraper>>

\* remote_endpoint() fails: the connection is closed without an answer.
Drop(c) ==
    /\ Accepts(c, "dropped") /\ generate
    /\ UNCHANGED <<run, rate_limited, admittedAt, limiter>>

\* The limiter says yes: handle_client() is spawned.
Admit(c) ==
    /\ Accepts(c, "spawned") /\ generate
    /\ RL!allow(ClientOf[c]) /\ answer'[ClientOf[c]] = "allowed"
    /\ admittedAt' = [admittedAt EXCEPT ![c] = now]
    /\ UNCHANGED <<run, rate_limited>>

\* Seeded fault: record_rate_limited() is missing.
Limit_uncounted(c) ==
    /\ Accepts(c, "write429") /\ generate
    /\ RL!allow(ClientOf[c]) /\ answer'[ClientOf[c]] = "limited"
    /\ UNCHANGED <<run, rate_limited, admittedAt>>

\* The limiter says no: counted, and send_429() is spawned.
Limit(c) ==
    /\ Accepts(c, "write429") /\ generate
    /\ RL!allow(ClientOf[c]) /\ answer'[ClientOf[c]] = "limited"
    /\ rate_limited' = rate_limited + 1
    /\ UNCHANGED <<run, admittedAt>>

\* set_option() throws: the connection is closed, and listen() and run() end.
OptionThrows(c) ==
    /\ Accepts(c, "cut") /\ run' = "dead"
    /\ UNCHANGED <<cids, rate_limited, admittedAt, limiter>>

\* async_accept() throws, for instance for want of descriptors.
AcceptThrows ==
    /\ ThreadFree /\ run = "listening" /\ taken < arrived
    /\ run' = "dead"
    /\ UNCHANGED <<up, clients, service, limiter, reapAt, scraper>>

\* send_429(): the write ends, with or without an error, and the send side is
\* shut down; then the client's bytes are read until it closes.
Send429(c, from, to) ==
    /\ ThreadFree /\ stage[c] = from
    /\ stage' = [stage EXCEPT ![c] = to]
    /\ UNCHANGED <<up, run, arrived, taken, cids, rate_limited, admittedAt, service, limiter, reapAt, scraper>>

Write429(c) == Send429(c, "write429", "drain429")
Drain429(c) == Send429(c, "drain429", "closed")

\* Seeded fault: handle_client() is a child of listen() and dies with it.
Begins_as_child(c) == ThreadFree /\ run = "listening" /\ stage[c] = "spawned" /\ CS!Begin(c)

\* Seeded fault: record_request_received() is missing.
Begins_uncounted(c) ==
    ThreadFree /\ stage[c] = "spawned" /\ CS!Moves(c, "waiting", "serving")
    /\ UNCHANGED <<requests, fallbacks>>

Begins(c) == ThreadFree /\ stage[c] = "spawned" /\ CS!Begin(c)

Ends(c) == ThreadFree /\ (CS!Finish(c) \/ CS!Refuse(c) \/ CS!Close(c))

handle_client(c) ==
    /\ Begins(c) \/ Ends(c)
    /\ UNCHANGED <<up, run, clients, limiter, reapAt, scraper>>

-----------------------------------------------------------------------------
(***************************************************************************)
(* The reaper, the metrics listener, the clock and the signals.            *)
(***************************************************************************)
Due == run # "warming" /\ now >= reapAt

\* The timer fires and reap_idle() begins.
ReapTimer ==
    /\ ThreadFree /\ Due /\ RL!ReapStart
    /\ UNCHANGED <<up, run, clients, service, reapAt, scraper>>

\* Seeded fault: the timer is not set again.
ReapShard_once ==
    /\ up /\ RL!ReapShard
    /\ reapAt' = IF reaping' = 0 THEN MaxTime + ReapPeriod ELSE reapAt
    /\ UNCHANGED <<up, run, clients, service, scraper>>

\* After the last shard the loop sets the timer again.
ReapShard ==
    /\ up /\ RL!ReapShard
    /\ reapAt' = IF reaping' = 0 THEN now + ReapPeriod ELSE reapAt
    /\ UNCHANGED <<up, run, clients, service, scraper>>

\* The io thread keeps up with the timer: time stops while a pass is due.
Tick ==
    /\ up /\ ~Due /\ RL!Tick
    /\ UNCHANGED <<up, run, clients, service, reapAt, scraper>>

others == <<up, run, clients, service, limiter, reapAt>>

ScrapeMoves(m, from, to) ==
    /\ scrape[m] = from /\ scrape' = [scrape EXCEPT ![m] = to]
    /\ UNCHANGED others

ScrapeArrive(m) == up /\ ScrapeMoves(m, "absent", "queued") /\ UNCHANGED <<metrics, page>>

metrics_listen(m) ==
    ThreadFree /\ metrics = "listening" /\ ScrapeMoves(m, "queued", "read") /\ UNCHANGED <<metrics, page>>

MetricsAcceptThrows ==
    /\ ThreadFree /\ metrics = "listening" /\ \E m \in Scrapes : scrape[m] = "queued"
    /\ metrics' = "dead"
    /\ UNCHANGED <<others, scrape, page>>

\* render_prometheus() loads every counter, with the thread to itself.
render_prometheus(m) ==
    page' = [page EXCEPT ![m] = [requests |-> requests, rate_limited |-> rate_limited,
                                 fallbacks |-> fallbacks]]

\* serve_metrics(): one read, whatever it gives; the page; the drain.
ServeRead(m) ==
    ThreadFree /\ ScrapeMoves(m, "read", "write") /\ render_prometheus(m) /\ UNCHANGED metrics
ServeWrite(m) == ThreadFree /\ ScrapeMoves(m, "write", "drain") /\ UNCHANGED <<metrics, page>>
ServeDrain(m) ==
    /\ ThreadFree /\ ScrapeMoves(m, "drain", "closed")
    /\ page' = [page EXCEPT ![m] = NoPage] /\ UNCHANGED metrics

serve_metrics(m) == ServeRead(m) \/ ServeWrite(m) \/ ServeDrain(m)

\* SIGINT or SIGTERM: io_context.stop(), main() returns, sockets are closed.
Stop ==
    /\ up /\ up' = FALSE
    /\ UNCHANGED <<run, clients, service, limiter, reapAt, scraper>>

listen == \E c \in Conns : Drop(c) \/ Admit(c) \/ Limit(c)

Next ==
    \/ WarmedUp \/ listen \/ AcceptThrows \/ ReapTimer \/ ReapShard \/ Tick \/ Stop
    \/ \E c \in Conns :
          Arrive(c) \/ OptionThrows(c) \/ Write429(c) \/ Drain429(c) \/ handle_client(c)
    \/ MetricsAcceptThrows
    \/ \E m \in Scrapes : ScrapeArrive(m) \/ metrics_listen(m) \/ serve_metrics(m)

Spec == Init /\ [][Next]_vars

\* The warm-up ends (WarmUpEnds of ConnectionPool), and the io thread resumes
\* the loops of the process when they can go on.  Of clients and scrapers
\* nothing is assumed: the code has no timeout, and any of them may stop
\* sending and reading for good.
Fairness ==
    /\ WF_vars(WarmedUp) /\ WF_vars(listen) /\ WF_vars(ReapTimer) /\ WF_vars(ReapShard)
    /\ \A m \in Scrapes : WF_vars(metrics_listen(m))

FairSpec == Spec /\ Fairness

-----------------------------------------------------------------------------
(* Properties. *)

\* Types of the composition; those of the limiter are in RateLimiter.
TypeOK ==
    /\ up \in BOOLEAN /\ run \in {"warming", "listening", "dead"}
    /\ taken \in 0..arrived /\ arrived \in 0..NConns
    /\ stage \in [Conns -> {"absent", "queued", "dropped", "cut", "spawned",
                            "write429", "drain429", "closed"}]
    /\ cids \in 0..taken /\ rate_limited \in 0..cids
    /\ admittedAt \in [Conns -> 0..now \cup {Never}]
    /\ phase \in [Conns -> {"waiting", "serving", "refusing", "done"}]
    /\ requests \in 0..cids /\ fallbacks \in 0..requests
    /\ RL!TypeOK /\ reapAt \in 0..MaxTime + ReapPeriod
    /\ metrics \in {"off", "listening", "dead"}
    /\ scrape \in [Scrapes -> {"absent", "queued", "read", "write", "drain", "closed"}]

Dropped == {c \in Conns : stage[c] = "dropped"}
Waiting == {c \in Conns : stage[c] = "spawned" /\ phase[c] = "waiting"}

\* Every connection that got a correlation id is counted once, as a request
\* or as rate-limited, or was dropped, or its handle_client() is about to
\* start.  (So aegis_requests_total is not the "Total requests accepted by
\* the listener" of metrics.hpp:61: those that get a 429 are not in it.)
Accounted == cids = requests + rate_limited + Cardinality(Dropped) + Cardinality(Waiting)

\* The limiter's promise to the backends: in any window of time a client gets
\* no more connections through than the burst and what the window refills,
\* although its bucket is reaped and made again in between.
WindowBound ==
    \A k \in Clients : \A from, to \in 0..now : from <= to =>
        Unit * Cardinality({c \in Conns : ClientOf[c] = k /\ admittedAt[c] \in from..to})
            <= Capacity + Rate * (to - from)

\* reap_loop() keeps the limiter small ("grows without bound",
\* rate_limiter.hpp:31): a client that stays away is forgotten within the
\* idle threshold and one period of the timer, listener dead or not.
ForgottenInTime ==
    up => \A k \in DOMAIN buckets : now - buckets[k].last <= IdleThreshold + ReapPeriod

\* A page of metrics is a snapshot: it never shows more refused requests than
\* requests, nor more connections than were accepted.
PageConsistent ==
    \A m \in Scrapes :
        /\ page[m].fallbacks <= page[m].requests
        /\ page[m].requests + page[m].rate_limited <= cids

\* The session of client c ends (SessionEnds of Session), or it takes its 429
\* and closes; scraper m sends something, takes its page and closes.
ClientActs(c) == WF_vars(Write429(c) \/ Drain429(c)) /\ WF_vars(handle_client(c))
ScraperActs(m) == WF_vars(serve_metrics(m))

\* Who was accepted, and does its part, is looked after to the end, also when
\* the listener has died in the meantime and all others are stuck; only a
\* signal stops it.
Accepted(c) == stage[c] \in {"spawned", "write429", "drain429"}
Over(c) == stage[c] = "closed" \/ phase[c] = "done"
AcceptedEnds == \A c \in Conns : ClientActs(c) => (Accepted(c) ~> Over(c) \/ ~up)

\* A waiting connection is accepted, unless an exception has ended listen()
\* or a signal the process; no other client can keep it waiting, although its
\* session, its 429 or its scrape may never end (main.cpp:122, 129).
QueuedTaken == \A c \in Conns : stage[c] = "queued" ~> stage[c] # "queued" \/ run = "dead" \/ ~up

\* The metrics port answers a scraper that does its part, whatever has
\* happened to the listener and however long clients and other scrapers stay.
ScrapeAnswered ==
    \A m \in Scrapes : ScraperActs(m) =>
        (scrape[m] = "queued" ~> scrape[m] = "closed" \/ metrics = "dead" \/ ~up)

-----------------------------------------------------------------------------
(* What the documents say and the code does not do. *)

\* "for every incoming connection, decides which backend should handle it"
\* (README.md:3): as long as the proxy runs, a connection is accepted.
EveryConnectionTaken == \A c \in Conns : stage[c] = "queued" ~> stage[c] # "queued" \/ ~up
=============================================================================
