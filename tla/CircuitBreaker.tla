--------------------------- MODULE CircuitBreaker ---------------------------
(***************************************************************************)
(* One CircuitBreaker object shared by concurrent requests.  A request     *)
(* that allow_request() lets through calls record_success() or             *)
(* record_failure() when it ends; between the two calls any number of      *)
(* calls by other requests, and any amount of time, may pass.  Nothing in  *)
(* the object ties an outcome to the admission it belongs to, which is     *)
(* what the properties below are about.                                    *)
(***************************************************************************)
EXTENDS BreakerOps, FiniteSets

CONSTANT Requests    \* the concurrent callers; each may come back again

VARIABLES
    br,         \* the breaker's fields
    flight,     \* history: under which state each request was let through
    polluted    \* history: an outcome of a request that was let through
                \* before the current HALF_OPEN period has been recorded in it

vars == <<br, flight, polluted>>

\* "none": not in flight; "closed": let through by a CLOSED breaker;
\* "trial": let through in the current HALF_OPEN period; "stale": was in
\* flight already when the latest HALF_OPEN period began.
Flight == {"none", "closed", "trial", "stale"}

InFlight == {c \in Requests : flight[c] # "none"}

Init ==
    /\ br = NewBreaker
    /\ flight = [c \in Requests |-> "none"]
    /\ polluted = FALSE

\* allow_request() returns true.  (When it returns false it changes nothing.)
Allow(c) ==
    /\ flight[c] = "none"
    /\ allows(br)
    /\ br' = allow_request(br)
    /\ flight' = [d \in Requests |->
                    CASE d = c /\ br.state = "CLOSED" -> "closed"
                      [] d = c /\ br.state # "CLOSED" -> "trial"
                      [] d # c /\ br.state = "OPEN" /\ flight[d] # "none" -> "stale"
                      [] d # c /\ ~(br.state = "OPEN" /\ flight[d] # "none") -> flight[d]]
    /\ polluted' = (polluted /\ br.state # "OPEN")

\* What the end of request c means for the history variables.
Lands(c) ==
    /\ flight[c] # "none"
    /\ flight' = [flight EXCEPT ![c] = "none"]
    /\ polluted' = (polluted \/ (br.state = "HALF_OPEN" /\ flight[c] # "trial"))

Success(c) == Lands(c) /\ br' = record_success(br)

Failure(c) == Lands(c) /\ br' = record_failure(br)

Tick ==
    /\ br.state = "OPEN" /\ br.elapsed < Cooldown
    /\ br' = Elapse(br)
    /\ UNCHANGED <<flight, polluted>>

Next == Tick \/ \E c \in Requests : Allow(c) \/ Success(c) \/ Failure(c)

Spec == Init /\ [][Next]_vars

\* The clock advances, and a request that was let through ends some day.
Fairness ==
    /\ WF_vars(Tick)
    /\ \A c \in Requests : WF_vars(Success(c) \/ Failure(c))

FairSpec == Spec /\ Fairness

-----------------------------------------------------------------------------
(* Properties. *)

\* Types of the fields; the streaks stay within their thresholds, so that
\* ++consecutive_failures_ and ++consecutive_successes_ never run past them.
TypeOK ==
    /\ br \in Breaker
    /\ flight \in [Requests -> Flight]
    /\ polluted \in BOOLEAN

\* A breaker that is CLOSED is at least one failure away from tripping: the
\* streak that tripped it is forgotten by the time it closes again, whatever
\* late outcomes were recorded while it was OPEN or HALF_OPEN.
ClosedBelowThreshold == br.state = "CLOSED" => br.failures < FailureThreshold

\* half_open_trial_in_flight_ never outlives the trial: when it is set the
\* breaker is HALF_OPEN and a trial is really in flight, so the slot it
\* guards is always given back by somebody.
SlotHasOwner ==
    br.trial => /\ br.state = "HALF_OPEN"
                /\ \E c \in Requests : flight[c] = "trial"

\* "it allows exactly ONE trial request through (HALF_OPEN)"
\* (circuit_breaker.hpp:13): no two trials of one HALF_OPEN period are in
\* flight together.
SingleTrial ==
    br.state = "HALF_OPEN" =>
        \A c, d \in Requests : flight[c] = "trial" /\ flight[d] = "trial" => c = d

\* The gate does its work as long as no outcome of an older request is
\* recorded in the HALF_OPEN period: then at most one trial is in flight,
\* and the slot is taken exactly when there is one.
SingleTrialUnlessStale ==
    br.state = "HALF_OPEN" /\ ~polluted =>
        /\ \A c, d \in Requests : flight[c] = "trial" /\ flight[d] = "trial" => c = d
        /\ (\E c \in Requests : flight[c] = "trial") => br.trial

\* The breaker keeps the promise of module QuietPeriod: after it trips the
\* backend gets a full cooldown without a single new call, and late failures
\* (circuit_breaker.cpp:81) never prolong it.
QP == INSTANCE QuietPeriod
        WITH calls <- InFlight,
             quiet <- IF br.state = "OPEN" THEN Cooldown - br.elapsed ELSE 0

ImplementsQuietPeriod == QP!QSpec

\* A breaker does not refuse for ever: again and again it reaches a state in
\* which allow_request() would return true.
KeepsAdmitting == []<>allows(br)
=============================================================================
