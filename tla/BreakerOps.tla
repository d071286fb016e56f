----------------------------- MODULE BreakerOps -----------------------------
(***************************************************************************)
(* The methods of class CircuitBreaker (circuit_breaker.cpp) as operators  *)
(* on the value of its fields.  Every method holds mutex_ from its first   *)
(* line to its last, so each is one atomic change of one record; the       *)
(* modules that use breakers (CircuitBreaker, Session) decide when and by  *)
(* whom the methods are called.                                            *)
(*                                                                         *)
(* Time.  The code compares steady_clock::now() - opened_at_ with          *)
(* cooldown_period_ and uses the clock for nothing else.  The field        *)
(* elapsed is that difference, counted in ticks and kept at Cooldown once  *)
(* it is reached: now - opened_at_ < cooldown_period_ is elapsed <         *)
(* Cooldown.                                                               *)
(***************************************************************************)
EXTENDS Integers

CONSTANTS FailureThreshold,   \* failure_threshold_
          SuccessThreshold,   \* success_threshold_
          Cooldown            \* cooldown_period_, in ticks

ASSUME BreakerAssumption ==
    /\ FailureThreshold \in Nat \ {0}
    /\ SuccessThreshold \in Nat \ {0}
    /\ Cooldown \in Nat

BreakerState == {"CLOSED", "OPEN", "HALF_OPEN"}

\* The fields of a breaker: state_, consecutive_failures_,
\* consecutive_successes_, now - opened_at_, half_open_trial_in_flight_.
Breaker == [state     : BreakerState,
            failures  : 0..FailureThreshold,
            successes : 0..(SuccessThreshold - 1),
            elapsed   : 0..Cooldown,
            trial     : BOOLEAN]

NewBreaker == [state |-> "CLOSED", failures |-> 0, successes |-> 0,
               elapsed |-> 0, trial |-> FALSE]

\* static_cast<int>(breaker.state()), the value of the breaker gauge.
StateCode(st) == CASE st = "CLOSED"    -> 0
                   [] st = "OPEN"      -> 1
                   [] st = "HALF_OPEN" -> 2

\* One tick of the clock.  opened_at_ is read only while the breaker is OPEN.
Elapse(cb) == IF cb.state = "OPEN" /\ cb.elapsed < Cooldown
              THEN [cb EXCEPT !.elapsed = @ + 1]
              ELSE cb

-----------------------------------------------------------------------------
(***************************************************************************)
(* allow_request(): its return value, and the breaker it leaves behind.    *)
(***************************************************************************)

\* Seeded fault: HALF_OPEN admits without looking at the trial slot.
allows_no_gate(cb) ==
    \/ cb.state \in {"CLOSED", "HALF_OPEN"}
    \/ cb.state = "OPEN" /\ ~(cb.elapsed < Cooldown)

allows(cb) ==
    \/ cb.state = "CLOSED"
    \/ cb.state = "OPEN" /\ ~(cb.elapsed < Cooldown)
    \/ cb.state = "HALF_OPEN" /\ ~cb.trial

\* The cooldown is over: the caller becomes the trial.
StartTrial(cb) == [state |-> "HALF_OPEN", failures |-> cb.failures, successes |-> 0,
                   elapsed |-> cb.elapsed, trial |-> TRUE]

\* A refused request changes nothing.
allow_request(cb) ==
    CASE ~allows(cb) \/ cb.state = "CLOSED" -> cb
      [] allows(cb) /\ cb.state = "OPEN" -> StartTrial(cb)
      [] allows(cb) /\ cb.state = "HALF_OPEN" -> [cb EXCEPT !.trial = TRUE]

-----------------------------------------------------------------------------
(***************************************************************************)
(* record_success().  In OPEN a late success falls through to the last     *)
(* line of the method and clears the failure streak.                       *)
(***************************************************************************)

\* Seeded fault: a trial that succeeds does not give the slot back.
CountTrial_keeps_slot(cb) == [cb EXCEPT !.successes = @ + 1]

\* A trial succeeded, and more successes are needed.
CountTrial(cb) == [state |-> "HALF_OPEN", failures |-> cb.failures,
                   successes |-> cb.successes + 1, elapsed |-> cb.elapsed,
                   trial |-> FALSE]

\* Seeded fault: closing keeps the failure streak that tripped the breaker.
Close_keeps_streak(cb) == [state |-> "CLOSED", failures |-> cb.failures,
                           successes |-> 0, elapsed |-> cb.elapsed, trial |-> FALSE]

\* Enough trials succeeded.
Close(cb) == [state |-> "CLOSED", failures |-> 0, successes |-> 0,
              elapsed |-> cb.elapsed, trial |-> FALSE]

record_success(cb) ==
    IF cb.state = "HALF_OPEN"
    THEN IF cb.successes + 1 >= SuccessThreshold THEN Close(cb) ELSE CountTrial(cb)
    ELSE [cb EXCEPT !.failures = 0]

-----------------------------------------------------------------------------
(***************************************************************************)
(* record_failure().  A call that arrives in OPEN changes nothing, the     *)
(* cooldown included.                                                      *)
(***************************************************************************)

\* Seeded fault: a failed trial does not give the slot back.
Reopen_keeps_slot(cb) == [state |-> "OPEN", failures |-> cb.failures, successes |-> 0,
                          elapsed |-> 0, trial |-> cb.trial]

\* A trial failed: the cooldown starts again and the slot is given back.
Reopen(cb) == [state |-> "OPEN", failures |-> cb.failures, successes |-> 0,
               elapsed |-> 0, trial |-> FALSE]

\* Seeded fault: > for >= in the comparison with failure_threshold_.
CountFailure_off_by_one(cb) ==
    IF cb.failures + 1 > FailureThreshold
    THEN [cb EXCEPT !.state = "OPEN", !.failures = @ + 1, !.elapsed = 0]
    ELSE [cb EXCEPT !.failures = @ + 1]

\* One more failure in CLOSED, which may trip the breaker.
CountFailure(cb) ==
    IF cb.failures + 1 >= FailureThreshold
    THEN [state |-> "OPEN", failures |-> cb.failures + 1, successes |-> cb.successes,
          elapsed |-> 0, trial |-> cb.trial]
    ELSE [cb EXCEPT !.failures = @ + 1]

\* Seeded fault: a late failure restarts the cooldown of an OPEN breaker.
record_failure_restarts(cb) ==
    CASE cb.state = "HALF_OPEN" -> Reopen(cb)
      [] cb.state = "CLOSED"    -> CountFailure(cb)
      [] cb.state = "OPEN"      -> [cb EXCEPT !.elapsed = 0]

record_failure(cb) ==
    CASE cb.state = "HALF_OPEN" -> Reopen(cb)
      [] cb.state = "CLOSED"    -> CountFailure(cb)
      [] cb.state = "OPEN"      -> cb
=============================================================================
