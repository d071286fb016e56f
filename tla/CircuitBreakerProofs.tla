------------------------ MODULE CircuitBreakerProofs ------------------------
(***************************************************************************)
(* Proofs about CircuitBreaker, for any set of requests, any thresholds    *)
(* and any cooldown.                                                       *)
(***************************************************************************)
EXTENDS CircuitBreaker, OperatorProofs

-----------------------------------------------------------------------------
(***************************************************************************)
(* The inductive invariant is the conjunction of the four invariants: the  *)
(* types need ClosedBelowThreshold (or ++consecutive_failures_ could leave *)
(* its range), and SingleTrialUnlessStale carries the fact that an empty   *)
(* slot means that no trial is in flight.                                  *)
(***************************************************************************)
Inv == TypeOK /\ ClosedBelowThreshold /\ SlotHasOwner /\ SingleTrialUnlessStale

LEMMA InitInv == Init => Inv
  <1> SUFFICES ASSUME Init PROVE Inv
    OBVIOUS
  <1>1. TypeOK
    BY NewFacts DEF Init, TypeOK, Flight
  <1> QED
    BY <1>1, NewFacts
    DEF Init, Inv, ClosedBelowThreshold, SlotHasOwner, SingleTrialUnlessStale

\* allow_request() returning true preserves the invariant.
LEMMA AllowInv == ASSUME Inv, NEW c \in Requests, Allow(c) PROVE Inv'
  <1> USE DEF Inv
  <1>1. br \in Breaker /\ br' = allow_request(br) /\ allows(br)
    BY DEF TypeOK, Allow
  <1>2. TypeOK'
    <2>1. br' \in Breaker
      BY <1>1, AllowFacts
    <2>2. flight' \in [Requests -> Flight]
      BY DEF TypeOK, Allow, Flight
    <2>3. polluted' \in BOOLEAN
      BY DEF Allow
    <2> QED  BY <2>1, <2>2, <2>3 DEF TypeOK
  <1>3. CASE br.state = "CLOSED"
    <2>1. br' = br
      BY <1>1, <1>3, AllowFacts
    <2> QED  BY <1>2, <1>3, <2>1 DEF ClosedBelowThreshold, SlotHasOwner, SingleTrialUnlessStale
  <1>4. CASE br.state = "OPEN"
    <2>1. br'.state = "HALF_OPEN" /\ br'.trial = TRUE
      BY <1>1, <1>4, AllowFacts
    <2>2. flight'[c] = "trial" /\ \A d \in Requests : d # c => flight'[d] # "trial"
      BY <1>4 DEF Allow, TypeOK, Flight
    <2> QED  BY <1>2, <2>1, <2>2 DEF ClosedBelowThreshold, SlotHasOwner, SingleTrialUnlessStale
  <1>5. CASE br.state = "HALF_OPEN"
    <2>1. br'.state = "HALF_OPEN" /\ br'.trial = TRUE /\ ~br.trial
      BY <1>1, <1>5, AllowFacts
    <2>2. flight'[c] = "trial" /\ \A d \in Requests : d # c => flight'[d] = flight[d]
      BY <1>5 DEF Allow, TypeOK, Flight
    <2>3. polluted' = polluted
      BY <1>5 DEF Allow, TypeOK
    <2> QED
      BY <1>2, <1>5, <2>1, <2>2, <2>3
      DEF ClosedBelowThreshold, SlotHasOwner, SingleTrialUnlessStale
  <1> QED  BY <1>1, <1>3, <1>4, <1>5, FieldTypes DEF BreakerState

\* What the end of a request does to the history variables.
LEMMA LandsFacts ==
    ASSUME TypeOK, NEW c \in Requests, Lands(c)
    PROVE  /\ flight' \in [Requests -> Flight]
           /\ polluted' \in BOOLEAN
           /\ flight'[c] = "none"
           /\ \A d \in Requests : d # c => flight'[d] = flight[d]
           /\ polluted => polluted'
           /\ br.state = "HALF_OPEN" /\ ~polluted' => flight[c] = "trial"
  BY DEF TypeOK, Lands, Flight

LEMMA SuccessInv == ASSUME Inv, NEW c \in Requests, Success(c) PROVE Inv'
  <1> USE DEF Inv
  <1>1. br \in Breaker /\ br' = record_success(br) /\ Lands(c) /\ TypeOK
    BY DEF TypeOK, Success
  <1>2. TypeOK'
    BY <1>1, SuccessFacts, LandsFacts DEF TypeOK
  <1>3. CASE br.state = "HALF_OPEN"
    <2>1. /\ br'.state \in {"HALF_OPEN", "CLOSED"} /\ br'.trial = FALSE
          /\ br'.state = "CLOSED" => br'.failures = 0
      BY <1>1, <1>3, SuccessFacts
    <2>2. ~polluted' => \A d \in Requests : flight'[d] # "trial"
      BY <1>1, <1>3, LandsFacts DEF SingleTrialUnlessStale
    <2> QED
      BY <1>2, <2>1, <2>2, BreakerAssumption
      DEF ClosedBelowThreshold, SlotHasOwner, SingleTrialUnlessStale
  <1>4. CASE br.state # "HALF_OPEN"
    <2>1. br'.state = br.state /\ br'.trial = br.trial /\ br'.failures = 0
      BY <1>1, <1>4, SuccessFacts
    <2> QED
      BY <1>2, <1>4, <2>1, BreakerAssumption
      DEF ClosedBelowThreshold, SlotHasOwner, SingleTrialUnlessStale
  <1> QED  BY <1>3, <1>4

LEMMA FailureInv == ASSUME Inv, NEW c \in Requests, Failure(c) PROVE Inv'
  <1> USE DEF Inv
  <1>1. /\ br \in Breaker /\ br' = record_failure(br) /\ Lands(c) /\ TypeOK
        /\ br.state = "CLOSED" => br.failures < FailureThreshold
    BY DEF TypeOK, Failure, ClosedBelowThreshold
  <1>2. TypeOK'
    BY <1>1, FailureFacts, LandsFacts DEF TypeOK
  <1>3. CASE br.state = "HALF_OPEN"
    <2>1. br'.state = "OPEN" /\ br'.trial = FALSE
      BY <1>1, <1>3, FailureFacts
    <2> QED  BY <1>2, <2>1 DEF ClosedBelowThreshold, SlotHasOwner, SingleTrialUnlessStale
  <1>4. CASE br.state = "CLOSED"
    <2>1. /\ br'.trial = br.trial
          /\ br'.state \in {"CLOSED", "OPEN"}
          /\ br'.state = "CLOSED" => br'.failures < FailureThreshold
      BY <1>1, <1>4, FailureFacts
    <2> QED  BY <1>2, <1>4, <2>1 DEF ClosedBelowThreshold, SlotHasOwner, SingleTrialUnlessStale
  <1>5. CASE br.state = "OPEN"
    <2>1. br' = br
      BY <1>1, <1>5, FailureFacts
    <2> QED  BY <1>2, <1>5, <2>1 DEF ClosedBelowThreshold, SlotHasOwner, SingleTrialUnlessStale
  <1> QED  BY <1>1, <1>3, <1>4, <1>5, FieldTypes DEF BreakerState

LEMMA TickInv == ASSUME Inv, Tick PROVE Inv'
  <1>1. /\ br' \in Breaker /\ br'.state = "OPEN" /\ br'.trial = br.trial
        /\ br.state = "OPEN"
    BY ElapseFacts DEF Inv, TypeOK, Tick
  <1> QED
    BY <1>1 DEF Inv, TypeOK, Tick, ClosedBelowThreshold, SlotHasOwner, SingleTrialUnlessStale

LEMMA NextInv == Inv /\ [Next]_vars => Inv'
  <1> SUFFICES ASSUME Inv, [Next]_vars PROVE Inv'
    OBVIOUS
  <1>1. CASE Tick
    BY <1>1, TickInv
  <1>2. ASSUME NEW c \in Requests, Allow(c) PROVE Inv'
    BY <1>2, AllowInv
  <1>3. ASSUME NEW c \in Requests, Success(c) PROVE Inv'
    BY <1>3, SuccessInv
  <1>4. ASSUME NEW c \in Requests, Failure(c) PROVE Inv'
    BY <1>4, FailureInv
  <1>5. CASE UNCHANGED vars
    BY <1>5 DEF vars, Inv, TypeOK, ClosedBelowThreshold, SlotHasOwner, SingleTrialUnlessStale
  <1> QED  BY <1>1, <1>2, <1>3, <1>4, <1>5 DEF Next

\* For every number of requests, thresholds and cooldown: the fields keep
\* their ranges, a CLOSED breaker is below its threshold, the slot is never
\* leaked, and the gate admits one trial at a time while no outcome of an
\* older request interferes.
THEOREM Invariance == Spec => []Inv
  BY InitInv, NextInv, PTL DEF Spec

\* The fields of circuit_breaker.hpp keep their ranges.
THEOREM TypeCorrect == Spec => []TypeOK
  BY Invariance, PTL DEF Inv

\* A breaker that has closed starts from a streak below the threshold
\* (circuit_breaker.cpp:40-79), whatever outcomes came late.
THEOREM ClosesReset == Spec => []ClosedBelowThreshold
  BY Invariance, PTL DEF Inv

\* half_open_trial_in_flight_ is never set without a trial that will clear it.
THEOREM SlotNeverLeaks == Spec => []SlotHasOwner
  BY Invariance, PTL DEF Inv

\* One trial at a time, as long as nothing stale is recorded in HALF_OPEN.
THEOREM GateWorks == Spec => []SingleTrialUnlessStale
  BY Invariance, PTL DEF Inv

-----------------------------------------------------------------------------
(***************************************************************************)
(* The breaker implements QuietPeriod.                                     *)
(***************************************************************************)
Quiet == IF br.state = "OPEN" THEN Cooldown - br.elapsed ELSE 0

LEMMA StepRefines == Inv /\ [Next]_vars => [QP!QNext]_(QP!qvars)
  <1> SUFFICES ASSUME Inv, [Next]_vars PROVE [QP!QNext]_(QP!qvars)
    OBVIOUS
  <1> USE DEF Quiet
  <1>0. br \in Breaker /\ TypeOK
    BY DEF Inv, TypeOK
  <1>1. CASE Tick
    <2>1. br.state = "OPEN" /\ br'.state = "OPEN" /\ br'.elapsed = br.elapsed + 1
      BY <1>0, <1>1, ElapseFacts DEF Tick
    <2>2. Quiet > 0 /\ Quiet' = Quiet - 1
      BY <1>0, <1>1, <2>1, FieldTypes, BreakerAssumption DEF Tick
    <2>3. InFlight' = InFlight
      BY <1>1 DEF Tick, InFlight
    <2> QED  BY <2>2, <2>3 DEF QP!QNext, QP!Wait
  <1>2. ASSUME NEW c \in Requests, Allow(c) PROVE QP!Start(c)
    <2>1. InFlight' = InFlight \cup {c} /\ c \notin InFlight
      BY <1>0, <1>2 DEF Allow, InFlight, TypeOK, Flight
    <2>2. Quiet = 0 /\ Quiet' = 0
      <3>1. /\ br.state = "OPEN" => br.elapsed = Cooldown
            /\ br'.state # "OPEN"
        BY <1>0, <1>2, AllowFacts DEF Allow
      <3> QED  BY <3>1, BreakerAssumption
    <2> QED  BY <2>1, <2>2 DEF QP!Start
  <1>3. ASSUME NEW c \in Requests, Lands(c)
        PROVE  c \in InFlight /\ InFlight' = InFlight \ {c}
    BY <1>0, <1>3 DEF Lands, InFlight, TypeOK, Flight
  <1>4. ASSUME NEW c \in Requests, Success(c) PROVE QP!Finish(c)
    <2>1. Quiet' = Quiet
      BY <1>0, <1>4, SuccessFacts DEF Success
    <2> QED  BY <1>3, <1>4, <2>1 DEF Success, QP!Finish
  <1>5. ASSUME NEW c \in Requests, Failure(c) PROVE QP!Finish(c)
    <2>1. br' = record_failure(br) /\ (br.state = "CLOSED" => br.failures < FailureThreshold)
      BY <1>5 DEF Failure, Inv, ClosedBelowThreshold
    <2>2. Quiet' = Quiet \/ (Quiet = 0 /\ Quiet' = Cooldown)
      <3>1. CASE br.state = "OPEN"
        BY <1>0, <2>1, <3>1, FailureFacts
      <3>2. CASE br.state # "OPEN"
        <4>1. br'.state = "OPEN" => br'.elapsed = 0
          BY <1>0, <2>1, <3>2, FailureFacts, FieldTypes DEF BreakerState
        <4> QED  BY <3>2, <4>1, BreakerAssumption
      <3> QED  BY <3>1, <3>2
    <2> QED  BY <1>3, <1>5, <2>2 DEF Failure, QP!Finish
  <1>6. CASE UNCHANGED vars
    BY <1>6 DEF vars, InFlight, QP!qvars
  <1> QED
    BY <1>1, <1>2, <1>4, <1>5, <1>6 DEF Next, QP!QNext

\* The breaker implements the abstract quiet period for every set of
\* requests, thresholds and cooldown: from the step that trips it, a whole
\* cooldown passes without a new call, and no late outcome changes that.
THEOREM QuietPeriodRefined == Spec => ImplementsQuietPeriod
  <1>1. Init => QP!QInit
    BY DEF Init, NewBreaker, InFlight, QP!QInit
  <1>2. Inv /\ [Next]_vars => [QP!QNext]_(QP!qvars)
    BY StepRefines
  <1> QED
    BY <1>1, <1>2, Invariance, PTL DEF Spec, ImplementsQuietPeriod, QP!QSpec
=============================================================================
