---------------------------- MODULE SessionProofs ---------------------------
(***************************************************************************)
(* Proofs about Session: for any number of clients and backends, any ring, *)
(* any request length and any thresholds.                                  *)
(***************************************************************************)
EXTENDS Session, OperatorProofs

-----------------------------------------------------------------------------
(***************************************************************************)
(* Retry safety.  SingleSource is not inductive: that the client has got   *)
(* nothing has to be known at every point from which another backend, or   *)
(* the 503, may still answer.  The link between the relay and the retry    *)
(* decision is response_started, which is set before the first write.      *)
(***************************************************************************)
Uncommitted == {"idle", "loop", "giveup", "connecting", "replay", "write503"}

ControlOK ==
    /\ pc \in [Sessions -> PCs]
    /\ b2c \in [Sessions -> LegPCs]
    /\ started \in [Sessions -> BOOLEAN]
    /\ toClient \in [Sessions -> SUBSET (Backends \cup {"503", NoBackend})]
    /\ cur \in [Sessions -> Backends \cup {NoBackend}]

Commit(s) ==
    /\ pc[s] \in Uncommitted => toClient[s] = {}
    /\ pc[s] = "replay" => b2c[s] = "read"
    /\ pc[s] = "relay" => /\ toClient[s] \subseteq {cur[s]}
                          /\ toClient[s] # {} => started[s]
                          /\ b2c[s] = "write" => started[s]
    /\ pc[s] = "drain" => toClient[s] \subseteq {"503"}
    /\ \A x, y \in toClient[s] : x = y

CommitInv == ControlOK /\ \A s \in Sessions : Commit(s)

LEMMA InitCommit == Init => CommitInv
  BY DEF Init, CommitInv, ControlOK, Commit, PCs, Admitted, Holding, Answering, LegPCs

\* The steps of session s leave the control state of the others alone.
Others(s) == \A r \in Sessions \ {s} :
    pc'[r] = pc[r] /\ b2c'[r] = b2c[r] /\ started'[r] = started[r]
    /\ toClient'[r] = toClient[r] /\ cur'[r] = cur[r]

LEMMA OthersCommit ==
    ASSUME CommitInv, NEW s \in Sessions, Others(s), ControlOK', Commit(s)'
    PROVE  CommitInv'
  <1> SUFFICES ASSUME NEW r \in Sessions, r # s PROVE Commit(r)'
    BY DEF CommitInv
  <1> QED  BY DEF CommitInv, Commit, Others

\* What a step of session s has to show.
CommitStep(s) == ControlOK' /\ Others(s) /\ Commit(s)'

\* Steps that do not touch the control state.
LEMMA UnseenCommit ==
    ASSUME CommitInv, UNCHANGED <<pc, b2c, started, toClient, cur>>
    PROVE  CommitInv'
  BY DEF CommitInv, ControlOK, Commit

\* The retry loop: nothing has reached the client, and nothing does.
LEMMA LoopCommit ==
    ASSUME CommitInv, NEW s \in Sessions,
           \/ \E b \in Backends : BreakerSkip(s, b) \/ AdmitPooled(s, b) \/ AdmitConnect(s, b)
           \/ Spawn(s) \/ ConnectOk(s) \/ ConnectFail(s) \/ ReplayOk(s) \/ ReplayFail(s)
           \/ Fallback503(s)
    PROVE  CommitStep(s)
  <1> USE DEF CommitInv, CommitStep, ControlOK, Others, Commit, Uncommitted, PCs, Admitted,
              Holding, Answering, LegPCs, retry, legs
  <1>1. CASE Spawn(s)
    BY <1>1 DEF Spawn
  <1>2. ASSUME NEW b \in Backends, BreakerSkip(s, b) PROVE CommitStep(s)
    BY <1>2 DEF BreakerSkip, Reaches, GiveUpOn
  <1>3. ASSUME NEW b \in Backends, AdmitPooled(s, b) PROVE CommitStep(s)
    BY <1>3 DEF AdmitPooled, Reaches, Attach
  <1>4. ASSUME NEW b \in Backends, AdmitConnect(s, b) PROVE CommitStep(s)
    BY <1>4 DEF AdmitConnect, Reaches
  <1>5. CASE ConnectOk(s)
    BY <1>5 DEF ConnectOk, Attach
  <1>6. CASE ConnectFail(s)
    BY <1>6 DEF ConnectFail, AttemptFailed, GiveUpOn
  <1>7. CASE ReplayOk(s)
    BY <1>7 DEF ReplayOk
  <1>8. CASE ReplayFail(s)
    BY <1>8 DEF ReplayFail, AttemptFailed, GiveUpOn, ResetLegs
  <1>9. CASE Fallback503(s)
    BY <1>9 DEF Fallback503
  <1> QED  BY <1>1, <1>2, <1>3, <1>4, <1>5, <1>6, <1>7, <1>8, <1>9, Zenon

\* The backend-to-client leg: the flag is up before the bytes go out.
LEMMA LegCommit ==
    ASSUME CommitInv, NEW s \in Sessions,
           \/ B2CRead(s) \/ B2CEof(s) \/ B2CWrite(s) \/ B2CWriteFail(s)
           \/ B2CAbort(s)
    PROVE  CommitStep(s)
  <1> USE DEF CommitInv, CommitStep, ControlOK, Others, Commit, Uncommitted, PCs, LegPCs,
              B2C, Relaying, control, retry
  <1>1. CASE B2CRead(s)
    BY <1>1 DEF B2CRead, GoOn
  <1>2. CASE B2CEof(s)
    BY <1>2 DEF B2CEof
  <1>3. CASE B2CWrite(s)
    BY <1>3 DEF B2CWrite, GoOn
  <1>4. ASSUME NEW h \in {"ended", "aborted"}, B2CWriteStops(s, h) PROVE CommitStep(s)
    BY <1>4 DEF B2CWriteStops
  <1>5. CASE B2CAbort(s)
    BY <1>4, <1>5 DEF B2CAbort
  <1> QED  BY <1>1, <1>2, <1>3, <1>4, <1>5 DEF B2CWriteFail

\* The ends of a session: a relay that failed had not started to answer.
LEMMA EndCommit ==
    ASSUME CommitInv, NEW s \in Sessions,
           RelaySucceeded(s) \/ RelayFailed(s) \/ Write503(s) \/ DrainEof(s)
    PROVE  CommitStep(s)
  <1> USE DEF CommitInv, CommitStep, ControlOK, Others, Commit, Uncommitted, PCs, Admitted,
              Holding, Answering, LegPCs, retry, legs
  <1>1. CASE RelaySucceeded(s)
    BY <1>1 DEF RelaySucceeded, RelayOver, Relaying, ResetLegs
  <1>2. CASE RelayFailed(s)
    BY <1>2 DEF RelayFailed, RelayOver, Relaying, ResetLegs, AttemptFailed, GiveUpOn
  <1>3. CASE Write503(s)
    BY <1>3 DEF Write503
  <1>4. CASE DrainEof(s)
    BY <1>4 DEF DrainEof
  <1> QED  BY <1>1, <1>2, <1>3, <1>4

\* The client-to-backend leg, draining and the clock.
LEMMA QuietSteps ==
    ASSUME NEW s \in Sessions,
           \/ C2BRead(s) \/ C2BEof(s) \/ C2BWrite(s) \/ C2BWriteFail(s) \/ C2BAbort(s)
           \/ DrainRead(s) \/ Tick \/ Quiescent
    PROVE  UNCHANGED <<pc, b2c, started, toClient, cur>>
  BY Zenon DEF C2BRead, C2BEof, C2BWrite, C2BWriteFail, C2BWriteStops, C2BAbort, C2B, DrainRead,
         Tick, Quiescent, vars, control, retry, legs

LEMMA NextCommit == CommitInv /\ [Next]_vars => CommitInv'
  <1> SUFFICES ASSUME CommitInv, [Next]_vars PROVE CommitInv'
    OBVIOUS
  <1>1. ASSUME NEW s \in Sessions, CommitStep(s) PROVE CommitInv'
    BY <1>1, OthersCommit DEF CommitStep
  <1>2. ASSUME NEW s \in Sessions, SessionStep(s) PROVE CommitInv'
    <2>1. CASE Spawn(s) \/ IODone(s)
      BY <1>1, <1>2, <2>1, LoopCommit, LegCommit, EndCommit, QuietSteps, UnseenCommit
      DEF IODone
    <2>2. CASE Runs(s)
      BY <1>1, <1>2, <2>2, LoopCommit, LegCommit, EndCommit, QuietSteps, UnseenCommit DEF Runs
    <2>3. CASE Arrives(s) \/ PeerCloses(s)
      BY <1>1, <1>2, <2>3, LegCommit, EndCommit, QuietSteps, UnseenCommit
      DEF Arrives, PeerCloses
    <2> QED  BY <1>2, <2>1, <2>2, <2>3 DEF SessionStep
  <1>3. CASE Tick \/ Quiescent
    BY <1>3, UnseenCommit DEF Tick, Quiescent, vars, retry, legs
  <1>4. CASE UNCHANGED vars
    BY <1>4, UnseenCommit DEF vars, retry, legs
  <1> QED  BY <1>2, <1>3, <1>4 DEF Next

\* Retry safety for every configuration: a client never gets bytes from two
\* backends, nor from a backend and the 503 answer.
THEOREM RetrySafe == Spec => []SingleSource
  <1>1. CommitInv => SingleSource
    BY DEF CommitInv, Commit, SingleSource
  <1> QED  BY <1>1, InitCommit, NextCommit, PTL DEF Spec

-----------------------------------------------------------------------------
(***************************************************************************)
(* The breakers in use.  For a breaker, the steps of a session are of      *)
(* three kinds: the session is admitted to a backend, it leaves it and     *)
(* reports an outcome, or it does neither.  Each kind also has its effect  *)
(* on the attempts and on the breaker's gauge.                             *)
(***************************************************************************)
Aside(s) == /\ pc' \in [Sessions -> PCs]
            /\ cur' \in [Sessions -> Backends \cup {NoBackend}]
            /\ \A r \in Sessions \ {s} : pc'[r] = pc[r] /\ cur'[r] = cur[r]

\* excluded.insert(b); ++attempts
Tried(s, b) == /\ excluded' = [excluded EXCEPT ![s] = @ \cup {b}]
               /\ attempts' = [attempts EXCEPT ![s] = @ + 1]

Enters(s, b) ==
    /\ Aside(s) /\ pc[s] \notin Admitted /\ pc'[s] \in Admitted /\ cur'[s] = b
    /\ Reaches(s, b) /\ UNCHANGED <<excluded, attempts>>
    /\ allows(br[b]) /\ br' = [br EXCEPT ![b] = allow_request(@)]

Leaves(s) ==
    /\ Aside(s) /\ pc[s] \in Admitted /\ pc'[s] \notin Admitted
    /\ \/ br' = [br EXCEPT ![cur[s]] = record_success(@)]
       \/ br' = [br EXCEPT ![cur[s]] = record_failure(@)]
    /\ ShowBreaker(cur[s])
    /\ Tried(s, cur[s]) \/ UNCHANGED <<excluded, attempts>>

Stays(s) ==
    /\ Aside(s) /\ br' = br
    /\ pc[s] \in Admitted <=> pc'[s] \in Admitted
    /\ pc[s] \in Admitted => cur'[s] = cur[s]
    /\ \/ UNCHANGED <<excluded, attempts, gBreaker>>
       \/ \E b \in Backends : Reaches(s, b) /\ Tried(s, b)

CallTypes == /\ pc \in [Sessions -> PCs]
             /\ cur \in [Sessions -> Backends \cup {NoBackend}]

LEMMA Classify ==
    ASSUME CallTypes, NEW s \in Sessions, SessionStep(s)
    PROVE  (\E b \in Backends : Enters(s, b)) \/ Leaves(s) \/ Stays(s)
  <1> USE DEF CallTypes, Aside, PCs, Admitted, Holding, Answering, retry, gauges
  <1>1. CASE Spawn(s)
    BY <1>1 DEF Spawn, Stays
  <1>2. CASE Runs(s)
    <2>1. ASSUME NEW b \in Backends, BreakerSkip(s, b) PROVE Stays(s)
      BY <2>1, Zenon DEF BreakerSkip, Reaches, GiveUpOn, Tried, Stays
    <2>2. ASSUME NEW b \in Backends, AdmitPooled(s, b) PROVE Enters(s, b)
      BY <2>2 DEF AdmitPooled, Reaches, Attach, Enters
    <2>3. ASSUME NEW b \in Backends, AdmitConnect(s, b) PROVE Enters(s, b)
      BY <2>3 DEF AdmitConnect, Reaches, Enters
    <2>4. ASSUME RelaySucceeded(s) PROVE Leaves(s)
      BY <2>4 DEF RelaySucceeded, RelayOver, Relaying, Leaves
    <2>5. ASSUME RelayFailed(s) PROVE Leaves(s)
      BY <2>5 DEF RelayFailed, RelayOver, Relaying, AttemptFailed, RecordFailure, GiveUpOn, Tried, Leaves
    <2>6. ASSUME Fallback503(s) PROVE Stays(s)
      BY <2>6 DEF Fallback503, Stays
    <2>7. ASSUME C2BAbort(s) \/ B2CAbort(s) PROVE Stays(s)
      BY <2>7, Zenon DEF C2BAbort, C2BWriteStops, B2CAbort, B2CWriteStops, C2B, B2C, control, Stays
    <2> QED  BY <1>2, <2>1, <2>2, <2>3, <2>4, <2>5, <2>6, <2>7 DEF Runs
  <1>3. CASE IODone(s)
    <2>1. ASSUME ConnectOk(s) \/ ReplayOk(s) PROVE Stays(s)
      BY <2>1 DEF ConnectOk, Attach, ReplayOk, Stays
    <2>2. ASSUME ConnectFail(s) PROVE Leaves(s)
      BY <2>2 DEF ConnectFail, AttemptFailed, RecordFailure, GiveUpOn, Tried, Leaves
    <2>3. ASSUME ReplayFail(s) PROVE Leaves(s)
      BY <2>3 DEF ReplayFail, AttemptFailed, RecordFailure, GiveUpOn, Tried, Leaves
    <2>4. ASSUME Write503(s) PROVE Stays(s)
      BY <2>4 DEF Write503, Stays
    <2>5. ASSUME C2BWrite(s) \/ C2BWriteFail(s) \/ B2CWrite(s) \/ B2CWriteFail(s)
          PROVE  Stays(s)
      BY <2>5, Zenon DEF C2BWrite, C2BWriteFail, C2BWriteStops, B2CWrite, B2CWriteFail,
                  B2CWriteStops, C2B, B2C, control, Stays
    <2> QED  BY <1>3, <2>1, <2>2, <2>3, <2>4, <2>5 DEF IODone
  <1>4. CASE Arrives(s)
    BY <1>4 DEF Arrives, C2BRead, B2CRead, DrainRead, C2B, B2C, control, Stays
  <1>5. CASE PeerCloses(s)
    BY <1>5 DEF PeerCloses, C2BEof, B2CEof, DrainEof, C2B, B2C, control, Stays
  <1> QED  BY <1>1, <1>2, <1>3, <1>4, <1>5 DEF SessionStep

\* The inductive invariant: TrialSlotHeld, with what record_failure() needs
\* to stay in range and what tells whose slot it is.
BreakersInv ==
    /\ CallTypes
    /\ br \in [Backends -> Breaker]
    /\ \A s \in Sessions : pc[s] \in Admitted => cur[s] \in Backends
    /\ \A b \in Backends : br[b].state = "CLOSED" => br[b].failures < FailureThreshold
    /\ \A b \in Backends : br[b].trial => br[b].state = "HALF_OPEN"
    /\ TrialSlotHeld

LEMMA InitBreakers == Init => BreakersInv
  BY NewFacts DEF Init, BreakersInv, CallTypes, TrialSlotHeld, PCs, Admitted, Holding

\* Admission: the session that takes the slot is the one that holds it.
LEMMA EntersBreakers ==
    ASSUME BreakersInv, NEW s \in Sessions, NEW b \in Backends, Enters(s, b)
    PROVE  BreakersInv'
  <1> USE DEF BreakersInv
  <1>1. br[b] \in Breaker /\ br'[b] = allow_request(br[b]) /\ allows(br[b])
    BY DEF Enters
  <1>2. /\ br'[b] \in Breaker
        /\ br[b].state = "CLOSED" => br'[b] = br[b]
        /\ br[b].state # "CLOSED" => br'[b].state = "HALF_OPEN"
    BY <1>1, AllowFacts, Zenon
  <1>3. \A d \in Backends : d # b => br'[d] = br[d]
    BY DEF Enters
  <1>4. br' \in [Backends -> Breaker]
    BY <1>2 DEF Enters
  <1>5. CallTypes' /\ \A r \in Sessions : pc'[r] \in Admitted => cur'[r] \in Backends
    BY DEF Enters, Aside, CallTypes
  <1>6. \A d \in Backends : /\ br'[d].state = "CLOSED" => br'[d].failures < FailureThreshold
                            /\ br'[d].trial => br'[d].state = "HALF_OPEN"
    BY <1>2, <1>3
  <1>7. TrialSlotHeld'
    BY <1>2, <1>3 DEF TrialSlotHeld, Enters, Aside
  <1> QED  BY <1>4, <1>5, <1>6, <1>7

\* Departure: the slot is empty afterwards, whoever leaves.
LEMMA LeavesBreakers ==
    ASSUME BreakersInv, NEW s \in Sessions, Leaves(s)
    PROVE  BreakersInv'
  <1> USE DEF BreakersInv
  <1> DEFINE b == cur[s]
  <1>1. b \in Backends /\ br[b] \in Breaker
    BY DEF Leaves
  <1> HIDE DEF b
  <1>2. br'[b] = record_success(br[b]) \/ br'[b] = record_failure(br[b])
    BY <1>1 DEF Leaves, b
  <1>3. /\ br'[b] \in Breaker
        /\ br'[b].state = "CLOSED" => br'[b].failures < FailureThreshold
        /\ ~br'[b].trial
    BY <1>1, <1>2, OutcomeFacts
  <1>4. \A d \in Backends : d # b => br'[d] = br[d]
    BY <1>1 DEF Leaves, b
  <1>5. br' \in [Backends -> Breaker]
    BY <1>1, <1>3 DEF Leaves, b
  <1>6. CallTypes' /\ \A r \in Sessions : pc'[r] \in Admitted => cur'[r] \in Backends
    BY DEF Leaves, Aside, CallTypes
  <1>7. TrialSlotHeld'
    <2> SUFFICES ASSUME NEW d \in Backends, br'[d].trial
                 PROVE  \E r \in Sessions : pc'[r] \in Admitted /\ cur'[r] = d
      BY Zenon DEF TrialSlotHeld
    <2>1. d # b /\ br[d].trial
      BY <1>3, <1>4
    <2>2. PICK r \in Sessions : pc[r] \in Admitted /\ cur[r] = d
      BY <2>1 DEF TrialSlotHeld
    <2>3. r \in Sessions \ {s}
      BY <2>1, <2>2 DEF b
    <2> QED  BY <2>2, <2>3 DEF Leaves, Aside
  <1> QED  BY <1>1, <1>3, <1>4, <1>5, <1>6, <1>7

LEMMA StaysBreakers ==
    ASSUME BreakersInv, NEW s \in Sessions, Stays(s)
    PROVE  BreakersInv'
  BY DEF BreakersInv, Stays, Aside, CallTypes, TrialSlotHeld

LEMMA TickBreakers == ASSUME BreakersInv, Tick PROVE BreakersInv'
  <1>1. \A b \in Backends : /\ br'[b] \in Breaker /\ br'[b].state = br[b].state
                            /\ br'[b].trial = br[b].trial /\ br'[b].failures = br[b].failures
    BY ElapseFacts DEF Tick, BreakersInv
  <1>2. br' \in [Backends -> Breaker]
    BY <1>1 DEF Tick
  <1> QED
    BY <1>1, <1>2 DEF Tick, BreakersInv, CallTypes, TrialSlotHeld, retry

LEMMA NextBreakers == BreakersInv /\ [Next]_vars => BreakersInv'
  <1> SUFFICES ASSUME BreakersInv, [Next]_vars PROVE BreakersInv'
    OBVIOUS
  <1>1. ASSUME NEW s \in Sessions, SessionStep(s) PROVE BreakersInv'
    BY <1>1, Classify, EntersBreakers, LeavesBreakers, StaysBreakers, Zenon DEF BreakersInv
  <1>2. CASE Tick
    BY <1>2, TickBreakers
  <1>3. CASE UNCHANGED vars
    BY <1>3 DEF vars, retry, BreakersInv, CallTypes, TrialSlotHeld
  <1> QED  BY <1>1, <1>2, <1>3 DEF Next, Quiescent

THEOREM BreakersInvariant == Spec => []BreakersInv
  BY InitBreakers, NextBreakers, PTL DEF Spec

\* No path through handle_client leaks a HALF_OPEN trial slot, for any number
\* of clients and backends.
THEOREM SlotsHeld == Spec => []TrialSlotHeld
  BY BreakersInvariant, PTL DEF BreakersInv

-----------------------------------------------------------------------------
(***************************************************************************)
(* Every backend gets the quiet period its breaker promises.               *)
(***************************************************************************)
Calls(b) == {s \in Sessions : pc[s] \in Admitted /\ cur[s] = b}
Quiet(b) == IF br[b].state = "OPEN" THEN Cooldown - br[b].elapsed ELSE 0

LEMMA EntersQuiet ==
    ASSUME BreakersInv, NEW s \in Sessions, NEW b \in Backends, Enters(s, b),
           NEW d \in Backends
    PROVE  [QP(d)!QNext]_(QP(d)!qvars)
  <1>1. CASE d = b
    <2>1. br[b] \in Breaker /\ br'[b] = allow_request(br[b]) /\ allows(br[b])
      BY DEF BreakersInv, Enters
    <2>2. (br[b].state = "OPEN" => br[b].elapsed = Cooldown) /\ br'[b].state # "OPEN"
      BY <2>1, AllowFacts, Zenon
    <2>3. Quiet(b) = 0 /\ Quiet(b)' = 0
      <3>1. Cooldown - Cooldown = 0
        BY BreakerAssumption
      <3> QED  BY <2>2, <3>1, Zenon DEF Quiet
    <2>4. s \notin Calls(b) /\ Calls(b)' = Calls(b) \cup {s}
      BY DEF Calls, Enters, Aside
    <2>5. QP(b)!Start(s)
      BY <2>3, <2>4 DEF QP!Start, Quiet, Calls
    <2> QED  BY <1>1, <2>5 DEF QP!QNext
  <1>2. CASE d # b
    <2>1. br'[d] = br[d]
      BY <1>2 DEF Enters, BreakersInv
    <2>2. Calls(d)' = Calls(d)
      BY <1>2 DEF Calls, Enters, Aside
    <2> QED  BY <2>1, <2>2 DEF QP!qvars, Calls
  <1> QED  BY <1>1, <1>2

LEMMA LeavesQuiet ==
    ASSUME BreakersInv, NEW s \in Sessions, Leaves(s), NEW d \in Backends
    PROVE  [QP(d)!QNext]_(QP(d)!qvars)
  <1>1. CASE d = cur[s]
    <2>1. /\ br[d] \in Breaker
          /\ br[d].state = "CLOSED" => br[d].failures < FailureThreshold
          /\ br'[d] = record_success(br[d]) \/ br'[d] = record_failure(br[d])
      BY <1>1 DEF BreakersInv, Leaves
    <2>2. Quiet(d)' = Quiet(d) \/ (Quiet(d) = 0 /\ Quiet(d)' = Cooldown)
      <3>1. \/ br[d].state = "OPEN" /\ br'[d].state = "OPEN" /\ br'[d].elapsed = br[d].elapsed
            \/ br[d].state # "OPEN" /\ br'[d].state # "OPEN"
            \/ br[d].state # "OPEN" /\ br'[d].state = "OPEN" /\ br'[d].elapsed = 0
        BY <2>1, OutcomeCooldown
      <3>2. Cooldown - 0 = Cooldown
        BY BreakerAssumption
      <3> QED  BY <3>1, <3>2, Zenon DEF Quiet
    <2>3. s \in Calls(d) /\ Calls(d)' = Calls(d) \ {s}
      BY <1>1 DEF Calls, Leaves, Aside
    <2>4. QP(d)!Finish(s)
      BY <2>2, <2>3 DEF QP!Finish, Quiet, Calls
    <2> QED  BY <2>4 DEF QP!QNext
  <1>2. CASE d # cur[s]
    <2>1. br'[d] = br[d]
      BY <1>2 DEF Leaves, BreakersInv
    <2>2. Calls(d)' = Calls(d)
      BY <1>2 DEF Calls, Leaves, Aside
    <2> QED  BY <2>1, <2>2 DEF QP!qvars, Calls
  <1> QED  BY <1>1, <1>2

LEMMA TickQuiet ==
    ASSUME BreakersInv, Tick, NEW d \in Backends
    PROVE  [QP(d)!QNext]_(QP(d)!qvars)
  <1>1. br[d] \in Breaker /\ br'[d] = Elapse(br[d])
    BY DEF BreakersInv, Tick
  <1>2. Calls(d)' = Calls(d)
    BY DEF Calls, Tick, retry
  <1>3. CASE br[d].state = "OPEN" /\ br[d].elapsed < Cooldown
    <2>1. br'[d].state = "OPEN" /\ br'[d].elapsed = br[d].elapsed + 1
      BY <1>1, <1>3, ElapseFacts
    <2>2. Quiet(d) > 0 /\ Quiet(d)' = Quiet(d) - 1
      BY <1>1, <1>3, <2>1, FieldTypes, BreakerAssumption DEF Quiet
    <2> QED  BY <1>2, <2>2 DEF QP!QNext, QP!Wait, Quiet, Calls
  <1>4. CASE ~(br[d].state = "OPEN" /\ br[d].elapsed < Cooldown)
    BY <1>1, <1>2, <1>4, ElapseFacts DEF QP!qvars, Calls
  <1> QED  BY <1>3, <1>4

\* For every number of clients and backends, each backend is left alone for a
\* whole cooldown after its breaker trips.
THEOREM BackendsLeftAlone == Spec => ImplementsQuietPeriod
  <1>1. Init => \A b \in Backends : QP(b)!QInit
    BY NewFacts DEF Init, QP!QInit, Admitted, Holding
  <1>2. BreakersInv /\ [Next]_vars => [\A b \in Backends : [QP(b)!QNext]_(QP(b)!qvars)]_vars
    <2> SUFFICES ASSUME BreakersInv, Next, NEW d \in Backends
                 PROVE  [QP(d)!QNext]_(QP(d)!qvars)
      OBVIOUS
    <2>1. ASSUME NEW s \in Sessions, Stays(s) PROVE UNCHANGED QP(d)!qvars
      <3>1. Calls(d)' = Calls(d) /\ br' = br
        BY <2>1 DEF Calls, Stays, Aside
      <3> QED  BY <3>1 DEF QP!qvars, Calls
    <2>2. ASSUME NEW s \in Sessions, SessionStep(s) PROVE [QP(d)!QNext]_(QP(d)!qvars)
      BY <2>1, <2>2, Classify, EntersQuiet, LeavesQuiet DEF BreakersInv
    <2>3. CASE Quiescent
      BY <2>3 DEF Quiescent, vars, retry, QP!qvars
    <2> QED  BY <2>2, <2>3, TickQuiet DEF Next
  <1> QED
    BY <1>1, <1>2, BreakersInvariant, PTL DEF Spec, ImplementsQuietPeriod

-----------------------------------------------------------------------------
(***************************************************************************)
(* Sessions implement ClientService.  Where a session is, and the two      *)
(* counters, tell its phase; five actions change the phase.                *)
(***************************************************************************)
Serving == {"loop", "giveup"} \cup Admitted

Serves(s) == /\ pc[s] \in Serving /\ pc'[s] \in Serving
             /\ UNCHANGED <<requests, fallbacks, succs>>

\* The retry loop and the relay go on.
LEMMA LoopServes ==
    ASSUME CallTypes, NEW s \in Sessions,
           \/ \E b \in Backends : BreakerSkip(s, b) \/ AdmitPooled(s, b) \/ AdmitConnect(s, b)
           \/ ConnectOk(s) \/ ConnectFail(s) \/ ReplayOk(s) \/ ReplayFail(s) \/ RelayFailed(s)
    PROVE  Serves(s)
  <1> USE DEF CallTypes, Serves, Serving, Admitted, Holding, counters
  <1>1. ASSUME NEW b \in Backends, BreakerSkip(s, b) PROVE Serves(s)
    BY <1>1 DEF BreakerSkip, Reaches
  <1>2. ASSUME NEW b \in Backends, AdmitPooled(s, b) PROVE Serves(s)
    BY <1>2, Zenon DEF AdmitPooled, Reaches, Attach
  <1>3. ASSUME NEW b \in Backends, AdmitConnect(s, b) PROVE Serves(s)
    BY <1>3 DEF AdmitConnect, Reaches
  <1>4. CASE ConnectOk(s) \/ ConnectFail(s)
    BY <1>4, Zenon DEF ConnectOk, Attach, ConnectFail
  <1>5. CASE ReplayOk(s) \/ ReplayFail(s)
    BY <1>5 DEF ReplayOk, ReplayFail
  <1>6. CASE RelayFailed(s)
    BY <1>6, Zenon DEF RelayFailed, RelayOver, Relaying
  <1> QED  BY <1>1, <1>2, <1>3, <1>4, <1>5, <1>6

\* The legs move bytes; a drain reads them.
LEMMA BytesOnly ==
    ASSUME NEW s \in Sessions,
           \/ C2BRead(s) \/ C2BEof(s) \/ C2BWrite(s) \/ C2BWriteFail(s) \/ C2BAbort(s)
           \/ B2CRead(s) \/ B2CEof(s) \/ B2CWrite(s) \/ B2CWriteFail(s) \/ B2CAbort(s)
           \/ DrainRead(s)
    PROVE  UNCHANGED <<pc, requests, fallbacks, succs>>
  BY Zenon DEF C2BRead, C2BEof, C2BWrite, C2BWriteFail, C2BWriteStops, C2BAbort, C2B, B2CRead, B2CEof,
         B2CWrite, B2CWriteFail, B2CWriteStops, B2CAbort, B2C, DrainRead, control, counters

\* What a step of session s does to its place and to the counters.
Moved(s) ==
    \/ Serves(s)
    \/ UNCHANGED <<pc, requests, fallbacks, succs>>
    \/ /\ pc[s] = "idle" /\ pc'[s] = "loop"
       /\ requests' = requests + 1 /\ UNCHANGED <<fallbacks, succs>>
    \/ /\ pc[s] = "relay" /\ pc'[s] = "closed"
       /\ CountSuccess(cur[s]) /\ UNCHANGED <<requests, fallbacks>>
    \/ /\ pc[s] \in Serving /\ pc'[s] = "write503"
       /\ fallbacks' = fallbacks + 1 /\ UNCHANGED <<requests, succs>>
    \/ pc[s] = "write503" /\ pc'[s] = "drain" /\ UNCHANGED <<requests, fallbacks, succs>>
    \/ pc[s] = "drain" /\ pc'[s] = "closed" /\ UNCHANGED <<requests, fallbacks, succs>>

LEMMA StepMoves ==
    ASSUME CallTypes, NEW s \in Sessions, SessionStep(s)
    PROVE  Moved(s)
  <1>1. CASE Spawn(s)
    BY <1>1 DEF Spawn, CallTypes, Moved
  <1>2. CASE RelaySucceeded(s)
    BY <1>2, Zenon DEF RelaySucceeded, RelayOver, Relaying, CallTypes, Moved
  <1>3. CASE Fallback503(s)
    BY <1>3 DEF Fallback503, record_fallback_503, CallTypes, Serving, Moved
  <1>4. CASE Write503(s) \/ DrainEof(s)
    BY <1>4 DEF Write503, DrainEof, CallTypes, Moved, counters
  <1> QED
    BY <1>1, <1>2, <1>3, <1>4, LoopServes, BytesOnly, Zenon
    DEF SessionStep, Runs, IODone, Arrives, PeerCloses, Moved

\* A step that moves only session s moves only its phase.
LEMMA PhaseMoves ==
    ASSUME NEW s \in Sessions, \A r \in Sessions \ {s} : pc'[r] = pc[r]
    PROVE  [r \in Sessions |-> Phase(r)]' = [[r \in Sessions |-> Phase(r)] EXCEPT ![s] = Phase(s)']
  <1>1. \A r \in Sessions \ {s} : Phase(r)' = Phase(r)
    BY DEF Phase
  <1> HIDE DEF Phase
  <1> QED  BY <1>1, Zenon

\* The listener's view of a session (Proxy) is right for every configuration:
\* one request, then one service or one counted 503.
THEOREM ServiceRefined == Spec => ImplementsClientService
  <1>1. Init => CS!SInit
    <2>1. Init => \A s \in Sessions : Phase(s) = "waiting"
      BY DEF Init, Phase, Answering
    <2> QED  BY <2>1 DEF Init, CS!SInit
  <1>2. BreakersInv /\ [Next]_vars => [CS!SNext]_(CS!svars)
    <2> SUFFICES ASSUME BreakersInv, [Next]_vars PROVE [CS!SNext]_(CS!svars)
      OBVIOUS
    <2>1. ASSUME NEW s \in Sessions, SessionStep(s) PROVE [CS!SNext]_(CS!svars)
      <3>1. Moved(s) /\ Aside(s)
        BY <2>1, StepMoves, Classify, Zenon DEF BreakersInv, Enters, Leaves, Stays
      <3> DEFINE ph == [r \in Sessions |-> Phase(r)]
      <3>2. ph' = [ph EXCEPT ![s] = Phase(s)'] /\ ph[s] = Phase(s)
        BY <3>1, PhaseMoves DEF Aside
      <3> HIDE DEF ph
      <3>3. \/ Phase(s)' = Phase(s) /\ UNCHANGED <<requests, fallbacks>>
            \/ /\ Phase(s) = "waiting" /\ Phase(s)' = "serving"
               /\ requests' = requests + 1 /\ UNCHANGED fallbacks
            \/ Phase(s) = "serving" /\ Phase(s)' = "done" /\ UNCHANGED <<requests, fallbacks>>
            \/ /\ Phase(s) = "serving" /\ Phase(s)' = "refusing"
               /\ fallbacks' = fallbacks + 1 /\ UNCHANGED requests
            \/ Phase(s) = "refusing" /\ Phase(s)' = "done" /\ UNCHANGED <<requests, fallbacks>>
        BY <3>1 DEF Moved, Serves, Serving, Admitted, Holding, Answering, Phase
      <3>4. CASE Phase(s)' = Phase(s) /\ UNCHANGED <<requests, fallbacks>>
        <4>1. ph' = ph
          BY <3>2, <3>4, Zenon DEF ph
        <4> QED  BY <3>4, <4>1 DEF ph, CS!svars
      <3>5. CASE ~(Phase(s)' = Phase(s) /\ UNCHANGED <<requests, fallbacks>>)
        <4>1. CS!Begin(s) \/ CS!Finish(s) \/ CS!Refuse(s) \/ CS!Close(s)
          BY <3>2, <3>3, <3>5, Zenon DEF ph, CS!Begin, CS!Finish, CS!Refuse, CS!Close, CS!Moves
        <4> QED  BY <4>1 DEF CS!SNext
      <3> QED  BY <3>4, <3>5
    <2>2. CASE Tick \/ UNCHANGED vars
      BY <2>2 DEF Tick, vars, counters, CS!svars, Phase
    <2> QED  BY <2>1, <2>2 DEF Next, Quiescent
  <1> QED
    BY <1>1, <1>2, BreakersInvariant, PTL DEF Spec, ImplementsClientService, CS!SSpec

-----------------------------------------------------------------------------
(***************************************************************************)
(* The attempts of a session.                                              *)
(***************************************************************************)
BudgetInv ==
    /\ excluded \in [Sessions -> SUBSET Backends]
    /\ attempts \in [Sessions -> 0..MaxAttempts]
    /\ \A s \in Sessions : IsFiniteSet(excluded[s])
    /\ AttemptBudget

\* The ring hands out a backend that was not tried yet.
LEMMA TargetIs ==
    ASSUME NEW s \in Sessions, NEW b, Reaches(s, b)
    PROVE  b \in Backends /\ b \notin excluded[s] /\ attempts[s] < MaxAttempts
  <1>1. DOMAIN Ring \in SUBSET Nat /\ KeyHash[s] \in Nat
    BY SessionAssumption
  <1>2. b = get_backend_excluding(Ring, KeyHash[s], excluded[s]) /\ b # NoBackend
    BY DEF Reaches, Target
  <1>3. b \notin excluded[s] /\ \E p \in DOMAIN Ring : b = Ring[p]
    <2>1. get_backend_excluding(Ring, KeyHash[s], excluded[s]) # NoBackend
      BY <1>2, Zenon
    <2>2. /\ get_backend_excluding(Ring, KeyHash[s], excluded[s]) \notin excluded[s]
          /\ \E p \in DOMAIN Ring : get_backend_excluding(Ring, KeyHash[s], excluded[s]) = Ring[p]
      BY <1>1, <2>1, LookupIs, Zenon
    <2> QED  BY <1>2, <2>2, Zenon
  <1> QED  BY <1>3, SessionAssumption DEF Reaches, InBudget

LEMMA InitBudget == Init => BudgetInv
  <1> SUFFICES ASSUME Init PROVE BudgetInv
    OBVIOUS
  <1>1. IsFiniteSet({}) /\ Cardinality({}) = 0
    BY FS_EmptySet
  <1>2. 0 \in 0..MaxAttempts
    BY SessionAssumption
  <1> QED  BY <1>1, <1>2 DEF Init, BudgetInv, AttemptBudget, Admitted, Holding

\* A backend is given up.
LEMMA TriedBudget ==
    ASSUME BudgetInv, NEW s \in Sessions, Aside(s), NEW b \in Backends, Tried(s, b),
           b \notin excluded[s], attempts[s] < MaxAttempts, pc'[s] \notin Admitted
    PROVE  BudgetInv'
  <1> USE DEF BudgetInv
  <1>1. /\ excluded'[s] = excluded[s] \cup {b} /\ attempts'[s] = attempts[s] + 1
        /\ \A r \in Sessions \ {s} : excluded'[r] = excluded[r] /\ attempts'[r] = attempts[r]
    BY DEF Tried
  <1>2. /\ IsFiniteSet(excluded'[s])
        /\ Cardinality(excluded'[s]) = Cardinality(excluded[s]) + 1
    <2>1. IsFiniteSet(excluded[s])
      OBVIOUS
    <2>2. /\ IsFiniteSet(excluded[s] \cup {b})
          /\ Cardinality(excluded[s] \cup {b}) = Cardinality(excluded[s]) + 1
      BY <2>1, FS_AddElement, Zenon
    <2> QED  BY <1>1, <2>2, Zenon
  <1>3. attempts[s] \in 0..MaxAttempts /\ attempts[s] = Cardinality(excluded[s])
    BY DEF AttemptBudget
  <1>4. attempts'[s] \in 0..MaxAttempts /\ attempts'[s] = Cardinality(excluded'[s])
    BY <1>1, <1>2, <1>3, SessionAssumption
  <1>5. attempts' \in [Sessions -> 0..MaxAttempts] /\ excluded' \in [Sessions -> SUBSET Backends]
    BY <1>1, <1>4 DEF Tried
  <1>6. \A r \in Sessions \ {s} :
          /\ attempts'[r] = Cardinality(excluded'[r]) /\ IsFiniteSet(excluded'[r])
          /\ pc'[r] \in Admitted => cur'[r] \notin excluded'[r] /\ attempts'[r] < MaxAttempts
    BY <1>1, Zenon DEF AttemptBudget, Aside
  <1> QED  BY <1>2, <1>4, <1>5, <1>6, Zenon DEF AttemptBudget

LEMMA NextBudget == BreakersInv /\ BudgetInv /\ [Next]_vars => BudgetInv'
  <1> SUFFICES ASSUME BreakersInv, BudgetInv, [Next]_vars PROVE BudgetInv'
    OBVIOUS
  <1>1. ASSUME NEW s \in Sessions, NEW b \in Backends, Enters(s, b) PROVE BudgetInv'
    <2>1. b \notin excluded[s] /\ attempts[s] < MaxAttempts
      BY <1>1, TargetIs, Zenon DEF Enters
    <2> QED  BY <1>1, <2>1, Zenon DEF Enters, Aside, BudgetInv, AttemptBudget
  <1>2. ASSUME NEW s \in Sessions, Leaves(s) PROVE BudgetInv'
    <2>1. CASE Tried(s, cur[s])
      <3>1. cur[s] \in Backends /\ cur[s] \notin excluded[s] /\ attempts[s] < MaxAttempts
        BY <1>2, Zenon DEF Leaves, BreakersInv, BudgetInv, AttemptBudget
      <3> QED  BY <1>2, <2>1, <3>1, TriedBudget DEF Leaves
    <2>2. CASE UNCHANGED <<excluded, attempts>>
      BY <1>2, <2>2, Zenon DEF Leaves, Aside, BudgetInv, AttemptBudget
    <2> QED  BY <1>2, <2>1, <2>2 DEF Leaves
  <1>3. ASSUME NEW s \in Sessions, Stays(s) PROVE BudgetInv'
    <2>1. ASSUME NEW b \in Backends, Reaches(s, b), Tried(s, b) PROVE BudgetInv'
      <3>1. b \notin excluded[s] /\ attempts[s] < MaxAttempts
        BY <2>1, TargetIs
      <3>2. Aside(s) /\ pc'[s] \notin Admitted
        BY <1>3, <2>1 DEF Stays, Reaches, Admitted, Holding
      <3> QED  BY <2>1, <3>1, <3>2, TriedBudget
    <2>2. CASE UNCHANGED <<excluded, attempts>>
      BY <1>3, <2>2 DEF Stays, Aside, BudgetInv, AttemptBudget
    <2> QED  BY <1>3, <2>1, <2>2 DEF Stays
  <1>4. CASE Tick \/ UNCHANGED vars
    BY <1>4 DEF Tick, vars, retry, BudgetInv, AttemptBudget
  <1> QED  BY <1>1, <1>2, <1>3, <1>4, Classify, Zenon DEF Next, Quiescent, BreakersInv

\* For every ring and every max_attempts (session.cpp:115-125, 150-154): the
\* attempts are the excluded backends, no backend is tried twice and the
\* budget holds.
THEOREM BudgetHolds == Spec => []AttemptBudget
  <1>1. BudgetInv => AttemptBudget
    BY DEF BudgetInv
  <1> QED  BY <1>1, InitBreakers, NextBreakers, InitBudget, NextBudget, PTL DEF Spec

-----------------------------------------------------------------------------
(* The breaker gauge. *)
LagInv == gBreaker \in [Backends -> 0..2] /\ BreakerGaugeLag

LEMMA CodeIs == ASSUME NEW x \in BreakerState PROVE StateCode(x) \in 0..2
  BY DEF StateCode, BreakerState

LEMMA InitLag == Init => LagInv
  <1>1. StateCode("CLOSED") = 0 /\ 0 \in 0..2
    BY DEF StateCode
  <1> QED  BY <1>1, NewFacts DEF Init, LagInv, BreakerGaugeLag

LEMMA NextLag == BreakersInv /\ LagInv /\ [Next]_vars => LagInv'
  <1> SUFFICES ASSUME BreakersInv, LagInv, [Next]_vars PROVE LagInv'
    OBVIOUS
  <1>0. \A b \in Backends : StateCode(br[b].state) \in 0..2
    BY CodeIs, FieldTypes DEF BreakersInv
  <1>1. ASSUME NEW s \in Sessions, NEW b \in Backends, Enters(s, b) PROVE LagInv'
    <2>1. br[b] \in Breaker /\ br'[b] = allow_request(br[b]) /\ allows(br[b])
      BY <1>1 DEF BreakersInv, Enters
    <2>2. \/ br'[b].state = br[b].state
          \/ br[b].state = "OPEN" /\ br'[b].state = "HALF_OPEN"
      <3>1. br[b].state \in BreakerState
        BY <2>1, FieldTypes, Zenon
      <3> QED  BY <2>1, <3>1, AllowFacts, Zenon DEF BreakerState
    <2>3. \A d \in Backends \ {b} : br'[d] = br[d] /\ gBreaker'[d] = gBreaker[d]
      BY <1>1, Zenon DEF Enters, Reaches, BreakersInv, LagInv
    <2>4. gBreaker'[b] = StateCode(br[b].state) /\ gBreaker' \in [Backends -> 0..2]
      BY <1>0, <1>1 DEF Enters, Reaches, LagInv
    <2> QED  BY <2>2, <2>3, <2>4 DEF LagInv, BreakerGaugeLag
  <1>2. ASSUME NEW s \in Sessions, Leaves(s) PROVE LagInv'
    <2> DEFINE c == cur[s]
    <2>1. c \in Backends
      BY <1>2 DEF Leaves, BreakersInv
    <2>2. BreakersInv'
      BY <1>2, LeavesBreakers
    <2>3. StateCode(br'[c].state) \in 0..2
      BY <2>1, <2>2, CodeIs, FieldTypes DEF BreakersInv
    <2>4. \A d \in Backends \ {c} : br'[d] = br[d] /\ gBreaker'[d] = gBreaker[d]
      BY <1>2 DEF Leaves, ShowBreaker, BreakersInv, LagInv
    <2>5. gBreaker'[c] = StateCode(br'[c].state) /\ gBreaker' \in [Backends -> 0..2]
      BY <1>2, <2>1, <2>3, Zenon DEF Leaves, ShowBreaker, LagInv
    <2> QED  BY <2>4, <2>5 DEF LagInv, BreakerGaugeLag
  <1>3. ASSUME NEW s \in Sessions, Stays(s) PROVE LagInv'
    <2>1. ASSUME NEW b \in Backends, Reaches(s, b) PROVE LagInv'
      BY <1>0, <1>3, <2>1, Zenon DEF Stays, Reaches, LagInv, BreakerGaugeLag
    <2>2. CASE UNCHANGED gBreaker
      BY <1>3, <2>2, Zenon DEF Stays, LagInv, BreakerGaugeLag
    <2> QED  BY <1>3, <2>1, <2>2 DEF Stays
  <1>4. CASE Tick
    <2>1. \A b \in Backends : br'[b].state = br[b].state
      BY <1>4, ElapseFacts DEF Tick, BreakersInv
    <2> QED  BY <1>4, <2>1 DEF Tick, gauges, LagInv, BreakerGaugeLag
  <1>5. CASE UNCHANGED vars
    BY <1>5 DEF vars, gauges, LagInv, BreakerGaugeLag
  <1> QED  BY <1>1, <1>2, <1>3, <1>4, <1>5, Classify DEF Next, Quiescent, BreakersInv

\* The gauge of every breaker (session.cpp:132, 168, 236): the state, or OPEN
\* for a breaker that has just gone HALF_OPEN, and nothing else.
THEOREM GaugeFollows == Spec => []BreakerGaugeLag
  <1>1. LagInv => BreakerGaugeLag
    BY DEF LagInv
  <1> QED  BY <1>1, InitBreakers, NextBreakers, InitLag, NextLag, PTL DEF Spec
=============================================================================
