-------------------------- MODULE SessionDataProofs -------------------------
(***************************************************************************)
(* What sessions move and count: the bytes of a request, the sockets of    *)
(* the pool, the gauges and counters, and the types of all of it.          *)
(***************************************************************************)
EXTENDS SessionProofs

-----------------------------------------------------------------------------
(***************************************************************************)
(* The bytes of the request.  FaithfulForward speaks of the relay only;    *)
(* the invariant follows the bytes through the whole life of a session:    *)
(* the replay buffer is what was read until it overflows, nothing has been *)
(* sent before an attempt, and the chunk of a leg that writes is what the  *)
(* backend has not got yet.                                                *)
(***************************************************************************)
LEMMA PositionsAre ==
    ASSUME NEW m \in Nat, NEW n \in Nat, m + n <= ReqLen
    PROVE  Positions(m, n) \in Bytes /\ Len(Positions(m, n)) = n
  BY SessionAssumption DEF Positions, Bytes

LEMMA PositionsJoin ==
    ASSUME NEW m \in Nat, NEW n \in Nat
    PROVE  Positions(0, m) \o Positions(m, n) = Positions(0, m + n)
  BY DEF Positions

LEMMA PositionsCut ==
    ASSUME NEW m \in Nat, NEW k \in Nat, NEW n \in 0..k
    PROVE  SubSeq(Positions(m, k), 1, n) = Positions(m, n)
  BY DEF Positions

LEMMA PositionsNone == Positions(0, 0) = <<>> /\ <<>> \in Bytes /\ Len(<<>>) = 0
  BY DEF Positions, Bytes

ByteTypes ==
    /\ pc \in [Sessions -> PCs]
    /\ capped \in [Sessions -> BOOLEAN] /\ clientEof \in [Sessions -> BOOLEAN]
    /\ consumed \in [Sessions -> 0..ReqLen]
    /\ c2b \in [Sessions -> LegPCs]
    /\ data \in [Sessions -> Bytes] /\ chunk \in [Sessions -> Bytes]
    /\ sent \in [Sessions -> Bytes]

\* No byte of the request has gone to the backend of the attempt yet.
Unsent == {"idle", "loop", "connecting", "replay"}

Captured(s) ==
    /\ data[s] = Positions(0, Len(data[s])) /\ Len(data[s]) <= consumed[s]
    /\ pc[s] \notin {"drain", "closed"} /\ ~capped[s] => Len(data[s]) = consumed[s]
    /\ pc[s] \in Unsent => ~capped[s] /\ sent[s] = <<>>
    /\ pc[s] = "replay" => c2b[s] = "read"
    /\ pc[s] = "relay" =>
          /\ sent[s] = Positions(0, Len(sent[s])) /\ Len(sent[s]) <= consumed[s]
          /\ c2b[s] = "read" => Len(sent[s]) = consumed[s]
          /\ c2b[s] = "write" => chunk[s] = Positions(Len(sent[s]), consumed[s] - Len(sent[s]))

ForwardInv == ByteTypes /\ \A s \in Sessions : Captured(s)

LEMMA InitForward == Init => ForwardInv
  <1>1. 0 \in 0..ReqLen
    BY SessionAssumption
  <1> QED
    BY <1>1, PositionsNone
    DEF Init, ForwardInv, ByteTypes, Captured, PCs, Admitted, Holding, Answering, LegPCs, Unsent

bytes == <<capped, clientEof, consumed, c2b, data, chunk, sent>>

BytesAside(s) == \A r \in Sessions \ {s} :
    /\ pc'[r] = pc[r] /\ capped'[r] = capped[r] /\ consumed'[r] = consumed[r]
    /\ c2b'[r] = c2b[r] /\ data'[r] = data[r] /\ chunk'[r] = chunk[r] /\ sent'[r] = sent[r]

ForwardStep(s) == ByteTypes' /\ BytesAside(s) /\ Captured(s)'

LEMMA OthersForward ==
    ASSUME ForwardInv, NEW s \in Sessions, ForwardStep(s)
    PROVE  ForwardInv'
  <1> SUFFICES ASSUME NEW r \in Sessions, r # s PROVE Captured(r)'
    BY DEF ForwardInv, ForwardStep
  <1> QED  BY Zenon DEF ForwardInv, ForwardStep, BytesAside, Captured

\* The same session state.
LEMMA SameForward ==
    ASSUME ForwardInv, UNCHANGED <<pc, bytes>>
    PROVE  ForwardInv'
  BY DEF bytes, ForwardInv, ByteTypes, Captured

\* The session goes on without moving a byte.
LEMMA LoopForward ==
    ASSUME ForwardInv, NEW s \in Sessions, NEW to \in PCs \ {"relay", "replay"},
           pc' = [pc EXCEPT ![s] = to], UNCHANGED bytes,
           pc[s] \in Unsent \/ to \notin Unsent,
           pc[s] \notin {"drain", "closed"} \/ to \in {"drain", "closed"}
    PROVE  ForwardStep(s)
  <1>1. ByteTypes'
    BY DEF ForwardInv, ByteTypes, bytes
  <1>2. BytesAside(s)
    BY DEF ForwardInv, ByteTypes, bytes, BytesAside
  <1>3. Captured(s)'
    BY DEF ForwardInv, ByteTypes, bytes, Captured, Unsent
  <1> QED  BY <1>1, <1>2, <1>3 DEF ForwardStep

\* A new connection: what was captured is replayed before the relay starts.
LEMMA AttachForward ==
    ASSUME ForwardInv, NEW s \in Sessions, pc[s] \in {"loop", "connecting"}, Attach(s)
    PROVE  ForwardStep(s)
  <1> USE DEF Attach, request
  <1>1. ByteTypes'
    BY DEF ForwardInv, ByteTypes, PCs, Admitted, Holding, LegPCs
  <1>2. BytesAside(s)
    BY DEF ForwardInv, ByteTypes, BytesAside
  <1>3. ~capped[s] /\ sent[s] = <<>> /\ Len(data[s]) = consumed[s]
    BY Zenon DEF ForwardInv, Captured, Unsent
  <1>4. c2b'[s] = "read" /\ pc'[s] = IF data[s] = <<>> THEN "relay" ELSE "replay"
    BY DEF ForwardInv, ByteTypes
  <1>5. CASE data[s] = <<>>
    <2>1. pc'[s] = "relay" /\ sent'[s] = Positions(0, 0) /\ Len(sent'[s]) = 0 /\ consumed'[s] = 0
      BY <1>3, <1>4, <1>5, PositionsNone, Zenon
    <2> QED  BY <1>1, <1>2, <1>3, <1>4, <2>1, Zenon DEF ForwardStep, ForwardInv, Captured, Unsent
  <1>6. CASE data[s] # <<>>
    <2>1. pc'[s] = "replay"
      BY <1>4, <1>6
    <2> QED  BY <1>1, <1>2, <1>3, <1>4, <2>1, Zenon DEF ForwardStep, ForwardInv, Captured, Unsent
  <1> QED  BY <1>5, <1>6

LEMMA ReplayForward ==
    ASSUME ForwardInv, NEW s \in Sessions, ReplayOk(s)
    PROVE  ForwardStep(s)
  <1> USE DEF ReplayOk, request
  <1>1. ByteTypes'
    BY DEF ForwardInv, ByteTypes, PCs, Admitted, Holding
  <1>2. BytesAside(s)
    BY DEF ForwardInv, ByteTypes, BytesAside
  <1>3. pc[s] = "replay" /\ pc'[s] = "relay" /\ sent'[s] = data[s]
    BY DEF ForwardInv, ByteTypes
  <1> QED  BY <1>1, <1>2, <1>3, Zenon DEF ForwardStep, ForwardInv, Captured, Unsent

\* The attempt is over: what was captured stays, the rest goes.
LEMMA ResetForward ==
    ASSUME ForwardInv, NEW s \in Sessions, ResetLegs(s), UNCHANGED request,
           NEW to \in {"loop", "giveup", "closed"}, pc' = [pc EXCEPT ![s] = to],
           pc[s] \in Holding, to = "loop" => ~capped[s]
    PROVE  ForwardStep(s)
  <1> USE DEF ResetLegs, request
  <1>1. ByteTypes'
    BY PositionsNone DEF ForwardInv, ByteTypes, PCs, LegPCs
  <1>2. BytesAside(s)
    BY DEF ForwardInv, ByteTypes, BytesAside
  <1>3. pc'[s] = to /\ sent'[s] = <<>>
    BY DEF ForwardInv, ByteTypes
  <1> QED  BY <1>1, <1>2, <1>3, Zenon DEF ForwardStep, ForwardInv, Captured, Unsent, Holding

LEMMA ReadForward ==
    ASSUME ForwardInv, NEW s \in Sessions, C2BRead(s)
    PROVE  ForwardStep(s)
  <1> USE DEF ForwardInv, C2BRead, C2B, Relaying, control
  <1>1. PICK n \in 1..MaxRead :
          /\ consumed[s] + n <= ReqLen
          /\ chunk' = [chunk EXCEPT ![s] = Positions(consumed[s], n)]
          /\ append(s, Positions(consumed[s], n))
          /\ consumed' = [consumed EXCEPT ![s] = @ + n]
    BY Zenon
  <1>2. n \in Nat /\ n # 0 /\ consumed[s] \in Nat /\ consumed[s] + n \in 0..ReqLen
    BY <1>1, SessionAssumption DEF ByteTypes
  <1> DEFINE P == Positions(consumed[s], n)
  <1>3. P \in Bytes /\ Len(P) = n
    BY <1>1, <1>2, PositionsAre, Zenon
  <1> HIDE DEF P
  <1>4. /\ data[s] \in Bytes /\ Len(data[s]) \in Nat /\ Len(data[s]) <= consumed[s]
        /\ data[s] = Positions(0, Len(data[s]))
        /\ ~capped[s] => Len(data[s]) = consumed[s]
        /\ sent[s] = Positions(0, Len(sent[s])) /\ Len(sent[s]) = consumed[s]
    <2>1. pc[s] = "relay" /\ c2b[s] = "read" /\ Captured(s) /\ data[s] \in Bytes
      BY DEF ByteTypes
    <2>2. Len(data[s]) \in Nat
      BY <2>1 DEF Bytes
    <2> QED  BY <2>1, <2>2, Zenon DEF Captured
  <1>5. /\ c2b'[s] \in {"write", "aborted"} /\ c2b' = [c2b EXCEPT ![s] = c2b'[s]]
        /\ chunk'[s] = P /\ consumed'[s] = consumed[s] + n
        /\ pc' = pc /\ sent' = sent
    BY <1>1 DEF ByteTypes, GoOn, P
  <1>6. \/ capped'[s] /\ data' = data
        \/ ~capped'[s] /\ ~capped[s] /\ data' = [data EXCEPT ![s] = data[s] \o P]
    BY <1>1, Zenon DEF append, ByteTypes, P
  <1>7. data' \in [Sessions -> Bytes] /\ data'[s] = Positions(0, Len(data'[s]))
        /\ Len(data'[s]) <= consumed'[s] /\ (~capped'[s] => Len(data'[s]) = consumed'[s])
    <2>1. CASE capped'[s] /\ data' = data
      BY <1>2, <1>4, <1>5, <2>1 DEF ByteTypes
    <2>2. CASE ~capped'[s] /\ ~capped[s] /\ data' = [data EXCEPT ![s] = data[s] \o P]
      <3>1. data[s] \o P = Positions(0, consumed[s] + n)
        BY <1>2, <1>4, <2>2, PositionsJoin, Zenon DEF P
      <3>2. data[s] \o P \in Bytes /\ Len(data[s] \o P) = consumed[s] + n
        BY <1>1, <1>2, <3>1, PositionsAre
      <3>3. data'[s] = data[s] \o P
        BY <2>2, Zenon DEF ByteTypes
      <3> QED  BY <1>2, <1>5, <2>2, <3>1, <3>2, <3>3 DEF ByteTypes
    <2> QED  BY <1>6, <2>1, <2>2, Zenon
  <1>8. ByteTypes'
    <2>1. capped' \in [Sessions -> BOOLEAN]
      BY <1>1 DEF append, ByteTypes
    <2>2. consumed' \in [Sessions -> 0..ReqLen] /\ chunk' \in [Sessions -> Bytes]
      BY <1>1, <1>2, <1>3 DEF ByteTypes, P
    <2>3. c2b' \in [Sessions -> LegPCs]
      BY <1>5 DEF ByteTypes, LegPCs
    <2> QED  BY <1>5, <1>7, <2>1, <2>2, <2>3, Zenon DEF ByteTypes
  <1>9. BytesAside(s)
    BY <1>1, <1>5, Zenon DEF BytesAside, ByteTypes, append
  <1>10. c2b'[s] = "write" => chunk'[s] = Positions(Len(sent'[s]), consumed'[s] - Len(sent'[s]))
    <2>1. consumed'[s] - Len(sent'[s]) = n
      BY <1>2, <1>4, <1>5
    <2> QED  BY <1>4, <1>5, <2>1 DEF P
  <1>11. Captured(s)'
    <2>1. Len(sent'[s]) <= consumed'[s] /\ sent'[s] = Positions(0, Len(sent'[s]))
      BY <1>2, <1>4, <1>5
    <2>2. pc'[s] = "relay" /\ c2b'[s] # "read"
      BY <1>5
    <2> QED  BY <1>7, <1>10, <2>1, <2>2, Zenon DEF Captured, Unsent
  <1> QED  BY <1>8, <1>9, <1>11, Zenon DEF ForwardStep

\* A write that takes n bytes of the chunk; all of them, if the leg goes on.
LEMMA WriteForward ==
    ASSUME ForwardInv, NEW s \in Sessions, Relaying(s), c2b[s] = "write",
           NEW to \in {"read", "ended", "aborted"}, c2b' = [c2b EXCEPT ![s] = to],
           NEW n \in 0..Len(chunk[s]), to = "read" => n = Len(chunk[s]),
           sent' = [sent EXCEPT ![s] = sent[s] \o SubSeq(chunk[s], 1, n)],
           UNCHANGED <<pc, request, chunk>>
    PROVE  ForwardStep(s)
  <1> USE DEF ForwardInv, Relaying, request
  <1> DEFINE m == Len(sent[s])
             k == consumed[s] - m
  <1>1. pc[s] = "relay" /\ Captured(s) /\ sent[s] \in Bytes /\ consumed[s] \in 0..ReqLen
    BY DEF ByteTypes
  <1>2. sent[s] = Positions(0, m) /\ m <= consumed[s] /\ chunk[s] = Positions(m, k)
    BY <1>1, Zenon DEF Captured
  <1>3. m \in Nat /\ k \in Nat /\ m + k = consumed[s] /\ m + k <= ReqLen
    BY <1>1, <1>2, SessionAssumption DEF Bytes
  <1>4. n \in Nat /\ n <= k /\ (to = "read" => n = k)
    <2>1. Len(chunk[s]) = k
      BY <1>2, <1>3, PositionsAre, Zenon
    <2> QED  BY <1>3, <2>1
  <1> HIDE DEF m, k
  <1>5. SubSeq(chunk[s], 1, n) = Positions(m, n)
    <2>1. n \in 0..k
      BY <1>3, <1>4
    <2>2. SubSeq(Positions(m, k), 1, n) = Positions(m, n)
      BY <1>3, <2>1, PositionsCut, Zenon
    <2> QED  BY <1>2, <2>2, Zenon
  <1>6. sent'[s] = Positions(0, m + n)
    <2>1. sent'[s] = sent[s] \o SubSeq(chunk[s], 1, n)
      BY DEF ByteTypes
    <2> QED  BY <1>2, <1>3, <1>4, <1>5, <2>1, PositionsJoin, Zenon
  <1>7. sent'[s] \in Bytes /\ Len(sent'[s]) = m + n
    <2>1. m + n \in Nat /\ 0 \in Nat /\ 0 + (m + n) <= ReqLen
      BY <1>3, <1>4, SessionAssumption
    <2>2. Positions(0, m + n) \in Bytes /\ Len(Positions(0, m + n)) = m + n
      BY <2>1, PositionsAre, Zenon
    <2> QED  BY <1>6, <2>2, Zenon
  <1>8. Len(sent'[s]) <= consumed[s] /\ (to = "read" => Len(sent'[s]) = consumed[s])
    BY <1>3, <1>4, <1>7
  <1>9. ByteTypes'
    BY <1>7 DEF ByteTypes, LegPCs
  <1>10. BytesAside(s)
    BY DEF BytesAside, ByteTypes
  <1>11. Captured(s)'
    <2>1. c2b'[s] = to /\ pc'[s] = "relay" /\ sent'[s] = Positions(0, Len(sent'[s]))
      BY <1>1, <1>6, <1>7 DEF ByteTypes
    <2> QED  BY <1>1, <1>8, <2>1, Zenon DEF Captured, Unsent
  <1> QED  BY <1>9, <1>10, <1>11 DEF ForwardStep

\* The leg ends in a read.
LEMMA StopForward ==
    ASSUME ForwardInv, NEW s \in Sessions, Relaying(s),
           NEW to \in {"ended", "aborted"}, c2b' = [c2b EXCEPT ![s] = to],
           clientEof' \in [Sessions -> BOOLEAN],
           UNCHANGED <<pc, data, capped, consumed, chunk, sent>>
    PROVE  ForwardStep(s)
  <1>1. ByteTypes'
    BY Zenon DEF ForwardInv, ByteTypes, LegPCs
  <1>2. BytesAside(s)
    BY DEF ForwardInv, ByteTypes, BytesAside
  <1>3. c2b'[s] = to /\ pc[s] = "relay"
    BY DEF ForwardInv, ByteTypes, Relaying
  <1> QED  BY <1>1, <1>2, <1>3, Zenon DEF ForwardStep, ForwardInv, Captured, Unsent

\* Draining moves nothing but the client's position.
LEMMA DrainForward ==
    ASSUME ForwardInv, NEW s \in Sessions, DrainRead(s) \/ DrainEof(s)
    PROVE  ForwardStep(s)
  <1> USE DEF ForwardInv, legs
  <1>1. CASE DrainRead(s)
    <2>1. PICK n \in 1..MaxRead :
            consumed[s] + n <= ReqLen /\ consumed' = [consumed EXCEPT ![s] = @ + n]
      BY <1>1, Zenon DEF DrainRead
    <2>2. consumed[s] \in 0..ReqLen /\ n \in Nat
      BY SessionAssumption DEF ByteTypes
    <2>3. ByteTypes'
      BY <1>1, <2>1, <2>2, SessionAssumption DEF ByteTypes, DrainRead
    <2>4. BytesAside(s)
      BY <1>1, <2>1 DEF ByteTypes, BytesAside, DrainRead
    <2>5. pc'[s] = "drain" /\ data' = data /\ consumed[s] <= consumed'[s]
      BY <1>1, <2>1, <2>2, SessionAssumption DEF ByteTypes, DrainRead
    <2>6. data[s] = Positions(0, Len(data[s])) /\ Len(data[s]) <= consumed'[s]
      <3>1. data[s] = Positions(0, Len(data[s])) /\ Len(data[s]) <= consumed[s]
        BY Zenon DEF Captured
      <3>2. Len(data[s]) \in Nat /\ consumed[s] \in Nat /\ consumed'[s] \in Nat
        BY <2>1, <2>2, SessionAssumption DEF ByteTypes, Bytes
      <3> QED  BY <2>5, <3>1, <3>2
    <2> QED  BY <2>3, <2>4, <2>5, <2>6, Zenon DEF ForwardStep, Captured, Unsent
  <1>2. CASE DrainEof(s)
    <2>1. ByteTypes'
      BY <1>2 DEF ByteTypes, DrainEof, PCs
    <2>2. BytesAside(s)
      BY <1>2 DEF ByteTypes, BytesAside, DrainEof
    <2>3. pc'[s] = "closed"
      BY <1>2 DEF ByteTypes, DrainEof
    <2> QED  BY <1>2, <2>1, <2>2, <2>3, Zenon DEF ForwardStep, Captured, Unsent, DrainEof
  <1> QED  BY <1>1, <1>2

LEMMA StepForward ==
    ASSUME ForwardInv, NEW s \in Sessions, SessionStep(s)
    PROVE  ForwardInv'
  <1> USE DEF bytes, request, legs
  <1>1. ASSUME Spawn(s) PROVE ForwardStep(s)
    BY <1>1, LoopForward, Zenon DEF Spawn, PCs, Unsent
  <1>2. ASSUME NEW b \in Backends, BreakerSkip(s, b) PROVE UNCHANGED <<pc, bytes>>
    BY <1>2 DEF BreakerSkip
  <1>3. ASSUME NEW b \in Backends, AdmitPooled(s, b) PROVE ForwardStep(s)
    BY <1>3, AttachForward DEF AdmitPooled, Reaches
  <1>4. ASSUME NEW b \in Backends, AdmitConnect(s, b) PROVE ForwardStep(s)
    BY <1>4, LoopForward, Zenon DEF AdmitConnect, Reaches, PCs, Admitted, Unsent
  <1>5. ASSUME ConnectOk(s) PROVE ForwardStep(s)
    BY <1>5, AttachForward, Zenon DEF ConnectOk
  <1>6. ASSUME ConnectFail(s) PROVE ForwardStep(s)
    BY <1>6, LoopForward, Zenon DEF ConnectFail, PCs, Unsent
  <1>7. ASSUME ReplayFail(s) PROVE ForwardStep(s)
    <2>1. ~capped[s]
      BY <1>7, Zenon DEF ReplayFail, ForwardInv, Captured, Unsent
    <2> QED  BY <1>7, <2>1, ResetForward, Zenon DEF ReplayFail, Holding
  <1>8. ASSUME RelaySucceeded(s) PROVE ForwardStep(s)
    BY <1>8, ResetForward, Zenon DEF RelaySucceeded, RelayOver, Relaying, Holding
  <1>9. ASSUME RelayFailed(s) PROVE ForwardStep(s)
    <2> DEFINE to == IF capped[s] THEN "giveup" ELSE "loop"
    <2>1. to \in {"loop", "giveup", "closed"} /\ (to = "loop" => ~capped[s])
      OBVIOUS
    <2>2. pc' = [pc EXCEPT ![s] = to] /\ pc[s] \in Holding /\ ResetLegs(s) /\ UNCHANGED request
      BY <1>9, Zenon DEF RelayFailed, RelayOver, Relaying, Holding
    <2> HIDE DEF to
    <2> QED  BY <2>1, <2>2, ResetForward, Zenon
  <1>10. ASSUME Fallback503(s) PROVE ForwardStep(s)
    BY <1>10, LoopForward, Zenon DEF Fallback503, PCs, Answering, Unsent
  <1>11. ASSUME Write503(s) PROVE ForwardStep(s)
    BY <1>11, LoopForward, Zenon DEF Write503, PCs, Answering, Unsent
  <1>12. ASSUME C2BEof(s) PROVE ForwardStep(s)
    <2>1. clientEof' \in [Sessions -> BOOLEAN]
      BY <1>12 DEF C2BEof, ForwardInv, ByteTypes
    <2> QED  BY <1>12, <2>1, StopForward, Zenon DEF C2BEof, C2B, control
  <1>13. ASSUME C2BWrite(s) PROVE ForwardStep(s)
    <2> DEFINE to == GoOn(b2c[s], "read")
               n == Len(chunk[s])
    <2>1. to \in {"read", "ended", "aborted"} /\ c2b' = [c2b EXCEPT ![s] = to]
      BY <1>13 DEF C2BWrite, C2B, GoOn
    <2>2. chunk[s] \in Bytes
      BY DEF ForwardInv, ByteTypes
    <2>3. n \in 0..Len(chunk[s]) /\ SubSeq(chunk[s], 1, n) = chunk[s]
      BY <2>2 DEF Bytes
    <2>4. /\ Relaying(s) /\ c2b[s] = "write" /\ UNCHANGED <<pc, request, chunk>>
          /\ sent' = [sent EXCEPT ![s] = sent[s] \o SubSeq(chunk[s], 1, n)]
      BY <1>13, <2>3, Zenon DEF C2BWrite, C2B, control
    <2>5. to = "read" => n = Len(chunk[s])
      OBVIOUS
    <2> HIDE DEF to, n
    <2> QED  BY <2>1, <2>3, <2>4, <2>5, WriteForward, Zenon
  <1>14. ASSUME NEW h \in {"ended", "aborted"}, C2BWriteStops(s, h) PROVE ForwardStep(s)
    <2>1. PICK n \in 0..Len(chunk[s]) : sent' = [sent EXCEPT ![s] = @ \o SubSeq(chunk[s], 1, n)]
      BY <1>14, Zenon DEF C2BWriteStops
    <2>2. /\ Relaying(s) /\ c2b[s] = "write" /\ UNCHANGED <<pc, request, chunk>>
          /\ c2b' = [c2b EXCEPT ![s] = h]
      BY <1>14 DEF C2BWriteStops, C2B, control
    <2>3. h \in {"read", "ended", "aborted"} /\ h # "read"
      OBVIOUS
    <2> QED  BY <2>1, <2>2, <2>3, WriteForward, Zenon
  <1>15. ASSUME C2BAbort(s) PROVE ForwardStep(s)
    <2>1. CASE C2BWriteStops(s, "aborted")
      BY <1>14, <2>1
    <2>2. CASE C2B(s, "read", "aborted") /\ UNCHANGED <<request, chunk, started, sent, toClient>>
      <3>1. clientEof' \in [Sessions -> BOOLEAN]
        BY <2>2 DEF ForwardInv, ByteTypes
      <3> QED  BY <2>2, <3>1, StopForward, Zenon DEF C2B, control
    <2> QED  BY <1>15, <2>1, <2>2 DEF C2BAbort
  <1>16. ASSUME B2CRead(s) \/ B2CEof(s) \/ B2CWrite(s) \/ B2CWriteFail(s) \/ B2CAbort(s)
         PROVE  UNCHANGED <<pc, bytes>>
    BY <1>16, Zenon DEF B2CRead, B2CEof, B2CWrite, B2CWriteFail, B2CWriteStops, B2CAbort, B2C, control
  <1>17. CASE Spawn(s) \/ Runs(s)
    BY <1>1, <1>2, <1>3, <1>4, <1>8, <1>9, <1>10, <1>15, <1>16, <1>17, OthersForward, SameForward
    DEF Runs
  <1>18. CASE IODone(s)
    BY <1>5, <1>6, <1>7, <1>11, <1>13, <1>14, <1>16, <1>18, ReplayForward, OthersForward, SameForward
    DEF IODone, C2BWriteFail
  <1>19. CASE Arrives(s) \/ PeerCloses(s)
    BY <1>12, <1>16, <1>19, ReadForward, DrainForward, OthersForward, SameForward
    DEF Arrives, PeerCloses
  <1> QED  BY <1>17, <1>18, <1>19 DEF SessionStep

LEMMA NextForward == ForwardInv /\ [Next]_vars => ForwardInv'
  <1> SUFFICES ASSUME ForwardInv, [Next]_vars PROVE ForwardInv'
    OBVIOUS
  <1>1. CASE Tick \/ UNCHANGED vars
    BY <1>1, SameForward DEF Tick, vars, request, legs, bytes
  <1> QED  BY <1>1, StepForward DEF Next, Quiescent

\* For every request length, capacity of the replay buffer and order of the
\* reads and writes (session.cpp:20-66, 178-228): what a backend gets is a
\* prefix of what the client sent, and before a live read it is all of it.
THEOREM ForwardFaithful == Spec => []FaithfulForward
  <1>1. ForwardInv => FaithfulForward
    BY Zenon DEF ForwardInv, Captured, FaithfulForward
  <1> QED  BY <1>1, InitForward, NextForward, PTL DEF Spec

-----------------------------------------------------------------------------
(***************************************************************************)
(* The pool's count and its gauge.  A session checks a socket out, checks  *)
(* it in, or does neither.                                                 *)
(***************************************************************************)
PoolTypes == /\ free \in [Backends -> 0..MinPool] /\ active \in [Backends -> Int]
             /\ gActive \in [Backends -> Int] /\ gIdle \in [Backends -> Int]

ChecksOut(s, b) ==
    /\ pc[s] \notin Holding /\ pc'[s] \in Holding /\ cur'[s] = b
    /\ active' = [active EXCEPT ![b] = @ + 1]
    /\ gActive' = [gActive EXCEPT ![b] = active'[b]]

ChecksIn(s) ==
    /\ pc[s] \in Holding /\ pc'[s] \notin Holding
    /\ active' = [active EXCEPT ![cur[s]] = @ - 1]
    /\ UNCHANGED gActive \/ gActive' = [gActive EXCEPT ![cur[s]] = active'[cur[s]]]

Keeps(s) ==
    /\ pc[s] \in Holding <=> pc'[s] \in Holding
    /\ pc[s] \in Holding => cur'[s] = cur[s]
    /\ UNCHANGED <<active, gActive>>

LEMMA OutTypes ==
    ASSUME PoolTypes, NEW b \in Backends, free' \in [Backends -> 0..MinPool], CheckedOut(b)
    PROVE  PoolTypes'
  <1>1. active[b] + 1 \in Int /\ free'[b] \in Int
    BY SessionAssumption DEF PoolTypes
  <1>2. active' \in [Backends -> Int] /\ active'[b] \in Int
    BY <1>1 DEF PoolTypes, CheckedOut
  <1> QED  BY <1>1, <1>2 DEF PoolTypes, CheckedOut

LEMMA InTypes ==
    ASSUME PoolTypes, NEW b \in Backends, release(b),
           \/ UNCHANGED <<gActive, gIdle>>
           \/ /\ gActive' = [gActive EXCEPT ![b] = active'[b]]
              /\ gIdle' = [gIdle EXCEPT ![b] = free[b]]
    PROVE  PoolTypes'
  <1>1. active[b] - 1 \in Int /\ free[b] \in Int
    BY SessionAssumption DEF PoolTypes
  <1>2. active' \in [Backends -> Int] /\ active'[b] \in Int
    BY <1>1 DEF PoolTypes, release
  <1> QED  BY <1>1, <1>2 DEF PoolTypes, release

LEMMA Sockets ==
    ASSUME BreakersInv, PoolTypes, NEW s \in Sessions, SessionStep(s)
    PROVE  /\ PoolTypes'
           /\ (\E b \in Backends : ChecksOut(s, b)) \/ ChecksIn(s) \/ Keeps(s)
  <1> USE DEF BreakersInv, CallTypes, PCs, Admitted, Holding, Answering, retry, pool, gauges
  <1>0. ASSUME UNCHANGED pool, UNCHANGED <<gActive, gIdle>> PROVE PoolTypes'
    BY <1>0 DEF PoolTypes
  <1>1. CASE Spawn(s)
    <2>1. Keeps(s)
      BY <1>1 DEF Spawn, Keeps
    <2> QED  BY <1>0, <1>1, <2>1 DEF Spawn
  <1>2. ASSUME NEW b \in Backends, BreakerSkip(s, b) PROVE PoolTypes' /\ Keeps(s)
    <2>1. Keeps(s)
      BY <1>2 DEF BreakerSkip, Reaches, GiveUpOn, Keeps
    <2> QED  BY <1>0, <1>2, <2>1 DEF BreakerSkip
  <1>3. ASSUME NEW b \in Backends, AdmitPooled(s, b) PROVE PoolTypes' /\ ChecksOut(s, b)
    <2>1. ChecksOut(s, b)
      BY <1>3, Zenon DEF AdmitPooled, Reaches, Attach, CheckedOut, ChecksOut
    <2>2. free' \in [Backends -> 0..MinPool]
      <3>1. free[b] - 1 \in 0..MinPool
        BY <1>3, SessionAssumption DEF AdmitPooled, PoolTypes
      <3> QED  BY <1>3, <3>1 DEF AdmitPooled, PoolTypes
    <2> QED  BY <1>3, <2>1, <2>2, OutTypes DEF AdmitPooled
  <1>4. ASSUME NEW b \in Backends, AdmitConnect(s, b) PROVE PoolTypes' /\ Keeps(s)
    <2>1. Keeps(s)
      BY <1>4 DEF AdmitConnect, Reaches, Keeps
    <2> QED  BY <1>0, <1>4, <2>1 DEF AdmitConnect
  <1>5. ASSUME ConnectOk(s) PROVE PoolTypes' /\ ChecksOut(s, cur[s]) /\ cur[s] \in Backends
    <2>1. ChecksOut(s, cur[s]) /\ cur[s] \in Backends
      BY <1>5, Zenon DEF ConnectOk, Attach, CheckedOut, ChecksOut
    <2>2. free' \in [Backends -> 0..MinPool]
      BY <1>5 DEF ConnectOk, PoolTypes
    <2> QED  BY <1>5, <2>1, <2>2, OutTypes DEF ConnectOk
  <1>6. ASSUME ConnectFail(s) PROVE PoolTypes' /\ Keeps(s)
    <2>1. Keeps(s)
      BY <1>6 DEF ConnectFail, AttemptFailed, GiveUpOn, Keeps
    <2> QED  BY <1>0, <1>6, <2>1 DEF ConnectFail
  <1>7. ASSUME ReplayOk(s) \/ Write503(s) PROVE PoolTypes' /\ Keeps(s)
    <2>1. Keeps(s)
      BY <1>7 DEF ReplayOk, Write503, Keeps
    <2> QED  BY <1>0, <1>7, <2>1 DEF ReplayOk, Write503
  <1>8. ASSUME ReplayFail(s) PROVE PoolTypes' /\ ChecksIn(s)
    <2>1. ChecksIn(s) /\ cur[s] \in Backends
      BY <1>8 DEF ReplayFail, release, ChecksIn
    <2> QED  BY <1>8, <2>1, InTypes, Zenon DEF ReplayFail
  <1>9. ASSUME RelaySucceeded(s) PROVE PoolTypes' /\ ChecksIn(s)
    <2>1. ChecksIn(s) /\ cur[s] \in Backends
      BY <1>9, Zenon DEF RelaySucceeded, RelayOver, Relaying, release, ChecksIn
    <2> QED  BY <1>9, <2>1, InTypes, Zenon DEF RelaySucceeded, RelayOver
  <1>10. ASSUME RelayFailed(s) PROVE PoolTypes' /\ ChecksIn(s)
    <2>1. ChecksIn(s) /\ cur[s] \in Backends
      BY <1>10, Zenon DEF RelayFailed, RelayOver, Relaying, release, ChecksIn
    <2> QED  BY <1>10, <2>1, InTypes, Zenon DEF RelayFailed, RelayOver
  <1>11. ASSUME Fallback503(s) \/ DrainRead(s) \/ DrainEof(s) PROVE PoolTypes' /\ Keeps(s)
    <2>1. Keeps(s)
      BY <1>11 DEF Fallback503, DrainRead, DrainEof, Keeps
    <2> QED  BY <1>0, <1>11, <2>1 DEF Fallback503, DrainRead, DrainEof
  <1>12. ASSUME UNCHANGED control PROVE PoolTypes' /\ Keeps(s)
    BY <1>0, <1>12 DEF control, Keeps
  <1>13. ASSUME \/ C2BRead(s) \/ C2BEof(s) \/ C2BWrite(s) \/ C2BWriteFail(s) \/ C2BAbort(s)
                \/ B2CRead(s) \/ B2CEof(s) \/ B2CWrite(s) \/ B2CWriteFail(s) \/ B2CAbort(s)
         PROVE  UNCHANGED control
    BY <1>13, Zenon
    DEF C2BRead, C2BEof, C2BWrite, C2BWriteFail, C2BWriteStops, C2BAbort, C2B,
        B2CRead, B2CEof, B2CWrite, B2CWriteFail, B2CWriteStops, B2CAbort, B2C
  <1> HIDE DEF BreakersInv, CallTypes, PCs, Admitted, Holding, Answering, retry, pool, gauges
  <1>14. CASE Runs(s)
    BY <1>2, <1>3, <1>4, <1>9, <1>10, <1>11, <1>12, <1>13, <1>14, Zenon DEF Runs
  <1>15. CASE IODone(s)
    BY <1>5, <1>6, <1>7, <1>8, <1>12, <1>13, <1>15, Zenon DEF IODone
  <1>16. CASE Arrives(s) \/ PeerCloses(s)
    BY <1>11, <1>12, <1>13, <1>16, Zenon DEF Arrives, PeerCloses
  <1> QED  BY <1>1, <1>14, <1>15, <1>16 DEF SessionStep

Begun == {s \in Sessions : pc[s] # "idle"}
Holders(b) == {s \in Sessions : pc[s] \in Holding /\ cur[s] = b}
Open == {s \in Sessions : pc[s] \in Serving}

\* Only the sessions that have started can hold anything.
LEMMA BegunHas ==
    ASSUME IsFiniteSet(Begun)
    PROVE  /\ \A b : IsFiniteSet(Holders(b)) /\ Cardinality(Holders(b)) \in Nat
           /\ IsFiniteSet(Open) /\ Cardinality(Open) \in Nat
  <1>1. Open \subseteq Begun /\ \A b : Holders(b) \subseteq Begun
    BY DEF Begun, Open, Holders, Serving, Admitted, Holding
  <1> QED  BY <1>1, FS_Subset, FS_CardinalityType, Zenon

LEMMA BegunStep ==
    ASSUME IsFiniteSet(Begun), NEW s \in Sessions, Aside(s)
    PROVE  IsFiniteSet(Begun')
  <1>1. Begun' \subseteq Begun \cup {s}
    BY DEF Begun, Aside
  <1>2. IsFiniteSet(Begun \cup {s})
    BY FS_AddElement, Zenon
  <1> QED  BY <1>1, <1>2, FS_Subset, Zenon

\* A set of sessions that gains, loses or keeps session s.
LEMMA Sizes ==
    ASSUME NEW S, IsFiniteSet(S), NEW T, NEW x
    PROVE  /\ x \notin S /\ T = S \cup {x} => Cardinality(T) = Cardinality(S) + 1
           /\ x \in S /\ T = S \ {x} => Cardinality(T) = Cardinality(S) - 1
  BY FS_AddElement, FS_RemoveElement, Zenon

PoolInv == PoolTypes /\ IsFiniteSet(Begun) /\ PoolAccounting /\ ActiveGaugeCovers

LEMMA PoolIs == PoolAccounting <=> \A b \in Backends : active[b] = Cardinality(Holders(b))
  BY Zenon DEF PoolAccounting, Holders

LEMMA InitPool == Init => PoolInv
  <1> SUFFICES ASSUME Init PROVE PoolInv
    OBVIOUS
  <1>1. Begun = {} /\ \A b \in Backends : Holders(b) = {}
    BY DEF Init, Begun, Holders, Holding
  <1>2. IsFiniteSet({}) /\ Cardinality({}) = 0
    BY FS_EmptySet
  <1>3. PoolTypes /\ ActiveGaugeCovers
    BY DEF Init, WarmedUp, PoolTypes, ActiveGaugeCovers
  <1>4. \A b \in Backends : active[b] = Cardinality(Holders(b))
    BY <1>1, <1>2, Zenon DEF Init
  <1> QED  BY <1>1, <1>2, <1>3, <1>4, PoolIs, Zenon DEF PoolInv

LEMMA StepPool ==
    ASSUME BreakersInv, PoolInv, NEW s \in Sessions, SessionStep(s)
    PROVE  PoolInv'
  <1>0. /\ PoolTypes /\ IsFiniteSet(Begun) /\ \A b \in Backends : active[b] = Cardinality(Holders(b))
        /\ \A b \in Backends : active[b] \in Int /\ gActive[b] \in Int /\ gActive[b] >= active[b]
    BY PoolIs DEF PoolInv, PoolTypes, ActiveGaugeCovers
  <1>1. Aside(s) /\ IsFiniteSet(Begun')
    <2>1. Aside(s)
      BY Classify, Zenon DEF BreakersInv, Enters, Leaves, Stays
    <2> QED  BY <1>0, <2>1, BegunStep, Zenon
  <1>2. PoolTypes' /\ ((\E b \in Backends : ChecksOut(s, b)) \/ ChecksIn(s) \/ Keeps(s))
    BY <1>0, Sockets
  <1>3. ASSUME \A b \in Backends : active'[b] = Cardinality(Holders(b)') /\ gActive'[b] >= active'[b]
        PROVE  PoolInv'
    <2>1. PoolAccounting'
      BY <1>3, Zenon DEF PoolAccounting, Holders
    <2> QED  BY <1>1, <1>2, <1>3, <2>1, Zenon DEF PoolInv, ActiveGaugeCovers
  <1>4. ASSUME NEW b \in Backends, ChecksOut(s, b) PROVE PoolInv'
    <2>1. Holders(b)' = Holders(b) \cup {s} /\ s \notin Holders(b)
      BY <1>1, <1>4 DEF Holders, ChecksOut, Aside
    <2>2. \A d \in Backends \ {b} : Holders(d)' = Holders(d)
      BY <1>1, <1>4 DEF Holders, ChecksOut, Aside
    <2>3. Cardinality(Holders(b)') = Cardinality(Holders(b)) + 1
      BY <1>0, <2>1, BegunHas, Sizes, Zenon
    <2>4. /\ active'[b] = active[b] + 1 /\ gActive'[b] = active'[b]
          /\ \A d \in Backends \ {b} : active'[d] = active[d] /\ gActive'[d] = gActive[d]
      BY <1>0, <1>4 DEF ChecksOut, PoolTypes
    <2> QED  BY <1>0, <1>3, <2>2, <2>3, <2>4
  <1>5. ASSUME ChecksIn(s) PROVE PoolInv'
    <2>0. PICK c \in Backends : c = cur[s]
      BY <1>5 DEF ChecksIn, BreakersInv, Admitted
    <2>1. Holders(c)' = Holders(c) \ {s} /\ s \in Holders(c)
      BY <1>1, <1>5, <2>0 DEF Holders, ChecksIn, Aside
    <2>2. \A d \in Backends \ {c} : Holders(d)' = Holders(d)
      BY <1>1, <1>5, <2>0 DEF Holders, ChecksIn, Aside
    <2>3. Cardinality(Holders(c)') = Cardinality(Holders(c)) - 1
      BY <1>0, <2>1, BegunHas, Sizes, Zenon
    <2>4. /\ active'[c] = active[c] - 1 /\ (gActive'[c] = active'[c] \/ gActive'[c] = gActive[c])
          /\ \A d \in Backends \ {c} : active'[d] = active[d] /\ gActive'[d] = gActive[d]
      BY <1>0, <1>5, <2>0 DEF ChecksIn, PoolTypes
    <2> QED  BY <1>0, <1>3, <2>2, <2>3, <2>4
  <1>6. ASSUME Keeps(s) PROVE PoolInv'
    <2>1. \A d \in Backends : Holders(d)' = Holders(d)
      BY <1>1, <1>6 DEF Holders, Keeps, Aside
    <2> QED  BY <1>0, <1>3, <1>6, <2>1, Zenon DEF Keeps
  <1> QED  BY <1>2, <1>4, <1>5, <1>6

LEMMA NextPool == BreakersInv /\ PoolInv /\ [Next]_vars => PoolInv'
  <1> SUFFICES ASSUME BreakersInv, PoolInv, [Next]_vars PROVE PoolInv'
    OBVIOUS
  <1>1. CASE Tick \/ UNCHANGED vars
    BY <1>1, Zenon
    DEF Tick, vars, retry, pool, gauges, PoolInv, PoolTypes, Begun, PoolAccounting, ActiveGaugeCovers
  <1> QED  BY <1>1, StepPool DEF Next, Quiescent

\* acquire() and release() balance on every path of handle_client, for any
\* number of sessions (connection_pool.cpp:66-118; session.cpp:144-222).
THEOREM PoolAccounts == Spec => []PoolAccounting
  BY InitBreakers, NextBreakers, InitPool, NextPool, PTL DEF Spec, PoolInv

\* The gauge of checked-out connections never shows too few, whoever sets it
\* last (session.cpp:160-161, 220-221).
THEOREM GaugeCovers == Spec => []ActiveGaugeCovers
  BY InitBreakers, NextBreakers, InitPool, NextPool, PTL DEF Spec, PoolInv

-----------------------------------------------------------------------------
(* The requests. *)
CountInv ==
    /\ IsFiniteSet(Begun)
    /\ requests \in Nat /\ fallbacks \in Nat /\ succs \in [Backends -> Nat]
    /\ SumFunction(succs) \in Int
    /\ RequestsAccounted

LEMMA CountIs ==
    RequestsAccounted <=> requests = SumFunction(succs) + fallbacks + Cardinality(Open)
  <1>1. Open = {s \in Sessions : pc[s] \in Admitted \cup {"loop", "giveup"}}
    BY DEF Open, Serving
  <1> QED  BY <1>1, Zenon DEF RequestsAccounted

LEMMA InitCount == Init => CountInv
  <1> SUFFICES ASSUME Init PROVE CountInv
    OBVIOUS
  <1>1. Begun = {} /\ Open = {}
    BY DEF Init, Begun, Open, Serving, Admitted, Holding
  <1>2. IsFiniteSet({}) /\ Cardinality({}) = 0
    BY FS_EmptySet
  <1>3. SumFunction(succs) = 0
    <2>1. succs = [b \in Backends |-> 0]
      BY DEF Init
    <2> QED  BY <2>1, SumZero, BackendsFinite, Zenon
  <1>4. requests = SumFunction(succs) + fallbacks + Cardinality(Open)
    BY <1>1, <1>2, <1>3 DEF Init
  <1> QED  BY <1>1, <1>2, <1>3, <1>4, CountIs DEF Init, CountInv

LEMMA StepCount ==
    ASSUME BreakersInv, CountInv, NEW s \in Sessions, SessionStep(s)
    PROVE  CountInv'
  <1> DEFINE sum == SumFunction(succs)
             now == Cardinality(Open)
  <1>0. /\ IsFiniteSet(Begun) /\ requests = sum + fallbacks + now
        /\ requests \in Nat /\ fallbacks \in Nat /\ succs \in [Backends -> Nat] /\ sum \in Int
        /\ IsFiniteSet(Open) /\ now \in Nat
    BY CountIs, BegunHas, Zenon DEF CountInv
  <1>1. Aside(s) /\ IsFiniteSet(Begun') /\ Moved(s)
    <2>1. Aside(s)
      BY Classify, Zenon DEF BreakersInv, Enters, Leaves, Stays
    <2> QED  BY <1>0, <2>1, BegunStep, StepMoves, Zenon DEF BreakersInv
  <1>2. ASSUME /\ requests' \in Nat /\ fallbacks' \in Nat /\ succs' \in [Backends -> Nat]
               /\ sum' \in Int /\ requests' = sum' + fallbacks' + now'
        PROVE  CountInv'
    <2>1. Open' = {r \in Sessions : pc'[r] \in Admitted \cup {"loop", "giveup"}}
      BY DEF Open, Serving
    <2>2. RequestsAccounted'
      BY <1>2, <2>1, Zenon DEF RequestsAccounted
    <2> QED  BY <1>1, <1>2, <2>2 DEF CountInv
  <1>3. /\ s \notin Open /\ pc'[s] \in Serving => now' = now + 1
        /\ s \in Open /\ pc'[s] \notin Serving => now' = now - 1
        /\ (s \in Open <=> pc'[s] \in Serving) => now' = now
    <2>1. /\ s \notin Open /\ pc'[s] \in Serving => Open' = Open \cup {s}
          /\ s \in Open /\ pc'[s] \notin Serving => Open' = Open \ {s}
          /\ (s \in Open <=> pc'[s] \in Serving) => Open' = Open
      BY <1>1 DEF Open, Aside
    <2> QED  BY <1>0, <2>1, Sizes, Zenon
  <1> HIDE DEF now, sum
  <1>4. ASSUME s \in Open <=> pc'[s] \in Serving, UNCHANGED <<requests, fallbacks, succs>>
        PROVE  CountInv'
    <2>1. sum' = sum
      BY <1>4 DEF sum
    <2> QED  BY <1>0, <1>2, <1>3, <1>4, <2>1
  <1>5. CASE Serves(s) \/ UNCHANGED <<pc, requests, fallbacks, succs>>
    BY <1>4, <1>5 DEF Serves, Open
  <1>6. CASE pc[s] = "write503" /\ pc'[s] = "drain" /\ UNCHANGED <<requests, fallbacks, succs>>
    BY <1>4, <1>6 DEF Open, Serving, Admitted, Holding
  <1>7. CASE pc[s] = "drain" /\ pc'[s] = "closed" /\ UNCHANGED <<requests, fallbacks, succs>>
    BY <1>4, <1>7 DEF Open, Serving, Admitted, Holding
  <1>8. CASE /\ pc[s] = "idle" /\ pc'[s] = "loop"
             /\ requests' = requests + 1 /\ UNCHANGED <<fallbacks, succs>>
    <2>1. sum' = sum
      BY <1>8 DEF sum
    <2>2. now' = now + 1
      BY <1>3, <1>8 DEF Open, Serving, Admitted, Holding
    <2> QED  BY <1>0, <1>2, <1>8, <2>1, <2>2
  <1>9. CASE /\ pc[s] \in Serving /\ pc'[s] = "write503"
             /\ fallbacks' = fallbacks + 1 /\ UNCHANGED <<requests, succs>>
    <2>1. sum' = sum
      BY <1>9 DEF sum
    <2>2. now' = now - 1
      BY <1>3, <1>9 DEF Open, Serving, Admitted, Holding
    <2> QED  BY <1>0, <1>2, <1>9, <2>1, <2>2
  <1>10. CASE /\ pc[s] = "relay" /\ pc'[s] = "closed"
              /\ CountSuccess(cur[s]) /\ UNCHANGED <<requests, fallbacks>>
    <2>1. cur[s] \in Backends /\ IsFiniteSet(Backends)
      BY <1>10, BackendsFinite DEF BreakersInv, Admitted, Holding
    <2>2. succs' \in [Backends -> Nat]
      BY <1>0, <1>10, <2>1 DEF CountSuccess
    <2>3. sum' = sum + 1
      <3>1. /\ succs \in [Backends -> Int] /\ succs' \in [Backends -> Int]
            /\ succs'[cur[s]] = succs[cur[s]] + 1
            /\ \A b \in Backends \ {cur[s]} : succs'[b] = succs[b]
        BY <1>0, <1>10, <2>1, <2>2 DEF CountSuccess
      <3> QED  BY <2>1, <3>1, SumCounts, Zenon DEF sum
    <2>4. now' = now - 1
      BY <1>3, <1>10 DEF Open, Serving, Admitted, Holding
    <2> QED  BY <1>0, <1>2, <1>10, <2>2, <2>3, <2>4
  <1> QED  BY <1>1, <1>5, <1>6, <1>7, <1>8, <1>9, <1>10, Zenon DEF Moved

LEMMA NextCount == BreakersInv /\ CountInv /\ [Next]_vars => CountInv'
  <1> SUFFICES ASSUME BreakersInv, CountInv, [Next]_vars PROVE CountInv'
    OBVIOUS
  <1>1. CASE Tick \/ UNCHANGED vars
    BY <1>1, Zenon DEF Tick, vars, counters, CountInv, Begun, RequestsAccounted
  <1> QED  BY <1>1, StepCount DEF Next, Quiescent

\* The metrics page adds up, for any number of sessions and backends
\* (metrics.hpp; session.cpp:110, 230, 240): every request received is being
\* served, or is the success of one backend, or one 503.
THEOREM RequestsAddUp == Spec => []RequestsAccounted
  BY InitBreakers, NextBreakers, InitCount, NextCount, PTL DEF Spec, CountInv

-----------------------------------------------------------------------------
(* Type correctness. *)
RestTypes == /\ toClient \in [Sessions -> SUBSET (Backends \cup {"503"})]
             /\ fails \in [Backends -> Nat]

LEMMA StepRest ==
    ASSUME BreakersInv, RestTypes, NEW s \in Sessions, SessionStep(s)
    PROVE  RestTypes'
  <1> USE DEF RestTypes
  <1>0. CASE UNCHANGED <<toClient, fails>>
    BY <1>0
  <1>1. ASSUME UNCHANGED fails, NEW got \in SUBSET (Backends \cup {"503"}),
               toClient' = [toClient EXCEPT ![s] = @ \cup got]
        PROVE  RestTypes'
    BY <1>1
  <1>2. ASSUME AttemptFailed(s, cur[s]), UNCHANGED toClient, pc[s] \in Admitted PROVE RestTypes'
    <2>1. cur[s] \in Backends
      BY <1>2, Zenon DEF BreakersInv
    <2> QED  BY <1>2, <2>1 DEF AttemptFailed
  <1>3. pc[s] = "relay" => {cur[s]} \in SUBSET (Backends \cup {"503"})
    BY DEF BreakersInv, Admitted, Holding
  <1>4. CASE ConnectFail(s) \/ ReplayFail(s) \/ RelayFailed(s)
    BY <1>2, <1>4, Zenon DEF ConnectFail, ReplayFail, RelayFailed, RelayOver, Relaying, Admitted, Holding
  <1>5. CASE Write503(s)
    BY <1>1, <1>5 DEF Write503, counters
  <1>6. CASE B2CWrite(s)
    BY <1>1, <1>3, <1>6, Zenon DEF B2CWrite, B2C, Relaying, control, counters
  <1>7. ASSUME NEW h, B2CWriteStops(s, h) PROVE RestTypes'
    BY <1>1, <1>3, <1>7 DEF B2CWriteStops, B2C, Relaying, control, counters
  <1>8. CASE \/ Spawn(s) \/ Fallback503(s) \/ ConnectOk(s) \/ ReplayOk(s) \/ RelaySucceeded(s)
             \/ DrainRead(s) \/ DrainEof(s)
             \/ \E b \in Backends : BreakerSkip(s, b) \/ AdmitPooled(s, b) \/ AdmitConnect(s, b)
    BY <1>0, <1>8, Zenon
    DEF Spawn, Fallback503, ConnectOk, ReplayOk, RelaySucceeded, RelayOver, DrainRead, DrainEof,
        BreakerSkip, AdmitPooled, AdmitConnect, Attach, counters
  <1>9. CASE C2BRead(s) \/ C2BEof(s) \/ C2BWrite(s) \/ C2BWriteFail(s) \/ C2BAbort(s)
    BY <1>0, <1>9, Zenon
    DEF C2BRead, C2BEof, C2BWrite, C2BWriteFail, C2BWriteStops, C2BAbort, C2B, control, counters
  <1>10. CASE B2CRead(s) \/ B2CEof(s)
    BY <1>0, <1>10, Zenon DEF B2CRead, B2CEof, B2C, control, counters
  <1>11. CASE B2CAbort(s)
    <2>1. CASE B2C(s, "read", "aborted") /\ UNCHANGED <<started, toClient>>
      BY <1>0, <2>1, Zenon DEF B2C, control, counters
    <2> QED  BY <1>7, <1>11, <2>1 DEF B2CAbort
  <1> HIDE DEF RestTypes
  <1> QED
    BY <1>4, <1>5, <1>6, <1>7, <1>8, <1>9, <1>10, <1>11, Zenon
    DEF SessionStep, Runs, IODone, Arrives, PeerCloses, B2CWriteFail

LEMMA NextRest == BreakersInv /\ RestTypes /\ [Next]_vars => RestTypes'
  <1> SUFFICES ASSUME BreakersInv, RestTypes, [Next]_vars PROVE RestTypes'
    OBVIOUS
  <1>1. CASE Tick \/ UNCHANGED vars
    BY <1>1, Zenon DEF Tick, vars, counters, RestTypes
  <1> QED  BY <1>1, StepRest DEF Next, Quiescent

\* The locals of handle_client, the shared objects and the metrics keep their
\* ranges: attempts_ within the budget, bytes within the request, idle sockets
\* within min_pool_size.
THEOREM SessionTypes == Spec => []TypeOK
  <1>1. Init => RestTypes
    BY DEF Init, RestTypes
  <1>2. CommitInv /\ BreakersInv /\ BudgetInv /\ LagInv /\ PoolInv /\ CountInv /\ ForwardInv
          /\ RestTypes => TypeOK
    BY Zenon
    DEF CommitInv, ControlOK, BreakersInv, CallTypes, BudgetInv, LagInv, PoolInv, PoolTypes,
        CountInv, ForwardInv, ByteTypes, RestTypes, TypeOK
  <1> QED
    BY <1>1, <1>2, InitCommit, NextCommit, InitBreakers, NextBreakers, InitBudget, NextBudget,
       InitLag, NextLag, InitPool, NextPool, InitCount, NextCount, InitForward, NextForward,
       NextRest, PTL
    DEF Spec
=============================================================================
