--------------------------- MODULE ClientService ----------------------------
(***************************************************************************)
(* What the listener may expect of handle_client() for every connection it *)
(* hands over: it is counted once as a request, and it is served, or it is *)
(* refused with one 503, counted once, and only drained afterwards.        *)
(***************************************************************************)
EXTENDS Naturals

CONSTANT Sessions

VARIABLES phase, requests, fallbacks

svars == <<phase, requests, fallbacks>>

SInit ==
    /\ phase = [s \in Sessions |-> "waiting"]
    /\ requests = 0 /\ fallbacks = 0

Moves(s, from, to) == phase[s] = from /\ phase' = [phase EXCEPT ![s] = to]

Begin(s)  == Moves(s, "waiting", "serving") /\ requests' = requests + 1 /\ UNCHANGED fallbacks
Finish(s) == Moves(s, "serving", "done") /\ UNCHANGED <<requests, fallbacks>>
Refuse(s) == Moves(s, "serving", "refusing") /\ fallbacks' = fallbacks + 1 /\ UNCHANGED requests
Close(s)  == Moves(s, "refusing", "done") /\ UNCHANGED <<requests, fallbacks>>

SNext == \E s \in Sessions : Begin(s) \/ Finish(s) \/ Refuse(s) \/ Close(s)

SSpec == SInit /\ [][SNext]_svars
=============================================================================
