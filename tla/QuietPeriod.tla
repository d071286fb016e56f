---------------------------- MODULE QuietPeriod -----------------------------
(***************************************************************************)
(* What a circuit breaker promises the backend behind it, without its      *)
(* states and streaks: once tripped, the backend is left alone for a whole *)
(* cooldown.  No call starts while the quiet period runs, nothing but the  *)
(* clock shortens it, and nothing prolongs or restarts it before it is     *)
(* over.                                                                   *)
(***************************************************************************)
EXTENDS Integers

CONSTANTS Requests, Cooldown

VARIABLES calls,   \* the requests that were let through and have not ended
          quiet    \* ticks left of the quiet period, 0 when there is none

qvars == <<calls, quiet>>

QInit == calls = {} /\ quiet = 0

Start(c) ==
    /\ c \notin calls
    /\ quiet = 0
    /\ calls' = calls \cup {c}
    /\ UNCHANGED quiet

\* A call ends; its outcome may open a quiet period, but only when none runs.
Finish(c) ==
    /\ c \in calls
    /\ calls' = calls \ {c}
    /\ \/ UNCHANGED quiet
       \/ quiet = 0 /\ quiet' = Cooldown

Wait ==
    /\ quiet > 0
    /\ quiet' = quiet - 1
    /\ UNCHANGED calls

QNext == Wait \/ \E c \in Requests : Start(c) \/ Finish(c)

QSpec == QInit /\ [][QNext]_qvars
=============================================================================
