---------------------------- MODULE TokenBucket -----------------------------
(***************************************************************************)
(* What the rate limiter promises each client, without shards, clocks in   *)
(* buckets or reaping: a bucket that is always there, fills at a constant  *)
(* rate up to its capacity, and pays one token for every request that is   *)
(* let through.  Amounts are in parts of a token, Unit parts to a token.   *)
(***************************************************************************)
EXTENDS Integers

CONSTANTS Clients, Capacity, Rate, Unit

VARIABLES
    level,     \* what each bucket holds
    answer     \* the last answer each client got

tvars == <<level, answer>>

Least(a, b) == IF a <= b THEN a ELSE b

TInit ==
    /\ level = [c \in Clients |-> Capacity]
    /\ answer = [c \in Clients |-> "none"]

\* A request is let through if and only if there is a token.
Request(c) ==
    \/ /\ level[c] >= Unit
       /\ level' = [level EXCEPT ![c] = @ - Unit]
       /\ answer' = [answer EXCEPT ![c] = "allowed"]
    \/ /\ level[c] < Unit
       /\ answer' = [answer EXCEPT ![c] = "limited"]
       /\ UNCHANGED level

Refill ==
    /\ level' = [c \in Clients |-> Least(Capacity, level[c] + Rate)]
    /\ UNCHANGED answer

TNext == Refill \/ \E c \in Clients : Request(c)

TSpec == TInit /\ [][TNext]_tvars
=============================================================================
