------------------------------ MODULE MCProxy -------------------------------
(* A model-checking instance of Proxy: one client. *)
EXTENDS Proxy, TLC

CONSTANT k1

OneClient == [c \in Conns |-> k1]
OneShard  == k1 :> 1
=============================================================================
