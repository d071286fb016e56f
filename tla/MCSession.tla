----------------------------- MODULE MCSession ------------------------------
(* Model-checking instances of Session: rings of one, two and three backends *)
(* (the first one with two virtual nodes), and the clients' places on them.  *)
EXTENDS Session, TLC

CONSTANTS b1, b2, b3, s1, s2

Ring1 == 3 :> b1
Ring2 == 1 :> b1 @@ 3 :> b2 @@ 5 :> b1
Ring3 == 1 :> b1 @@ 3 :> b2 @@ 5 :> b1 @@ 7 :> b3

\* s1 starts at b2 (an exact match), s2 wraps around to b1.
Keys1 == s1 :> 3
Keys2 == s1 :> 3 @@ s2 :> 8
=============================================================================
