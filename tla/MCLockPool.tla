------------------------------- MODULE MCLockPool -------------------------------
(* A small pool for TLC: three clients, one of them with two requests.       *)
EXTENDS LockPool, TLC

CONSTANTS w1, w2, w3, r1, r2, r3, r4

MCClients == {w1, w2, w3}
MCRequests == {r1, r2, r3, r4}
MCClient == r1 :> w1 @@ r2 :> w1 @@ r3 :> w2 @@ r4 :> w3
=============================================================================
