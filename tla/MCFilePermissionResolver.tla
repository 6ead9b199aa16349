------------------------ MODULE MCFilePermissionResolver ------------------------
(* One file, a few requests of two workers.                                  *)
EXTENDS FilePermissionResolver, TLC

CONSTANTS w1, w2, r1, r2, r3, r4

MCClients == {w1, w2}
MCRequests4 == {r1, r2, r3, r4}
MCClient4 == r1 :> w1 @@ r2 :> w1 @@ r3 :> w2 @@ r4 :> w2
=============================================================================
