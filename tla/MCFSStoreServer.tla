----------------------------- MODULE MCFSStoreServer -----------------------------
(* Two workers, two files and a few requests.                                *)
EXTENDS FSStoreServer, TLC

CONSTANTS w1, w2, a, b, r1, r2, r3, r4

MCClients == {w1, w2}
MCFiles == {a, b}
MCRequests3 == {r1, r2, r3}
MCRequests4 == {r1, r2, r3, r4}
MCClient3 == r1 :> w1 @@ r2 :> w1 @@ r3 :> w2
MCClient4 == MCClient3 @@ r4 :> w2
MCFile3 == r1 :> a @@ r2 :> b @@ r3 :> a
MCFile4 == r1 :> a @@ r2 :> b @@ r3 :> a @@ r4 :> a
=============================================================================
