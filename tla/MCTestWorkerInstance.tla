-------------------------- MODULE MCTestWorkerInstance --------------------------
(* Two tests, one after the other.                                           *)
EXTENDS TestWorkerInstance, TLC

CONSTANTS t1, t2

MCTests == {t1, t2}
=============================================================================
