-------------------------- MODULE MCTestRunController --------------------------
(* Small runs of the scheduler for TLC.                                      *)
EXTENDS TestRunController, TLC

CONSTANTS t1, t2, t3

MCTests2 == {t1, t2}
MCTests3 == {t1, t2, t3}
MCTimed == {t1}

\* Every hook and every kill may reject, and the configured limit be unusable.
MCAllFail == Faults
=============================================================================
