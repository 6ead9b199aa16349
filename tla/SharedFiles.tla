------------------------------ MODULE SharedFiles ------------------------------
(***************************************************************************)
(* What the file store promises to the workers, without its servers and    *)
(* messages: a file has one writer at a time, it is not deleted while      *)
(* somebody has it locked and not locked while it is being deleted, and    *)
(* all writers and deleters together stay within the limit.                *)
(* (FilePermissionResolver.ts:1-12, LockPool.ts:1-7.)                      *)
(***************************************************************************)
EXTENDS Integers, FiniteSets

CONSTANTS Files, Agents, Limit   \* Limit 0: no limit

VARIABLES lockers, writers, deleters   \* of each file: the agents at work

vars == <<lockers, writers, deleters>>

AtWork == UNION {writers[f] \cup deleters[f] : f \in Files}
Room == Limit = 0 \/ Cardinality(AtWork) < Limit

Init ==
  /\ lockers = [f \in Files |-> {}]
  /\ writers = [f \in Files |-> {}]
  /\ deleters = [f \in Files |-> {}]

Lock(f, a) ==
  /\ deleters[f] = {}
  /\ lockers' = [lockers EXCEPT ![f] = @ \cup {a}]
  /\ UNCHANGED <<writers, deleters>>

Write(f, a) ==
  /\ writers[f] = {} /\ Room
  /\ writers' = [writers EXCEPT ![f] = {a}]
  /\ UNCHANGED <<lockers, deleters>>

Delete(f, a) ==
  /\ lockers[f] = {} /\ Room
  /\ deleters' = [deleters EXCEPT ![f] = @ \cup {a}]
  /\ UNCHANGED <<lockers, writers>>

Leave(f, a) ==
  /\ a \in lockers[f] \cup writers[f] \cup deleters[f]
  /\ lockers' = [lockers EXCEPT ![f] = @ \ {a}]
  /\ writers' = [writers EXCEPT ![f] = @ \ {a}]
  /\ deleters' = [deleters EXCEPT ![f] = @ \ {a}]

Next == \E f \in Files, a \in Agents : Lock(f, a) \/ Write(f, a) \/ Delete(f, a) \/ Leave(f, a)

Spec == Init /\ [][Next]_vars
=============================================================================
