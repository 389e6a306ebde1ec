---------------------------- MODULE BoundedDelivery ----------------------------
(***************************************************************************)
(* What the dispatch pipeline promises of each log: nothing is sent before  *)
(* the log is committed and queued, at most MaxDeliveries messages go out,  *)
(* a log ends "delivered" only if one did, and an ended log stays ended.    *)
(***************************************************************************)
EXTENDS Naturals

CONSTANTS Logs, MaxDeliveries

VARIABLES
  phase,      \* "absent", "committed", "queued", "delivered" or "exhausted"
  deliveries  \* messages sent for a log

Init ==
  /\ phase = [l \in Logs |-> "absent"]
  /\ deliveries = [l \in Logs |-> 0]

\* The logs of one batch are committed together.
Commit(S) ==
  /\ S # {}
  /\ \A l \in S : phase[l] = "absent"
  /\ phase' = [l \in Logs |-> IF l \in S THEN "committed" ELSE phase[l]]
  /\ UNCHANGED deliveries

Queue(l) ==
  /\ phase[l] = "committed"
  /\ phase' = [phase EXCEPT ![l] = "queued"]
  /\ UNCHANGED deliveries

Deliver(l) ==
  /\ phase[l] = "queued"
  /\ deliveries[l] < MaxDeliveries
  /\ deliveries' = [deliveries EXCEPT ![l] = @ + 1]
  /\ UNCHANGED phase

Settle(l) ==
  /\ phase[l] = "queued"
  /\ \/ deliveries[l] > 0 /\ phase' = [phase EXCEPT ![l] = "delivered"]
     \/ phase' = [phase EXCEPT ![l] = "exhausted"]
  /\ UNCHANGED deliveries

Next ==
  \/ \E S \in SUBSET Logs : Commit(S)
  \/ \E l \in Logs : Queue(l) \/ Deliver(l) \/ Settle(l)

vars == <<phase, deliveries>>

Spec == Init /\ [][Next]_vars
=============================================================================
