----------------------------- MODULE ProofLedger -----------------------------
(***************************************************************************)
(* What a fleet of provers promises its sequencers, without provers, calls *)
(* or leases: batches become proven one at a time, each once and for good, *)
(* only batches that can be proven do, and all of those in the end.        *)
(***************************************************************************)
CONSTANTS
  Inputs,     \* the batches of all sequencers
  Provable    \* those whose version is bound to a program the fleet runs

VARIABLE proven

TypeOK == proven \subseteq Inputs

Init == proven = {}

ProveBatch(i) ==
  /\ i \notin proven
  /\ proven' = proven \cup {i}

Next == \E i \in Inputs : ProveBatch(i) /\ i \in Provable

SafeSpec == Init /\ [][Next]_proven

Spec == SafeSpec /\ \A i \in Provable : WF_proven(ProveBatch(i))
=============================================================================
