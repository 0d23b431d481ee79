----------------------------- MODULE Settlement -----------------------------
(***************************************************************************)
(* What FRI and SNARK provers together promise the sequencers, without     *)
(* provers, jobs, leases or calls: batches become proven as ProofLedger    *)
(* says, and proven batches become settled, a whole range at a time, each  *)
(* batch once and for good.                                                *)
(***************************************************************************)
CONSTANTS
  Inputs,     \* the batches of all sequencers
  Provable,   \* those the FRI provers can prove
  Ranges      \* the sets of batches one SNARK may settle

VARIABLES proven, settled

Fri == INSTANCE ProofLedger

TypeOK == Fri!TypeOK /\ settled \subseteq proven

Init == Fri!Init /\ settled = {}

Prove == Fri!Next /\ UNCHANGED settled

Settle(r) ==
  /\ r \subseteq proven
  /\ r \cap settled = {}
  /\ settled' = settled \cup r
  /\ UNCHANGED proven

Next == Prove \/ \E r \in Ranges : Settle(r)

SafeSpec == Init /\ [][Next]_<<proven, settled>>
=============================================================================
