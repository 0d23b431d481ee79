---------------------------- MODULE MCFriProving ----------------------------
(***************************************************************************)
(* Instances of FriProving for TLC.  The version table has the shape       *)
(* FriProving must cope with in general: two versions that prove different *)
(* binaries, and one that records no commitment (as before V8).            *)
(***************************************************************************)
EXTENDS FriProving, TLC

CONSTANTS v1, v2, v3, v9, A, B, level, s1, s2, p1, p2, p3

Version(vk, c, l) == [vkHash |-> vk, programCommitment |-> c, securityLevel |-> l]

MCVersions == <<Version(v1, A, level), Version(v2, B, level),
                Version(v3, NoCommitment, NoLevel)>>

(* The fleet: two provers of one binary, so that a lease that runs out     *)
(* makes two proofs of one batch.  Both can prove the two batches of v1    *)
(* and are done after two; v2 is bound to a program neither runs.  The     *)
(* first sequencer is too old to know `supported_vk_hashes` and hands out  *)
(* a version nobody supports.                                              *)
FleetProgram == p1 :> A @@ p2 :> A
FleetClients == <<s1, s2>>
FleetJobVk == s1 :> (1 :> v1 @@ 2 :> v9) @@ s2 :> (1 :> v1 @@ 2 :> v2)
SameBinary == Permutations({p1, p2})

(* Progress: the first sequencer is down.  The second is unaware of        *)
(* `supported_vk_hashes`; p1 can prove its batch 1, which p2 skips; its    *)
(* batch 2 kills p2, whose binary it is for; p3 is a CPU build and cannot  *)
(* start.                                                                  *)
ProgressProgram == p1 :> A @@ p2 :> B @@ p3 :> NoCommitment
ProgressJobVk == s1 :> (1 :> v1 @@ 2 :> v1) @@ s2 :> (1 :> v1 @@ 2 :> v2)
ProgressMalformed == {<<s2, 2>>}
=============================================================================
