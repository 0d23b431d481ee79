--------------------------- MODULE MCProofPipeline ---------------------------
(***************************************************************************)
(* Instances of ProofPipeline for TLC: two versions bound to different     *)
(* programs, and FRI proofs whose chain is full or one fold short.         *)
(***************************************************************************)
EXTENDS ProofPipeline, TLC

CONSTANTS v1, v2, A, short, B, level, s1, s2, p1, p2

MCVersions ==
  <<[vkHash |-> v1, programCommitment |-> A, securityLevel |-> level],
    [vkHash |-> v2, programCommitment |-> B, securityLevel |-> level]>>

MCContinue == short :> A @@ A :> A @@ B :> B

Chain(c) == [carried |-> c, chain |-> TRUE]

(* Two provers of one binary, A.  s1: a short chain that needs its         *)
(* neighbour, and a full one; s2, of the other version: a batch proved     *)
(* with the wrong program, which must not pass, and one proved with the    *)
(* right one, which passes and kills whoever takes it.                     *)
SafeBinary == p1 :> A @@ p2 :> A
SafeClients == <<s1, s2>>
SafeVk == s1 :> <<v1, v1>> @@ s2 :> <<v2, v2>>
SafeProofs ==
  <<s1, 1>> :> Chain(short) @@ <<s1, 2>> :> Chain(A)
    @@ <<s2, 1>> :> Chain(A) @@ <<s2, 2>> :> Chain(B)
SafeProvable == {<<s1, 1>>, <<s1, 2>>, <<s2, 1>>, <<s2, 2>>}

AlikeProvers == Permutations({p1, p2})

(* s2, asked first, never has a job; every job of s1 kills p2, and none    *)
(* may wrap batch 1 alone.                                                 *)
ProgressBinary == p1 :> A @@ p2 :> B
ProgressClients == <<s2, s1>>
ProgressVk == s1 :> <<v1, v1>> @@ s2 :> <<v1, v1>>
ProgressProofs ==
  <<s1, 1>> :> Chain(short) @@ <<s1, 2>> :> Chain(A)
    @@ <<s2, 1>> :> Chain(A) @@ <<s2, 2>> :> Chain(A)
ProgressProvable == {<<s1, 1>>, <<s1, 2>>}
=============================================================================
