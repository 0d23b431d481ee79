----------------------------- MODULE MCSnarkJobs -----------------------------
(***************************************************************************)
(* Versions and SNARK jobs for TLC's instances of the SNARK side: two      *)
(* versions that prove different programs, so that a job can pass the      *)
(* checks and yet not fit the wrapper.                                     *)
(***************************************************************************)
EXTENDS Sequences, TLC

CONSTANTS v8, v9, unknown, full, short, other, level

MCVersions ==
  <<[vkHash |-> v8, programCommitment |-> full, securityLevel |-> level],
    [vkHash |-> v9, programCommitment |-> other, securityLevel |-> level]>>

(* The app's chain after one unified pass is one fold short of the full    *)
(* chain; another program's chain is full.                                 *)
MCContinue == short :> full @@ full :> full @@ other :> other

Fri(c, chain) == [carried |-> c, chain |-> chain]
Sent(vk, proofs) == [vk |-> vk, proofs |-> proofs, fits |-> TRUE]

(* Jobs: of one proof - full, short, another program's, full without its   *)
(* chain; of two - mixed, with another program's, with a chainless one; of *)
(* the other program's version; none; of an unknown version; with a range  *)
(* beyond 32 bits.                                                         *)
MCJobs ==
  { Sent(v8, <<Fri(full, TRUE)>>), Sent(v8, <<Fri(short, TRUE)>>),
    Sent(v8, <<Fri(other, TRUE)>>), Sent(v8, <<Fri(full, FALSE)>>),
    Sent(v8, <<Fri(short, TRUE), Fri(full, TRUE)>>),
    Sent(v8, <<Fri(short, TRUE), Fri(other, TRUE)>>),
    Sent(v8, <<Fri(full, FALSE), Fri(short, TRUE)>>),
    Sent(v9, <<Fri(other, TRUE)>>),
    Sent(v8, <<>>), Sent(unknown, <<Fri(full, TRUE)>>),
    [vk |-> v8, proofs |-> <<Fri(full, TRUE)>>, fits |-> FALSE] }
=============================================================================
