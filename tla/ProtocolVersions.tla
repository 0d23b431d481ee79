-------------------------- MODULE ProtocolVersions --------------------------
(***************************************************************************)
(* The table of protocol versions a prover build supports and the          *)
(* questions the provers ask of it (crates/protocol_version/src/lib.rs).   *)
(*                                                                         *)
(* The table is a compile-time constant of the code (`Default` returns     *)
(* [V8]); it is a CONSTANT sequence here, so that what is checked and      *)
(* proved holds for whatever table a later edit of that file produces.     *)
(* Display-only fields (airbender, zksync-os and wrapper versions, md5sum) *)
(* take no part in any decision and are left out.                          *)
(***************************************************************************)
EXTENDS Naturals, Sequences

CONSTANTS
  VkHash,          \* verification key hashes, known to this build or not
  Commitment,      \* app-program commitments
  SecurityLevel,   \* FRI proving security levels
  NoCommitment,    \* Option::None for a program commitment
  NoLevel,         \* Option::None for a security level
  MixedLevels,     \* what `proving_security_level` panics with
  Versions         \* the supported versions, in table order

ASSUME VersionsAssumption ==
  Versions \in Seq([vkHash : VkHash,
                    programCommitment : Commitment \cup {NoCommitment},
                    securityLevel : SecurityLevel \cup {NoLevel}])

ASSUME NoneAssumption ==
  /\ NoCommitment \notin Commitment
  /\ NoLevel \notin SecurityLevel
  /\ MixedLevels \notin SecurityLevel \cup {NoLevel}

-----------------------------------------------------------------------------
Index == DOMAIN Versions

(* SupportedProtocolVersions::contains *)
Contains(vk) == \E i \in Index : Versions[i].vkHash = vk

(* SupportedProtocolVersions::vk_hashes: what pick requests declare.       *)
DeclaredVkHashes == {Versions[i].vkHash : i \in Index}

(* `iter().find(..)`: i is the first entry of the table with this hash.    *)
IsFirst(i, vk) ==
  /\ i \in Index
  /\ Versions[i].vkHash = vk
  /\ \A j \in Index : j < i => Versions[j].vkHash # vk

(* SupportedProtocolVersions::program_commitment_for *)
ProgramCommitmentFor(vk) ==
  IF Contains(vk)
  THEN Versions[CHOOSE i \in Index : IsFirst(i, vk)].programCommitment
  ELSE NoCommitment

(* SupportedProtocolVersions::supports_program *)
SupportsProgram(c) == \E i \in Index : Versions[i].programCommitment = c

RecordedLevels == {Versions[i].securityLevel : i \in Index} \ {NoLevel}

(* SupportedProtocolVersions::proving_security_level: the one level all    *)
(* recording versions share, None if none records one, a panic otherwise.  *)
ProvingSecurityLevel ==
  IF RecordedLevels = {} THEN NoLevel
  ELSE IF \E l \in RecordedLevels : RecordedLevels = {l}
       THEN CHOOSE l \in RecordedLevels : TRUE
       ELSE MixedLevels

(* A table some prover process can start with at all: both create_prover   *)
(* and create_combiner fail on it otherwise.                               *)
LevelAgreed == ProvingSecurityLevel \in SecurityLevel
=============================================================================
