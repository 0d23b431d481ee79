----------------------- MODULE ProtocolVersions_proofs -----------------------
(***************************************************************************)
(* What the provers may rely on when they ask the version table, for every *)
(* table a build can be compiled with.                                     *)
(***************************************************************************)
EXTENDS ProtocolVersions, WellFoundedInduction, TLAPS

LEMMA IndexTyped ==
  /\ Index = 1..Len(Versions)
  /\ Len(Versions) \in Nat
  /\ \A i \in Index : /\ Versions[i].vkHash \in VkHash
                      /\ Versions[i].programCommitment \in Commitment \cup {NoCommitment}
                      /\ Versions[i].securityLevel \in SecurityLevel \cup {NoLevel}
<1> DEFINE Entry == [vkHash : VkHash,
                     programCommitment : Commitment \cup {NoCommitment},
                     securityLevel : SecurityLevel \cup {NoLevel}]
<1>1. Versions \in Seq(Entry)
  BY VersionsAssumption
<1> HIDE DEF Entry
<1>2. Index = 1..Len(Versions) /\ Len(Versions) \in Nat /\ \A i \in Index : Versions[i] \in Entry
  BY <1>1 DEF Index
<1>3. ASSUME NEW v \in Entry
      PROVE  /\ v.vkHash \in VkHash
             /\ v.programCommitment \in Commitment \cup {NoCommitment}
             /\ v.securityLevel \in SecurityLevel \cup {NoLevel}
  BY DEF Entry
<1> QED BY <1>2, <1>3

(* `find` has a first hit wherever `any` has one. *)
LEMMA FirstExists ==
  ASSUME NEW vk, Contains(vk)
  PROVE  \E i \in Index : IsFirst(i, vk)
<1> DEFINE T == {i \in Index : Versions[i].vkHash = vk}
<1>1. T \subseteq Nat /\ T # {}
  BY IndexTyped DEF Contains
<1>2. PICK i \in T : \A j \in T : ~(<<j, i>> \in OpToRel(<, Nat))
  BY <1>1, NatLessThanWellFounded, WFMin, Zenon
<1>3. \A j \in T : ~(j < i)
  BY <1>1, <1>2 DEF OpToRel
<1>4. IsFirst(i, vk)
  BY <1>3 DEF IsFirst
<1> QED BY <1>4

(* The commitment looked up for a supported hash is the one recorded with  *)
(* an entry of that hash.                                                  *)
LEMMA CommitmentRecorded ==
  ASSUME NEW vk, Contains(vk)
  PROVE  \E i \in Index : /\ Versions[i].vkHash = vk
                          /\ ProgramCommitmentFor(vk) = Versions[i].programCommitment
<1> DEFINE f == CHOOSE i \in Index : IsFirst(i, vk)
<1>1. f \in Index /\ IsFirst(f, vk)
  BY FirstExists
<1>2. Versions[f].vkHash = vk
  BY <1>1 DEF IsFirst
<1>3. ProgramCommitmentFor(vk) = Versions[f].programCommitment
  BY DEF ProgramCommitmentFor
<1> QED BY <1>1, <1>2, <1>3

(* A job check that succeeds against a loaded program implies the startup  *)
(* check of that program: run_inner never asks for more than run did.      *)
THEOREM JobCheckImpliesStartupCheck ==
  ASSUME NEW vk, ProgramCommitmentFor(vk) # NoCommitment
  PROVE  SupportsProgram(ProgramCommitmentFor(vk))
<1>1. Contains(vk)
  BY DEF ProgramCommitmentFor
<1> QED BY <1>1, CommitmentRecorded DEF SupportsProgram

HashesUnique ==
  \A i, j \in Index : Versions[i].vkHash = Versions[j].vkHash => i = j

(* The converse needs distinct hashes: only then does a program that       *)
(* passes the startup check have a version whose jobs the prover takes.    *)
(* With a hash repeated in the table a prover may start and skip all jobs. *)
THEOREM StartedProverHasJobs ==
  ASSUME HashesUnique, NEW c, SupportsProgram(c)
  PROVE  \E vk \in VkHash : Contains(vk) /\ ProgramCommitmentFor(vk) = c
<1>1. PICK i \in Index : Versions[i].programCommitment = c
  BY DEF SupportsProgram
<1> DEFINE vk == Versions[i].vkHash
<1>2. vk \in VkHash /\ Contains(vk)
  BY <1>1, IndexTyped DEF Contains
<1>3. PICK k \in Index : Versions[k].vkHash = vk
                         /\ ProgramCommitmentFor(vk) = Versions[k].programCommitment
  BY <1>2, CommitmentRecorded
<1>4. k = i
  BY <1>1, <1>3 DEF HashesUnique
<1> QED BY <1>1, <1>2, <1>3, <1>4

(* The level a process proves at is the level of every version that        *)
(* records one: no job it may be handed needs another.                     *)
THEOREM LevelServesAll ==
  ASSUME LevelAgreed, NEW i \in Index
  PROVE  Versions[i].securityLevel \in {ProvingSecurityLevel, NoLevel}
<1>1. CASE RecordedLevels = {}
  BY <1>1 DEF RecordedLevels
<1>2. CASE RecordedLevels # {}
  <2>1. PICK l \in RecordedLevels : RecordedLevels = {l}
    BY <1>2, NoneAssumption DEF LevelAgreed, ProvingSecurityLevel
  <2>2. ProvingSecurityLevel = l
    BY <2>1 DEF ProvingSecurityLevel
  <2> QED BY <2>1, <2>2 DEF RecordedLevels
<1> QED BY <1>1, <1>2
=============================================================================
