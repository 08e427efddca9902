---------------------------- MODULE ArtifactStore ----------------------------
(***************************************************************************)
(* The Mongo document of one artifact family: a list of versions, the      *)
(* number of the current one, a soft-delete stamp and the pin revision.     *)
(* Each operation below is one atomic Mongo write of artifact.service.ts    *)
(* (or of bumpArtifactPinRevision in post.service.ts) together with the     *)
(* condition that write repeats; the reads that precede a write, and the    *)
(* gap between the two, belong to the callers' modules.                     *)
(***************************************************************************)
EXTENDS Naturals

CONSTANT MaxVersions        \* bound on the refines of the family

ASSUME MaxVersionsAssumption == MaxVersions \in Nat \ {0}

Versions == 1..MaxVersions

\* "NONE" is a version not appended yet; it is no value of the stored enum.
VersionStatus == {"NONE", "GENERATING", "READY", "FAILED"}

\* Who wrote the content of a version: nobody, a generation run, an editor.
Contents == {"empty", "generated", "edited"}

VARIABLES
  currentVersion,   \* 0 before createArtifact
  deletedAt,        \* TRUE once soft-deleted
  vstatus,          \* [Versions -> VersionStatus]
  vcontent,         \* [Versions -> Contents]
  pinRevision       \* incremented by every schedule or publish

storeVars == <<currentVersion, deletedAt, vstatus, vcontent, pinRevision>>

StoreTypeOK ==
  /\ currentVersion \in 0..MaxVersions
  /\ deletedAt \in BOOLEAN
  /\ vstatus \in [Versions -> VersionStatus]
  /\ vcontent \in [Versions -> Contents]
  /\ pinRevision \in Nat

StoreInit ==
  /\ currentVersion = 0
  /\ deletedAt = FALSE
  /\ vstatus = [v \in Versions |-> "NONE"]
  /\ vcontent = [v \in Versions |-> "empty"]
  /\ pinRevision = 0

\* getLiveArtifact finds the family; otherwise it throws NotFoundException.
Live == currentVersion # 0 /\ ~deletedAt

\* Slip: the new version gets the status of the run's enumeration.
CreateArtifact_RunStatus ==
  /\ currentVersion = 0
  /\ currentVersion' = 1
  /\ vstatus' = [vstatus EXCEPT ![1] = "RUNNING"]
  /\ UNCHANGED <<deletedAt, vcontent, pinRevision>>

CreateArtifact ==
  /\ currentVersion = 0
  /\ currentVersion' = 1
  /\ vstatus' = [vstatus EXCEPT ![1] = "GENERATING"]
  /\ UNCHANGED <<deletedAt, vcontent, pinRevision>>

\* Slip: a refine of a version that is still being generated is let through.
Refinable_WhileGenerating == Live

\* What appendRefineVersion checks on the document it has read.
Refinable == Live /\ vstatus[currentVersion] # "GENERATING"

\* Its write repeats only the version number it read, not deletedAt.
AppendMatches(seen) == currentVersion = seen

AppendRefineVersion(seen) ==
  /\ AppendMatches(seen)
  /\ currentVersion' = seen + 1
  /\ vstatus' = [vstatus EXCEPT ![seen + 1] = "GENERATING"]
  /\ UNCHANGED <<deletedAt, vcontent, pinRevision>>

\* readRefineInput: a refine needs an earlier version whose content parses.
HasPriorContent(v) == \E u \in Versions : u < v /\ vcontent[u] # "empty"

\* The write is conditioned on the version number only: whatever the status
\* was, it becomes READY.
SetVersionContent(v) ==
  /\ Live
  /\ vcontent' = [vcontent EXCEPT ![v] = "generated"]
  /\ vstatus' = [vstatus EXCEPT ![v] = "READY"]
  /\ UNCHANGED <<currentVersion, deletedAt, pinRevision>>

FailVersion(v) ==
  /\ Live
  /\ vstatus' = [vstatus EXCEPT ![v] = "FAILED"]
  /\ UNCHANGED <<currentVersion, deletedAt, vcontent, pinRevision>>

\* Slip: the pin revision is not compared.
EditMatches_NoRevision(seen, rev) ==
  /\ Live
  /\ currentVersion = seen
  /\ vstatus[seen] = "READY"

\* The condition of updateArtifact's findOneAndUpdate, for the current version
\* and the pin revision its caller read.
EditMatches(seen, rev) ==
  /\ Live
  /\ currentVersion = seen
  /\ pinRevision = rev
  /\ vstatus[seen] = "READY"

EditVersion(seen, rev) ==
  /\ EditMatches(seen, rev)
  /\ vcontent' = [vcontent EXCEPT ![seen] = "edited"]
  /\ UNCHANGED <<currentVersion, deletedAt, vstatus, pinRevision>>

DeleteArtifact ==
  /\ Live
  /\ deletedAt' = TRUE
  /\ UNCHANGED <<currentVersion, vstatus, vcontent, pinRevision>>
=============================================================================
