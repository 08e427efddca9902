---------------------------- MODULE ArtifactRunInv ----------------------------
(***************************************************************************)
(* The inductive invariant of ArtifactRun: what its safety properties rest  *)
(* on, in parts that name the fact each is about.                           *)
(***************************************************************************)
EXTENDS ArtifactRun

\* An attempt has a place in the engine exactly while its job is active in a
\* worker that is alive.
Executing(v) == job[v] = "active" /\ owner[v] # NoWorker

ExecutionInv == \A v \in Versions : pc[v] # "idle" <=> Executing(v)

\* A request between its append and its enqueue owns its version: the version
\* is in the family, its job is not queued yet, and no other request fills it.
Launching(c) == req[c].at \in {"appended", "created"}

RequestInv ==
  /\ \A c \in Clients : req[c].at # "idle" => req[c].v \in 1..currentVersion
  /\ \A c \in Clients : Launching(c) => job[req[c].v] = "none"
  /\ \A c, d \in Clients :
       Launching(c) /\ Launching(d) /\ req[c].v = req[d].v => c = d

\* A request about to append still finds the head settled, if the head is the
\* one it read.
RefineInv ==
  \A c \in Clients : req[c].at = "refining" =>
    /\ req[c].v < MaxVersions
    /\ currentVersion = req[c].v => vstatus[currentVersion] # "GENERATING"

\* Nothing exists beyond the head.
BeyondHeadInv ==
  \A v \in Versions : v > currentVersion => vstatus[v] = "NONE" /\ job[v] = "none"

\* The failure of a run is only handled, recorded or told for a failed job.
FailureInv ==
  \A v \in Versions :
    \/ listener[v] # "none"
    \/ run[v] = "FAILED"
    \/ \E i \in DOMAIN announced[v] : announced[v][i] = "run.failed"
    => job[v] = "failed"

\* The execution of this hand-out may have settled its debit.
MayHaveDebited(v) ==
  \/ job[v] = "completed"
  \/ job[v] = "active" /\ owner[v] = NoWorker
  \/ pc[v] \in {"announce", "return"}

DebitInv ==
  \A v \in Versions :
    Len(charged[v]) <= stalls[v] + (IF MayHaveDebited(v) THEN 1 ELSE 0)

IInv ==
  /\ TypeOK
  /\ ExecutionInv
  /\ RequestInv
  /\ RefineInv
  /\ BeyondHeadInv
  /\ OnlyHeadGenerates
  /\ FailureInv
  /\ DebitInv
=============================================================================
