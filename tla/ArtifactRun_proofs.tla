-------------------------- MODULE ArtifactRun_proofs --------------------------
(***************************************************************************)
(* Proofs of the safety properties of ArtifactRun for any number of         *)
(* versions, clients, workers, attempts, faults and crashes; and, as long    *)
(* as no worker dies, that it implements RunContract, and while no write is  *)
(* lost either, that settled versions stay as they are.                      *)
(***************************************************************************)
EXTENDS ArtifactRunInv, SequenceTheorems, TLAPS

-----------------------------------------------------------------------------
(* Initial states *)

LEMMA InitInv == Init => IInv
<1> SUFFICES ASSUME Init PROVE IInv
  OBVIOUS
<1> USE DEF Init, StoreInit
<1>1. TypeOK
  <2>1. StoreTypeOK
    <3>1. currentVersion \in 0..MaxVersions
      <4>1. 0 \in 0..MaxVersions
        BY MaxVersionsAssumption
      <4>2. currentVersion = 0
        OBVIOUS
      <4>3. QED
        BY <4>1, <4>2, Zenon
    <3>2. vstatus \in [Versions -> VersionStatus] /\ vcontent \in [Versions -> Contents]
      BY DEF VersionStatus, Contents
    <3>3. pinRevision \in Nat /\ deletedAt \in BOOLEAN
      OBVIOUS
    <3>4. QED
      BY <3>1, <3>2, <3>3 DEF StoreTypeOK
  <2>2. LaunchTypeOK
    BY MaxVersionsAssumption DEF LaunchTypeOK, NoRequest
  <2>3. QueueTypeOK /\ WorkerTypeOK
    BY DEF QueueTypeOK, WorkerTypeOK, JobStates, Places
  <2>4. OutcomeTypeOK /\ BoundTypeOK
    BY DEF OutcomeTypeOK, BoundTypeOK
  <2>5. QED
    BY <2>1, <2>2, <2>3, <2>4 DEF TypeOK
<1>2. ExecutionInv
  BY DEF ExecutionInv, Executing
<1>3. RequestInv /\ RefineInv
  BY DEF RequestInv, RefineInv, Launching, NoRequest
<1>4. BeyondHeadInv /\ OnlyHeadGenerates
  BY DEF BeyondHeadInv, OnlyHeadGenerates
<1>5. FailureInv
  BY DEF FailureInv
<1>6. DebitInv
  BY DEF DebitInv, MayHaveDebited
<1>7. QED
  BY <1>1, <1>2, <1>3, <1>4, <1>5, <1>6 DEF IInv

-----------------------------------------------------------------------------
(* Type correctness, one action at a time *)

LEMMA FailAttemptType ==
  ASSUME TypeOK, NEW v \in Versions, NEW u \in BOOLEAN, FailAttempt(v, u)
  PROVE  QueueTypeOK' /\ WorkerTypeOK'
<1> USE DEF TypeOK, FailAttempt, QueueTypeOK, WorkerTypeOK
<1>1. job' \in [Versions -> JobStates]
  BY DEF JobStates
<1>2. attemptsMade' \in [Versions -> Nat] /\ stalls' \in [Versions -> Nat]
  OBVIOUS
<1>3. owner' \in [Versions -> Workers \cup {NoWorker}]
  OBVIOUS
<1>4. pc' \in [Versions -> Places] /\ used' \in [Versions -> Nat]
  BY DEF Places
<1>5. listener' \in [Versions -> {"none", "failVersion", "failRun", "announce"}]
  BY DEF OnFailed
<1>6. QED
  BY <1>1, <1>2, <1>3, <1>4, <1>5

\* A request about to append read a version with room for a successor.
LEMMA RefinedVersion ==
  ASSUME TypeOK, RefineInv, NEW c \in Clients, req[c].at = "refining"
  PROVE  req[c].v \in Nat /\ req[c].v < MaxVersions /\ req[c].v + 1 \in 0..MaxVersions
<1>1. req[c].v \in 0..MaxVersions
  BY DEF TypeOK, LaunchTypeOK
<1>2. req[c].v < MaxVersions
  BY DEF RefineInv
<1>3. QED
  BY <1>1, <1>2, MaxVersionsAssumption

LEMMA SetReqType ==
  ASSUME TypeOK, NEW c \in Clients, NEW n \in 0..MaxVersions,
         NEW at \in {"idle", "refining", "appended", "created"},
         SetReq(c, at, n)
  PROVE  req' \in [Clients -> [at : {"idle", "refining", "appended", "created"},
                               v : 0..MaxVersions]]
BY DEF TypeOK, LaunchTypeOK, SetReq

LEMMA TypeStep == TypeOK /\ RefineInv /\ [Next]_vars => TypeOK'
<1> SUFFICES ASSUME TypeOK, RefineInv, [Next]_vars PROVE TypeOK'
  OBVIOUS
<1>1. ASSUME NEW c \in Clients, Request(c) PROVE TypeOK'
  <2>1. CASE LaunchInitialRun(c)
    <3>1. StoreTypeOK'
      BY <2>1, MaxVersionsAssumption DEF TypeOK, StoreTypeOK, LaunchInitialRun, CreateArtifact, VersionStatus, Versions
    <3>2. LaunchTypeOK'
      BY <2>1, MaxVersionsAssumption DEF TypeOK, LaunchTypeOK, LaunchInitialRun, SetReq
    <3>3. QueueTypeOK' /\ WorkerTypeOK' /\ OutcomeTypeOK' /\ BoundTypeOK'
      BY <2>1 DEF TypeOK, LaunchInitialRun, QueueTypeOK, queueVars, WorkerTypeOK, execVars, OutcomeTypeOK, moneyVars, BoundTypeOK, boundVars
    <3>4. QED
      BY <3>1, <3>2, <3>3 DEF TypeOK
  <2>2. CASE ReadForRefine(c)
    <3>1. LaunchTypeOK'
      BY <2>2 DEF TypeOK, LaunchTypeOK, StoreTypeOK, ReadForRefine, SetReq
    <3>2. StoreTypeOK' /\ QueueTypeOK' /\ WorkerTypeOK' /\ OutcomeTypeOK' /\ BoundTypeOK'
      BY <2>2 DEF TypeOK, ReadForRefine, StoreTypeOK, storeVars, QueueTypeOK, queueVars, WorkerTypeOK, execVars, OutcomeTypeOK, moneyVars, BoundTypeOK, boundVars
    <3>3. QED
      BY <3>1, <3>2 DEF TypeOK
  <2>3. CASE WriteRefine(c)
    <3>1. StoreTypeOK'
      <4>1. CASE AppendMatches(req[c].v)
        <5>1. req[c].v + 1 \in Versions
          BY <2>3, RefinedVersion DEF WriteRefine, Versions
        <5>2. QED
          BY <2>3, <4>1, <5>1 DEF TypeOK, StoreTypeOK, WriteRefine, AppendRefineVersion, VersionStatus, Versions
      <4>2. CASE ~AppendMatches(req[c].v)
        BY <2>3, <4>2 DEF TypeOK, StoreTypeOK, WriteRefine, storeVars
      <4>3. QED
        BY <4>1, <4>2
    <3>2. LaunchTypeOK'
      <4>1. CASE AppendMatches(req[c].v)
        BY <2>3, <4>1, RefinedVersion, SetReqType DEF TypeOK, LaunchTypeOK, WriteRefine
      <4>2. CASE ~AppendMatches(req[c].v)
        BY <2>3, <4>2, SetReqType, MaxVersionsAssumption DEF TypeOK, LaunchTypeOK, WriteRefine
      <4>3. QED
        BY <4>1, <4>2
    <3>3. QueueTypeOK' /\ WorkerTypeOK' /\ OutcomeTypeOK' /\ BoundTypeOK'
      BY <2>3 DEF TypeOK, WriteRefine, QueueTypeOK, queueVars, WorkerTypeOK, execVars, OutcomeTypeOK, moneyVars, BoundTypeOK, boundVars
    <3>4. QED
      BY <3>1, <3>2, <3>3 DEF TypeOK
  <2>4. CASE CreateRun(c)
    <3>1. LaunchTypeOK'
      BY <2>4 DEF TypeOK, LaunchTypeOK, CreateRun, SetReq
    <3>2. StoreTypeOK' /\ QueueTypeOK' /\ WorkerTypeOK' /\ OutcomeTypeOK' /\ BoundTypeOK'
      BY <2>4 DEF TypeOK, CreateRun, StoreTypeOK, storeVars, QueueTypeOK, queueVars, WorkerTypeOK, execVars, OutcomeTypeOK, moneyVars, BoundTypeOK, boundVars
    <3>3. QED
      BY <3>1, <3>2 DEF TypeOK
  <2>5. CASE AddArtifactRunJob(c)
    <3>1. LaunchTypeOK'
      BY <2>5, SetReqType, MaxVersionsAssumption DEF TypeOK, LaunchTypeOK, AddArtifactRunJob
    <3>2. QueueTypeOK'
      BY <2>5 DEF TypeOK, QueueTypeOK, AddArtifactRunJob, JobStates
    <3>3. StoreTypeOK' /\ WorkerTypeOK' /\ OutcomeTypeOK' /\ BoundTypeOK'
      BY <2>5 DEF TypeOK, AddArtifactRunJob, StoreTypeOK, storeVars, WorkerTypeOK, execVars, OutcomeTypeOK, moneyVars, BoundTypeOK, boundVars
    <3>4. QED
      BY <3>1, <3>2, <3>3 DEF TypeOK
  <2>6. CASE LaunchFails(c)
    <3>1. LaunchTypeOK'
      BY <2>6, SetReqType, MaxVersionsAssumption DEF TypeOK, LaunchTypeOK, LaunchFails
    <3>2. BoundTypeOK'
      BY <2>6 DEF TypeOK, BoundTypeOK, LaunchFails, Fault
    <3>3. StoreTypeOK' /\ QueueTypeOK' /\ WorkerTypeOK' /\ OutcomeTypeOK'
      BY <2>6 DEF TypeOK, LaunchFails, StoreTypeOK, storeVars, QueueTypeOK, queueVars, WorkerTypeOK, execVars, OutcomeTypeOK, moneyVars
    <3>4. QED
      BY <3>1, <3>2, <3>3 DEF TypeOK
  <2>7. QED
    BY <1>1, <2>1, <2>2, <2>3, <2>4, <2>5, <2>6 DEF Request
<1>2. CASE UpdateArtifact
  <2>1. StoreTypeOK'
    BY <1>2 DEF TypeOK, StoreTypeOK, UpdateArtifact, EditVersion, Contents
  <2>2. LaunchTypeOK' /\ QueueTypeOK' /\ WorkerTypeOK' /\ OutcomeTypeOK' /\ BoundTypeOK'
    BY <1>2 DEF TypeOK, UpdateArtifact, LaunchTypeOK, QueueTypeOK, queueVars, WorkerTypeOK, execVars, OutcomeTypeOK, moneyVars, BoundTypeOK, boundVars
  <2>3. QED
    BY <2>1, <2>2 DEF TypeOK
<1>3. CASE RemoveArtifact
  <2>1. StoreTypeOK'
    BY <1>3 DEF TypeOK, StoreTypeOK, RemoveArtifact, DeleteArtifact
  <2>2. LaunchTypeOK' /\ QueueTypeOK' /\ WorkerTypeOK' /\ OutcomeTypeOK' /\ BoundTypeOK'
    BY <1>3 DEF TypeOK, RemoveArtifact, LaunchTypeOK, QueueTypeOK, queueVars, WorkerTypeOK, execVars, OutcomeTypeOK, moneyVars, BoundTypeOK, boundVars
  <2>3. QED
    BY <2>1, <2>2 DEF TypeOK
<1>4. ASSUME NEW w \in Workers, NEW v \in Versions, PickUp(w, v) PROVE TypeOK'
  <2>1. QueueTypeOK'
    BY <1>4 DEF TypeOK, QueueTypeOK, PickUp, JobStates
  <2>2. WorkerTypeOK'
    BY <1>4 DEF TypeOK, WorkerTypeOK, PickUp, OnFailed, Places
  <2>3. StoreTypeOK' /\ LaunchTypeOK' /\ OutcomeTypeOK' /\ BoundTypeOK'
    BY <1>4 DEF TypeOK, PickUp, StoreTypeOK, storeVars, LaunchTypeOK, OutcomeTypeOK, moneyVars, BoundTypeOK, boundVars
  <2>4. QED
    BY <2>1, <2>2, <2>3 DEF TypeOK
<1>5. ASSUME NEW w \in Workers, Crash(w) PROVE TypeOK'
  <2>1. WorkerTypeOK'
    BY <1>5 DEF TypeOK, WorkerTypeOK, Crash, Places
  <2>2. BoundTypeOK'
    BY <1>5 DEF TypeOK, BoundTypeOK, Crash
  <2>3. StoreTypeOK' /\ LaunchTypeOK' /\ QueueTypeOK' /\ OutcomeTypeOK'
    BY <1>5 DEF TypeOK, Crash, StoreTypeOK, storeVars, LaunchTypeOK, QueueTypeOK, queueVars, OutcomeTypeOK, moneyVars
  <2>4. QED
    BY <2>1, <2>2, <2>3 DEF TypeOK
<1>6. ASSUME NEW v \in Versions, Stalled(v) PROVE TypeOK'
  <2>1. QueueTypeOK'
    BY <1>6 DEF TypeOK, QueueTypeOK, Stalled, JobStates
  <2>2. StoreTypeOK' /\ LaunchTypeOK' /\ WorkerTypeOK' /\ OutcomeTypeOK' /\ BoundTypeOK'
    BY <1>6 DEF TypeOK, Stalled, StoreTypeOK, storeVars, LaunchTypeOK, WorkerTypeOK, execVars, OutcomeTypeOK, moneyVars, BoundTypeOK, boundVars
  <2>3. QED
    BY <2>1, <2>2 DEF TypeOK
<1>7. ASSUME NEW v \in Versions, Attempt(v) PROVE TypeOK'
  <2>1. CASE StartAttempt(v)
    <3>1. WorkerTypeOK'
      BY <2>1 DEF TypeOK, WorkerTypeOK, StartAttempt, Places, StepNames
    <3>2. StoreTypeOK' /\ LaunchTypeOK' /\ QueueTypeOK' /\ OutcomeTypeOK' /\ BoundTypeOK'
      BY <2>1 DEF TypeOK, StartAttempt, StoreTypeOK, storeVars, LaunchTypeOK, QueueTypeOK, queueVars, OutcomeTypeOK, moneyVars, BoundTypeOK, boundVars
    <3>3. QED
      BY <3>1, <3>2 DEF TypeOK
  <2>2. CASE RefuseAttempt(v)
    <3>1. QueueTypeOK' /\ WorkerTypeOK'
      BY <2>2, FailAttemptType DEF RefuseAttempt
    <3>2. StoreTypeOK' /\ LaunchTypeOK' /\ OutcomeTypeOK' /\ BoundTypeOK'
      BY <2>2 DEF TypeOK, RefuseAttempt, StoreTypeOK, storeVars, LaunchTypeOK, OutcomeTypeOK, moneyVars, BoundTypeOK, boundVars
    <3>3. QED
      BY <3>1, <3>2 DEF TypeOK
  <2>3. CASE DoStep(v)
    <3>1. StoreTypeOK'
      BY <2>3 DEF TypeOK, StoreTypeOK, DoStep, SetVersionContent, Contents, VersionStatus, storeVars
    <3>2. WorkerTypeOK'
      <4>1. pc' \in [Versions -> Places]
        BY <2>3 DEF TypeOK, WorkerTypeOK, DoStep, After, Places, StepNames
      <4>2. used' \in [Versions -> Nat]
        BY <2>3, RunAssumption DEF TypeOK, WorkerTypeOK, DoStep
      <4>3. QED
        BY <2>3, <4>1, <4>2 DEF TypeOK, WorkerTypeOK, DoStep
    <3>3. LaunchTypeOK' /\ QueueTypeOK' /\ OutcomeTypeOK' /\ BoundTypeOK'
      BY <2>3 DEF TypeOK, DoStep, LaunchTypeOK, QueueTypeOK, queueVars, OutcomeTypeOK, moneyVars, BoundTypeOK, boundVars
    <3>4. QED
      BY <3>1, <3>2, <3>3 DEF TypeOK
  <2>4. CASE StepFails(v)
    <3>1. QueueTypeOK' /\ WorkerTypeOK'
      BY <2>4, FailAttemptType DEF StepFails
    <3>2. StoreTypeOK' /\ LaunchTypeOK' /\ OutcomeTypeOK' /\ BoundTypeOK'
      BY <2>4 DEF TypeOK, StepFails, StoreTypeOK, storeVars, LaunchTypeOK, OutcomeTypeOK, moneyVars, BoundTypeOK, boundVars
    <3>3. QED
      BY <3>1, <3>2 DEF TypeOK
  <2>5. CASE Complete(v)
    <3>1. LaunchTypeOK'
      BY <2>5 DEF TypeOK, LaunchTypeOK, Complete
    <3>2. WorkerTypeOK'
      BY <2>5 DEF TypeOK, WorkerTypeOK, Complete, Places
    <3>3. StoreTypeOK' /\ QueueTypeOK' /\ OutcomeTypeOK' /\ BoundTypeOK'
      BY <2>5 DEF TypeOK, Complete, StoreTypeOK, storeVars, QueueTypeOK, queueVars, OutcomeTypeOK, moneyVars, BoundTypeOK, boundVars
    <3>4. QED
      BY <3>1, <3>2, <3>3 DEF TypeOK
  <2>6. CASE CompleteFails(v)
    <3>1. QueueTypeOK' /\ WorkerTypeOK'
      BY <2>6, FailAttemptType DEF CompleteFails
    <3>2. BoundTypeOK'
      BY <2>6 DEF TypeOK, BoundTypeOK, CompleteFails, Fault
    <3>3. StoreTypeOK' /\ LaunchTypeOK' /\ OutcomeTypeOK'
      BY <2>6 DEF TypeOK, CompleteFails, StoreTypeOK, storeVars, LaunchTypeOK, OutcomeTypeOK, moneyVars
    <3>4. QED
      BY <3>1, <3>2, <3>3 DEF TypeOK
  <2>7. CASE Commit(v)
    <3>1. WorkerTypeOK'
      BY <2>7 DEF TypeOK, WorkerTypeOK, Commit, Places
    <3>2. OutcomeTypeOK'
      <4>1. Append(charged[v], used[v]) \in Seq(Nat)
        BY AppendProperties DEF TypeOK, OutcomeTypeOK, WorkerTypeOK
      <4>2. charged' \in [Versions -> Seq(Nat)]
        BY <2>7, <4>1 DEF TypeOK, OutcomeTypeOK, Commit, moneyVars
      <4>3. usage' \in Nat /\ announced' \in [Versions -> Seq(TerminalEvents)]
        BY <2>7 DEF TypeOK, OutcomeTypeOK, WorkerTypeOK, Commit, moneyVars
      <4>4. QED
        BY <4>2, <4>3 DEF OutcomeTypeOK
    <3>3. StoreTypeOK' /\ LaunchTypeOK' /\ QueueTypeOK' /\ BoundTypeOK'
      BY <2>7 DEF TypeOK, Commit, StoreTypeOK, storeVars, LaunchTypeOK, QueueTypeOK, queueVars, BoundTypeOK, boundVars
    <3>4. QED
      BY <3>1, <3>2, <3>3 DEF TypeOK
  <2>8. CASE CommitFails(v)
    <3>1. WorkerTypeOK'
      BY <2>8 DEF TypeOK, WorkerTypeOK, CommitFails, Places
    <3>2. BoundTypeOK'
      BY <2>8 DEF TypeOK, BoundTypeOK, CommitFails, Fault
    <3>3. StoreTypeOK' /\ LaunchTypeOK' /\ QueueTypeOK' /\ OutcomeTypeOK'
      BY <2>8 DEF TypeOK, CommitFails, StoreTypeOK, storeVars, LaunchTypeOK, QueueTypeOK, queueVars, OutcomeTypeOK, moneyVars
    <3>4. QED
      BY <3>1, <3>2, <3>3 DEF TypeOK
  <2>9. CASE AnnounceCompleted(v)
    <3>1. WorkerTypeOK'
      BY <2>9 DEF TypeOK, WorkerTypeOK, AnnounceCompleted, Places
    <3>2. OutcomeTypeOK'
      <4>1. Append(announced[v], "run.completed") \in Seq(TerminalEvents)
        BY AppendProperties DEF TypeOK, OutcomeTypeOK, TerminalEvents
      <4>2. QED
        BY <2>9, <4>1 DEF TypeOK, OutcomeTypeOK, AnnounceCompleted, Announce, moneyVars
    <3>3. StoreTypeOK' /\ LaunchTypeOK' /\ QueueTypeOK'
      BY <2>9 DEF TypeOK, AnnounceCompleted, StoreTypeOK, storeVars, LaunchTypeOK, QueueTypeOK, queueVars
    <3>4. BoundTypeOK'
      BY <2>9 DEF TypeOK, BoundTypeOK, AnnounceCompleted, Announce, Fault
    <3>5. QED
      BY <3>1, <3>2, <3>3, <3>4 DEF TypeOK
  <2>10. CASE JobCompleted(v)
    <3>1. QueueTypeOK'
      BY <2>10 DEF TypeOK, QueueTypeOK, JobCompleted, JobStates
    <3>2. WorkerTypeOK'
      BY <2>10 DEF TypeOK, WorkerTypeOK, JobCompleted, Places
    <3>3. StoreTypeOK' /\ LaunchTypeOK' /\ OutcomeTypeOK' /\ BoundTypeOK'
      BY <2>10 DEF TypeOK, JobCompleted, StoreTypeOK, storeVars, LaunchTypeOK, OutcomeTypeOK, moneyVars, BoundTypeOK, boundVars
    <3>4. QED
      BY <3>1, <3>2, <3>3 DEF TypeOK
  <2>11. QED
    BY <1>7, <2>1, <2>2, <2>3, <2>4, <2>5, <2>6, <2>7, <2>8, <2>9, <2>10 DEF Attempt
<1>8. ASSUME NEW v \in Versions, Handler(v) PROVE TypeOK'
  <2>1. CASE HandlerFailVersion(v)
    <3>1. StoreTypeOK'
      BY <2>1 DEF TypeOK, StoreTypeOK, HandlerFailVersion, FailVersion, VersionStatus, storeVars
    <3>2. WorkerTypeOK'
      BY <2>1 DEF TypeOK, WorkerTypeOK, HandlerFailVersion, HandlerStep
    <3>3. BoundTypeOK'
      BY <2>1 DEF TypeOK, BoundTypeOK, HandlerFailVersion, Fault
    <3>4. LaunchTypeOK' /\ QueueTypeOK' /\ OutcomeTypeOK'
      BY <2>1 DEF TypeOK, HandlerFailVersion, LaunchTypeOK, QueueTypeOK, queueVars, OutcomeTypeOK, moneyVars
    <3>5. QED
      BY <3>1, <3>2, <3>3, <3>4 DEF TypeOK
  <2>2. CASE HandlerFailRun(v)
    <3>1. LaunchTypeOK'
      BY <2>2 DEF TypeOK, LaunchTypeOK, HandlerFailRun
    <3>2. WorkerTypeOK'
      BY <2>2 DEF TypeOK, WorkerTypeOK, HandlerFailRun, HandlerStep
    <3>3. BoundTypeOK'
      BY <2>2 DEF TypeOK, BoundTypeOK, HandlerFailRun, Fault
    <3>4. StoreTypeOK' /\ QueueTypeOK' /\ OutcomeTypeOK'
      BY <2>2 DEF TypeOK, HandlerFailRun, StoreTypeOK, storeVars, QueueTypeOK, queueVars, OutcomeTypeOK, moneyVars
    <3>5. QED
      BY <3>1, <3>2, <3>3, <3>4 DEF TypeOK
  <2>3. CASE HandlerAnnounce(v)
    <3>1. WorkerTypeOK'
      BY <2>3 DEF TypeOK, WorkerTypeOK, HandlerAnnounce, HandlerStep
    <3>2. OutcomeTypeOK'
      <4>1. Append(announced[v], "run.failed") \in Seq(TerminalEvents)
        BY AppendProperties DEF TypeOK, OutcomeTypeOK, TerminalEvents
      <4>2. QED
        BY <2>3, <4>1 DEF TypeOK, OutcomeTypeOK, HandlerAnnounce, Announce, moneyVars
    <3>3. StoreTypeOK' /\ LaunchTypeOK' /\ QueueTypeOK'
      BY <2>3 DEF TypeOK, HandlerAnnounce, StoreTypeOK, storeVars, LaunchTypeOK, QueueTypeOK, queueVars
    <3>4. BoundTypeOK'
      BY <2>3 DEF TypeOK, BoundTypeOK, HandlerAnnounce, Announce, Fault
    <3>5. QED
      BY <3>1, <3>2, <3>3, <3>4 DEF TypeOK
  <2>4. QED
    BY <1>8, <2>1, <2>2, <2>3 DEF Handler
<1>9. CASE UNCHANGED vars
  <2>1. StoreTypeOK' /\ LaunchTypeOK' /\ QueueTypeOK' /\ WorkerTypeOK' /\ OutcomeTypeOK' /\ BoundTypeOK'
    BY <1>9 DEF TypeOK, vars, StoreTypeOK, storeVars, LaunchTypeOK, QueueTypeOK, queueVars, WorkerTypeOK, execVars, OutcomeTypeOK, moneyVars, BoundTypeOK, boundVars
  <2>2. QED
    BY <2>1 DEF TypeOK
<1>10. QED
  BY <1>1, <1>2, <1>3, <1>4, <1>5, <1>6, <1>7, <1>8, <1>9 DEF Next

-----------------------------------------------------------------------------
(* What each kind of action leaves alone *)

LEMMA RequestFrame ==
  ASSUME NEW c \in Clients, Request(c)
  PROVE  UNCHANGED <<stalls, owner, pc, listener, charged, announced>>
BY DEF Request, LaunchInitialRun, ReadForRefine, WriteRefine, CreateRun,
       AddArtifactRunJob, LaunchFails, queueVars, execVars, moneyVars

LEMMA UserFrame ==
  ASSUME UpdateArtifact \/ RemoveArtifact \/ UNCHANGED vars
  PROVE  UNCHANGED <<currentVersion, vstatus, req, run, job, stalls, owner, pc,
                     listener, charged, announced>>
BY DEF UpdateArtifact, EditVersion, RemoveArtifact, DeleteArtifact, vars,
       storeVars, queueVars, execVars, moneyVars

LEMMA QueueFrame ==
  ASSUME \/ \E w \in Workers, v \in Versions : PickUp(w, v)
         \/ \E w \in Workers : Crash(w)
         \/ \E v \in Versions : Stalled(v)
  PROVE  UNCHANGED <<currentVersion, vstatus, req, run, charged, announced>>
BY DEF PickUp, Crash, Stalled, storeVars, moneyVars

LEMMA AttemptFrame ==
  ASSUME NEW v \in Versions, Attempt(v)
  PROVE  UNCHANGED <<currentVersion, req, stalls>>
<1>1. UNCHANGED <<currentVersion, req>>
  BY DEF Attempt, StartAttempt, RefuseAttempt, DoStep, SetVersionContent,
         StepFails, Complete, CompleteFails, Commit, CommitFails,
         AnnounceCompleted, JobCompleted, storeVars
<1>2. UNCHANGED stalls
  BY DEF Attempt, StartAttempt, RefuseAttempt, DoStep, StepFails, FailAttempt,
         Complete, CompleteFails, Commit, CommitFails, AnnounceCompleted,
         JobCompleted, queueVars
<1>3. QED
  BY <1>1, <1>2

LEMMA HandlerFrame ==
  ASSUME NEW v \in Versions, Handler(v)
  PROVE  UNCHANGED <<currentVersion, req, job, stalls, pc, charged>>
BY DEF Handler, HandlerFailVersion, FailVersion, HandlerFailRun,
       HandlerAnnounce, storeVars, queueVars, moneyVars

-----------------------------------------------------------------------------
(* The job, its owner and its place in the engine move together *)

LEMMA ExecutionStep == IInv /\ [Next]_vars => ExecutionInv'
<1> SUFFICES ASSUME TypeOK, ExecutionInv, RequestInv, FailureInv, [Next]_vars
             PROVE  ExecutionInv'
  BY DEF IInv
<1> USE DEF ExecutionInv, Executing
<1>1. /\ job \in [Versions -> JobStates]
      /\ owner \in [Versions -> Workers \cup {NoWorker}]
      /\ pc \in [Versions -> Places]
  BY DEF TypeOK, QueueTypeOK, WorkerTypeOK
<1>2. ASSUME UNCHANGED <<job, owner, pc>> PROVE ExecutionInv'
  BY <1>2
<1>3. ASSUME NEW v \in Versions, NEW u \in BOOLEAN, FailAttempt(v, u)
      PROVE  ExecutionInv'
  BY <1>1, <1>3 DEF FailAttempt
<1>4. ASSUME NEW c \in Clients, Request(c) PROVE ExecutionInv'
  <2>1. CASE AddArtifactRunJob(c)
    <3>1. req[c].v \in Versions => job[req[c].v] = "none"
      BY <2>1 DEF RequestInv, Launching, AddArtifactRunJob
    <3>2. QED
      BY <1>1, <2>1, <3>1 DEF AddArtifactRunJob, execVars
  <2>2. CASE ~AddArtifactRunJob(c)
    <3>1. UNCHANGED job
      BY <1>4, <2>2 DEF Request, LaunchInitialRun, ReadForRefine, WriteRefine,
                        CreateRun, LaunchFails, queueVars
    <3>2. QED
      BY <1>2, <1>4, <3>1, RequestFrame
  <2>3. QED
    BY <2>1, <2>2
<1>5. ASSUME NEW w \in Workers, NEW v \in Versions, PickUp(w, v)
      PROVE  ExecutionInv'
  <2>1. w # NoWorker
    BY RunAssumption
  <2>2. QED
    BY <1>1, <1>5, <2>1 DEF PickUp
<1>6. ASSUME NEW w \in Workers, Crash(w) PROVE ExecutionInv'
  BY <1>1, <1>6 DEF Crash, queueVars
<1>7. ASSUME NEW v \in Versions, Stalled(v) PROVE ExecutionInv'
  BY <1>1, <1>7 DEF Stalled, execVars
<1>8. ASSUME NEW v \in Versions, Attempt(v) PROVE ExecutionInv'
  <2>1. CASE RefuseAttempt(v) \/ StepFails(v) \/ CompleteFails(v)
    BY <1>3, <2>1 DEF RefuseAttempt, StepFails, CompleteFails
  <2>2. CASE JobCompleted(v)
    BY <1>1, <2>2 DEF JobCompleted
  <2>3. CASE DoStep(v)
    <3>1. After(v, pc[v]) # "idle" /\ pc[v] # "idle"
      BY <2>3 DEF DoStep, StepNames, After
    <3>2. QED
      BY <1>1, <2>3, <3>1 DEF DoStep, queueVars
  <2>4. CASE StartAttempt(v) \/ Complete(v) \/ Commit(v) \/ CommitFails(v)
             \/ AnnounceCompleted(v)
    BY <1>1, <2>4 DEF StartAttempt, Complete, Commit, CommitFails,
                      AnnounceCompleted, queueVars
  <2>5. QED
    BY <1>8, <2>1, <2>2, <2>3, <2>4 DEF Attempt
<1>9. ASSUME NEW v \in Versions, Handler(v) PROVE ExecutionInv'
  <2>1. CASE HandlerAnnounce(v)
    <3>1. job[v] = "failed"
      BY <2>1 DEF FailureInv, HandlerAnnounce, HandlerStep
    <3>2. QED
      BY <1>1, <2>1, <3>1 DEF HandlerAnnounce, queueVars
  <2>2. CASE HandlerFailVersion(v) \/ HandlerFailRun(v)
    BY <1>2, <2>2 DEF HandlerFailVersion, HandlerFailRun, queueVars
  <2>3. QED
    BY <1>9, <2>1, <2>2 DEF Handler
<1>10. CASE UpdateArtifact \/ RemoveArtifact \/ UNCHANGED vars
  BY <1>2, <1>10, UserFrame
<1>11. QED
  BY <1>4, <1>5, <1>6, <1>7, <1>8, <1>9, <1>10 DEF Next

-----------------------------------------------------------------------------
(* The failure of a run is handled and recorded only once its job has failed *)

LEMMA FailureStep == IInv /\ [Next]_vars => FailureInv'
<1> SUFFICES ASSUME TypeOK, ExecutionInv, RequestInv, FailureInv, [Next]_vars
             PROVE  FailureInv'
  BY DEF IInv
<1> DEFINE Told(v) == \E i \in DOMAIN announced[v] : announced[v][i] = "run.failed"
           Failing(v) == listener[v] # "none" \/ run[v] = "FAILED" \/ Told(v)
<1>1. /\ job \in [Versions -> JobStates]
      /\ listener \in [Versions -> {"none", "failVersion", "failRun", "announce"}]
      /\ run \in [Versions -> {"NONE", "RUNNING", "COMPLETED", "FAILED"}]
      /\ announced \in [Versions -> Seq(TerminalEvents)]
      /\ owner \in [Versions -> Workers \cup {NoWorker}]
  BY DEF TypeOK, QueueTypeOK, WorkerTypeOK, LaunchTypeOK, OutcomeTypeOK
<1>2. \A v \in Versions : Failing(v) => job[v] = "failed"
  BY DEF FailureInv
<1>3. ASSUME \A v \in Versions : Failing(v)' => Failing(v) \/ job'[v] = "failed",
             \A v \in Versions : job[v] = "failed" => job'[v] = "failed"
      PROVE  FailureInv'
  BY <1>2, <1>3 DEF FailureInv
<1>4. \A v \in Versions : pc[v] # "idle" => job[v] # "failed"
  BY DEF ExecutionInv, Executing
<1> HIDE DEF Failing
<1>5. ASSUME NEW v \in Versions, NEW u \in BOOLEAN, pc[v] # "idle",
             FailAttempt(v, u), UNCHANGED <<run, announced>>
      PROVE  FailureInv'
  <2>1. \A x \in Versions : Failing(x)' => Failing(x) \/ job'[x] = "failed"
    <3>1. listener'[v] = listener[v] \/ job'[v] = "failed"
      <4>1. attemptsMade[v] \in Nat /\ MaxAttempts \in Nat
        BY RunAssumption DEF TypeOK, QueueTypeOK
      <4>2. CASE QueueRetries(attemptsMade[v] + 1, u)
        BY <1>1, <1>5, <4>1, <4>2 DEF FailAttempt, OnFailed, QueueRetries,
                                      IsTerminalJobFailure
      <4>3. CASE ~QueueRetries(attemptsMade[v] + 1, u)
        BY <1>1, <1>5, <4>3 DEF FailAttempt
      <4>4. QED
        BY <4>2, <4>3
    <3>2. \A x \in Versions \ {v} : listener'[x] = listener[x]
      BY <1>1, <1>5 DEF FailAttempt, OnFailed
    <3>3. QED
      BY <1>5, <3>1, <3>2 DEF Failing
  <2>2. \A x \in Versions : job[x] = "failed" => job'[x] = "failed"
    BY <1>1, <1>4, <1>5 DEF FailAttempt
  <2>3. QED
    BY <1>3, <2>1, <2>2
<1>6. ASSUME NEW c \in Clients, Request(c) PROVE FailureInv'
  <2>1. \A x \in Versions : Failing(x)' => Failing(x)
    <3>1. \A x \in Versions : run'[x] = "FAILED" => run[x] = "FAILED"
      BY <1>1, <1>6 DEF Request, LaunchInitialRun, ReadForRefine, WriteRefine,
                        CreateRun, AddArtifactRunJob, LaunchFails
    <3>2. QED
      BY <1>6, <3>1, RequestFrame DEF Failing
  <2>2. \A x \in Versions : job[x] = "failed" => job'[x] = "failed"
    <3>1. CASE AddArtifactRunJob(c)
      <4>1. job[req[c].v] = "none"
        BY <3>1 DEF RequestInv, Launching, AddArtifactRunJob
      <4>2. QED
        BY <1>1, <3>1, <4>1 DEF AddArtifactRunJob
    <3>2. CASE ~AddArtifactRunJob(c)
      BY <1>6, <3>2 DEF Request, LaunchInitialRun, ReadForRefine, WriteRefine,
                        CreateRun, LaunchFails, queueVars
    <3>3. QED
      BY <3>1, <3>2
  <2>3. QED
    BY <1>3, <2>1, <2>2
<1>7. ASSUME NEW w \in Workers, NEW v \in Versions, PickUp(w, v)
      PROVE  FailureInv'
  <2>1. \A x \in Versions : Failing(x)' => Failing(x) \/ job'[x] = "failed"
    <3>1. UNCHANGED <<run, announced>>
      BY <1>7, QueueFrame
    <3>2. CASE stalls[v] > MaxStalls
      BY <1>1, <1>7, <3>1, <3>2 DEF PickUp, OnFailed, Failing
    <3>3. CASE ~(stalls[v] > MaxStalls)
      BY <1>7, <3>1, <3>3 DEF PickUp, Failing
    <3>4. QED
      BY <3>2, <3>3
  <2>2. \A x \in Versions : job[x] = "failed" => job'[x] = "failed"
    BY <1>1, <1>7 DEF PickUp
  <2>3. QED
    BY <1>3, <2>1, <2>2
<1>8. ASSUME NEW w \in Workers, Crash(w) PROVE FailureInv'
  <2>1. \A x \in Versions : Failing(x)' => Failing(x)
    BY <1>1, <1>8, QueueFrame DEF Crash, Failing
  <2>2. \A x \in Versions : job[x] = "failed" => job'[x] = "failed"
    BY <1>8 DEF Crash, queueVars
  <2>3. QED
    BY <1>3, <2>1, <2>2
<1>9. ASSUME NEW v \in Versions, Stalled(v) PROVE FailureInv'
  <2>1. \A x \in Versions : Failing(x)' => Failing(x)
    BY <1>9, QueueFrame DEF Stalled, Failing, execVars
  <2>2. \A x \in Versions : job[x] = "failed" => job'[x] = "failed"
    BY <1>1, <1>9 DEF Stalled
  <2>3. QED
    BY <1>3, <2>1, <2>2
<1>10. ASSUME NEW v \in Versions, Attempt(v) PROVE FailureInv'
  <2>1. CASE RefuseAttempt(v) \/ StepFails(v) \/ CompleteFails(v)
    BY <1>5, <2>1 DEF RefuseAttempt, StepFails, StepNames, CompleteFails
  <2>2. CASE Complete(v)
    <3>1. UNCHANGED <<job, listener, announced>>
      BY <2>2 DEF Complete, queueVars
    <3>2. \A x \in Versions : run'[x] = "FAILED" => run[x] = "FAILED"
      BY <1>1, <2>2 DEF Complete
    <3>3. QED
      BY <1>3, <3>1, <3>2 DEF Failing
  <2>3. CASE AnnounceCompleted(v)
    <3>1. UNCHANGED <<job, listener, run>>
      BY <2>3 DEF AnnounceCompleted, queueVars
    <3>2. \A x \in Versions : Told(x)' => Told(x)
      <4>1. \A x \in Versions \ {v} : announced'[x] = announced[x]
        BY <1>1, <2>3 DEF AnnounceCompleted, Announce
      <4>2. \/ announced'[v] = Append(announced[v], "run.completed")
            \/ announced'[v] = announced[v]
        BY <1>1, <2>3 DEF AnnounceCompleted, Announce
      <4>3. announced[v] \in Seq(TerminalEvents)
        BY <1>1
      <4>4. Told(v)' => Told(v)
        BY <4>2, <4>3
      <4>5. QED
        BY <4>1, <4>4
    <3>3. QED
      BY <1>3, <3>1, <3>2 DEF Failing
  <2>4. CASE JobCompleted(v)
    <3>1. UNCHANGED <<listener, run, announced>>
      BY <2>4 DEF JobCompleted
    <3>2. \A x \in Versions : job[x] = "failed" => job'[x] = "failed"
      BY <1>1, <1>4, <2>4 DEF JobCompleted
    <3>3. QED
      BY <1>3, <3>1, <3>2 DEF Failing
  <2>5. CASE StartAttempt(v) \/ DoStep(v) \/ Commit(v) \/ CommitFails(v)
    <3>1. UNCHANGED <<job, listener, run, announced>>
      BY <2>5 DEF StartAttempt, DoStep, Commit, CommitFails, queueVars
    <3>2. QED
      BY <1>3, <3>1 DEF Failing
  <2>6. QED
    BY <1>10, <2>1, <2>2, <2>3, <2>4, <2>5 DEF Attempt
<1>11. ASSUME NEW v \in Versions, Handler(v) PROVE FailureInv'
  <2>1. job[v] = "failed"
    BY <1>2, <1>11 DEF Failing, Handler, HandlerFailVersion, HandlerFailRun,
                       HandlerAnnounce, HandlerStep
  <2>2. \A x \in Versions \ {v} : /\ listener'[x] = listener[x]
                                  /\ run'[x] = run[x]
                                  /\ announced'[x] = announced[x]
    BY <1>1, <1>11 DEF Handler, HandlerFailVersion, HandlerFailRun,
                       HandlerAnnounce, HandlerStep, Announce
  <2>3. UNCHANGED job
    BY <1>11, HandlerFrame
  <2>4. QED
    BY <1>3, <2>1, <2>2, <2>3 DEF Failing
<1>12. CASE UpdateArtifact \/ RemoveArtifact \/ UNCHANGED vars
  BY <1>3, <1>12, UserFrame DEF Failing
<1>13. QED
  BY <1>6, <1>7, <1>8, <1>9, <1>10, <1>11, <1>12 DEF Next

-----------------------------------------------------------------------------
(* The requests in flight and the head of the family *)

\* Only a version that is in the family is written, and it never becomes
\* GENERATING again: what an attempt or a handler does to the statuses.
LEMMA StatusWrites ==
  ASSUME IInv, NEW v \in Versions, Attempt(v) \/ Handler(v)
  PROVE  /\ v <= currentVersion
         /\ \A x \in Versions : vstatus'[x] # vstatus[x] =>
              x = v /\ vstatus'[x] \in {"READY", "FAILED"}
<1>1. vstatus \in [Versions -> VersionStatus]
  BY DEF IInv, TypeOK, StoreTypeOK
<1>2. job[v] # "none"
  <2>1. CASE Attempt(v)
    <3>1. pc[v] # "idle"
      BY <2>1 DEF Attempt, StartAttempt, RefuseAttempt, DoStep, StepFails,
                  StepNames, Complete, CompleteFails, Commit, CommitFails,
                  AnnounceCompleted, JobCompleted
    <3>2. QED
      BY <3>1 DEF IInv, ExecutionInv, Executing
  <2>2. CASE Handler(v)
    <3>1. listener[v] # "none"
      BY <2>2 DEF Handler, HandlerFailVersion, HandlerFailRun,
                  HandlerAnnounce, HandlerStep
    <3>2. QED
      BY <3>1 DEF IInv, FailureInv
  <2>3. QED
    BY <2>1, <2>2
<1>3. v <= currentVersion
  <2>1. ~(v > currentVersion)
    BY <1>2 DEF IInv, BeyondHeadInv
  <2>2. v \in Nat /\ currentVersion \in Nat
    BY MaxVersionsAssumption DEF Versions, IInv, TypeOK, StoreTypeOK
  <2>3. QED
    BY <2>1, <2>2
<1>4. \/ UNCHANGED vstatus
      \/ vstatus' = [vstatus EXCEPT ![v] = "READY"]
      \/ vstatus' = [vstatus EXCEPT ![v] = "FAILED"]
  BY DEF Attempt, StartAttempt, RefuseAttempt, DoStep, SetVersionContent,
         StepFails, Complete, CompleteFails, Commit, CommitFails,
         AnnounceCompleted, JobCompleted, Handler, HandlerFailVersion,
         FailVersion, HandlerFailRun, HandlerAnnounce, storeVars
<1>5. QED
  BY <1>1, <1>3, <1>4

\* The two writes that add a version put it right after the head, where
\* nothing was.
LEMMA Appends ==
  ASSUME IInv, NEW c \in Clients, LaunchInitialRun(c) \/
           (WriteRefine(c) /\ AppendMatches(req[c].v))
  PROVE  /\ currentVersion + 1 \in Versions
         /\ currentVersion' = currentVersion + 1
         /\ vstatus[currentVersion + 1] = "NONE"
         /\ job[currentVersion + 1] = "none"
         /\ vstatus' = [vstatus EXCEPT ![currentVersion + 1] = "GENERATING"]
         /\ req' = [req EXCEPT ![c] = [at |-> "appended", v |-> currentVersion + 1]]
         /\ req[c].at \in {"idle", "refining"}
         /\ vstatus[currentVersion] # "GENERATING" \/ currentVersion = 0
<1>1. currentVersion \in 0..MaxVersions /\ MaxVersions \in Nat \ {0}
  BY MaxVersionsAssumption DEF IInv, TypeOK, StoreTypeOK
<1>2. currentVersion + 1 \in Versions => /\ vstatus[currentVersion + 1] = "NONE"
                                         /\ job[currentVersion + 1] = "none"
  <2>1. currentVersion + 1 > currentVersion
    BY <1>1
  <2>2. QED
    BY <2>1 DEF IInv, BeyondHeadInv
<1>3. CASE LaunchInitialRun(c)
  <2>1. currentVersion = 0 /\ currentVersion + 1 = 1 /\ 1 \in Versions
    BY <1>1, <1>3 DEF LaunchInitialRun, CreateArtifact, Versions
  <2>2. QED
    BY <1>2, <1>3, <2>1 DEF LaunchInitialRun, CreateArtifact, SetReq
<1>4. CASE WriteRefine(c) /\ AppendMatches(req[c].v)
  <2>1. req[c].v = currentVersion
    BY <1>4 DEF AppendMatches
  <2>2. req[c].at = "refining"
    BY <1>4 DEF WriteRefine
  <2>3. req[c].v < MaxVersions /\ vstatus[currentVersion] # "GENERATING"
    BY <2>1, <2>2 DEF IInv, RefineInv
  <2>4. currentVersion + 1 \in Versions
    BY <1>1, <2>1, <2>3 DEF Versions
  <2>5. QED
    BY <1>2, <1>4, <2>1, <2>2, <2>3, <2>4
       DEF WriteRefine, AppendRefineVersion, SetReq
<1>5. QED
  BY <1>3, <1>4

\* Every other request action leaves the versions alone.
LEMMA OtherRequests ==
  ASSUME NEW c \in Clients, Request(c), ~LaunchInitialRun(c),
         ~(WriteRefine(c) /\ AppendMatches(req[c].v))
  PROVE  UNCHANGED storeVars
BY DEF Request, ReadForRefine, WriteRefine, CreateRun, AddArtifactRunJob,
       LaunchFails, storeVars

LEMMA OnlyHeadStep == IInv /\ [Next]_vars => OnlyHeadGenerates'
<1> SUFFICES ASSUME IInv, [Next]_vars PROVE OnlyHeadGenerates'
  OBVIOUS
<1>1. \A v \in Versions : vstatus[v] = "GENERATING" => v = currentVersion
  BY DEF IInv, OnlyHeadGenerates
<1>2. /\ vstatus \in [Versions -> VersionStatus]
      /\ currentVersion \in Nat
      /\ 0 \notin Versions
  BY MaxVersionsAssumption DEF IInv, TypeOK, StoreTypeOK, Versions
<1>3. ASSUME UNCHANGED <<currentVersion, vstatus>> PROVE OnlyHeadGenerates'
  BY <1>1, <1>3 DEF OnlyHeadGenerates
<1>4. ASSUME NEW c \in Clients, Request(c) PROVE OnlyHeadGenerates'
  <2>1. CASE LaunchInitialRun(c) \/ (WriteRefine(c) /\ AppendMatches(req[c].v))
    BY <1>1, <1>2, <2>1, Appends DEF OnlyHeadGenerates
  <2>2. CASE ~(LaunchInitialRun(c) \/ (WriteRefine(c) /\ AppendMatches(req[c].v)))
    BY <1>3, <1>4, <2>2, OtherRequests DEF storeVars
  <2>3. QED
    BY <2>1, <2>2
<1>5. ASSUME NEW v \in Versions, Attempt(v) \/ Handler(v)
      PROVE  OnlyHeadGenerates'
  <2>1. \A x \in Versions : vstatus'[x] = "GENERATING" => vstatus[x] = "GENERATING"
    BY <1>5, StatusWrites
  <2>2. QED
    BY <1>1, <1>5, <2>1, AttemptFrame, HandlerFrame DEF OnlyHeadGenerates
<1>6. QED
  BY <1>3, <1>4, <1>5, QueueFrame, UserFrame DEF Next

LEMMA BeyondHeadStep == IInv /\ [Next]_vars => BeyondHeadInv'
<1> SUFFICES ASSUME IInv, [Next]_vars PROVE BeyondHeadInv'
  OBVIOUS
<1>1. \A v \in Versions : v > currentVersion => vstatus[v] = "NONE" /\ job[v] = "none"
  BY DEF IInv, BeyondHeadInv
<1>2. /\ vstatus \in [Versions -> VersionStatus]
      /\ job \in [Versions -> JobStates]
      /\ currentVersion \in Nat
      /\ Versions \subseteq Nat
  BY MaxVersionsAssumption DEF IInv, TypeOK, StoreTypeOK, QueueTypeOK, Versions
<1>3. ASSUME UNCHANGED <<currentVersion, vstatus>>,
             \A v \in Versions : job[v] = "none" /\ v > currentVersion => job'[v] = "none"
      PROVE  BeyondHeadInv'
  BY <1>1, <1>3 DEF BeyondHeadInv
<1>4. ASSUME NEW c \in Clients, Request(c) PROVE BeyondHeadInv'
  <2>1. CASE LaunchInitialRun(c) \/ (WriteRefine(c) /\ AppendMatches(req[c].v))
    <3>1. UNCHANGED job
      BY <2>1 DEF LaunchInitialRun, WriteRefine, queueVars
    <3>2. ASSUME NEW v \in Versions, v > currentVersion'
          PROVE  vstatus'[v] = "NONE" /\ job'[v] = "none"
      <4>1. currentVersion' = currentVersion + 1 /\
            vstatus' = [vstatus EXCEPT ![currentVersion + 1] = "GENERATING"]
        BY <2>1, Appends
      <4>2. v > currentVersion /\ v # currentVersion + 1
        BY <1>2, <3>2, <4>1
      <4>3. QED
        BY <1>1, <1>2, <3>1, <4>1, <4>2
    <3>3. QED
      BY <3>2 DEF BeyondHeadInv
  <2>2. CASE ~(LaunchInitialRun(c) \/ (WriteRefine(c) /\ AppendMatches(req[c].v)))
    <3>1. UNCHANGED <<currentVersion, vstatus>>
      BY <1>4, <2>2, OtherRequests DEF storeVars
    <3>2. CASE AddArtifactRunJob(c)
      <4>1. req[c].v \in 1..currentVersion
        BY <3>2 DEF IInv, RequestInv, AddArtifactRunJob
      <4>2. \A v \in Versions : v > currentVersion => v # req[c].v
        BY <1>2, <4>1
      <4>3. \A v \in Versions : v # req[c].v => job'[v] = job[v]
        BY <1>2, <3>2 DEF AddArtifactRunJob
      <4>4. QED
        BY <1>3, <3>1, <4>2, <4>3
    <3>3. CASE ~AddArtifactRunJob(c)
      <4>1. UNCHANGED job
        BY <1>4, <3>3 DEF Request, LaunchInitialRun, ReadForRefine,
                          WriteRefine, CreateRun, LaunchFails, queueVars
      <4>2. QED
        BY <1>3, <3>1, <4>1
    <3>4. QED
      BY <3>2, <3>3
  <2>3. QED
    BY <2>1, <2>2
<1>5. ASSUME NEW w \in Workers, NEW v \in Versions, PickUp(w, v)
      PROVE  BeyondHeadInv'
  <2>1. \A x \in Versions : job[x] = "none" => job'[x] = "none"
    BY <1>2, <1>5 DEF PickUp
  <2>2. QED
    BY <1>3, <1>5, <2>1, QueueFrame
<1>6. ASSUME NEW w \in Workers, Crash(w) PROVE BeyondHeadInv'
  BY <1>3, <1>6, QueueFrame DEF Crash, queueVars
<1>7. ASSUME NEW v \in Versions, Stalled(v) PROVE BeyondHeadInv'
  <2>1. \A x \in Versions : job[x] = "none" => job'[x] = "none"
    BY <1>2, <1>7 DEF Stalled
  <2>2. QED
    BY <1>3, <1>7, <2>1, QueueFrame
<1>8. ASSUME NEW v \in Versions, Attempt(v) \/ Handler(v)
      PROVE  BeyondHeadInv'
  <2>1. /\ v <= currentVersion
        /\ \A x \in Versions : vstatus'[x] # vstatus[x] => x = v
    BY <1>8, StatusWrites
  <2>2. \A x \in Versions : x # v => job'[x] = job[x]
    BY <1>2, <1>8 DEF Attempt, StartAttempt, RefuseAttempt, FailAttempt,
       DoStep, StepFails, Complete, CompleteFails, Commit, CommitFails,
       AnnounceCompleted, JobCompleted, Handler, HandlerFailVersion,
       HandlerFailRun, HandlerAnnounce, queueVars
  <2>3. UNCHANGED currentVersion
    BY <1>8, AttemptFrame, HandlerFrame
  <2>4. \A x \in Versions : x > currentVersion => x # v
    BY <1>2, <2>1
  <2>5. QED
    BY <1>1, <2>1, <2>2, <2>3, <2>4 DEF BeyondHeadInv
<1>9. CASE UpdateArtifact \/ RemoveArtifact \/ UNCHANGED vars
  BY <1>3, <1>9, UserFrame
<1>10. QED
  BY <1>4, <1>5, <1>6, <1>7, <1>8, <1>9 DEF Next

LEMMA RefineStep == IInv /\ [Next]_vars => RefineInv'
<1> SUFFICES ASSUME IInv, [Next]_vars PROVE RefineInv'
  OBVIOUS
<1>1. \A c \in Clients : req[c].at = "refining" =>
        /\ req[c].v < MaxVersions
        /\ currentVersion = req[c].v => vstatus[currentVersion] # "GENERATING"
  BY DEF IInv, RefineInv
<1>2. /\ vstatus \in [Versions -> VersionStatus]
      /\ req \in [Clients -> [at : {"idle", "refining", "appended", "created"},
                              v : 0..MaxVersions]]
      /\ currentVersion \in Nat
      /\ 0 \notin Versions
  BY MaxVersionsAssumption DEF IInv, TypeOK, StoreTypeOK, LaunchTypeOK, Versions
<1>3. \A c \in Clients : req[c].at # "idle" => req[c].v <= currentVersion
  BY <1>2 DEF IInv, RequestInv
<1>4. ASSUME UNCHANGED <<currentVersion, vstatus, req>> PROVE RefineInv'
  BY <1>1, <1>4 DEF RefineInv
<1>5. ASSUME NEW c \in Clients, Request(c) PROVE RefineInv'
  <2>1. CASE LaunchInitialRun(c) \/ (WriteRefine(c) /\ AppendMatches(req[c].v))
    <3>1. /\ currentVersion' = currentVersion + 1
          /\ req' = [req EXCEPT ![c] = [at |-> "appended", v |-> currentVersion + 1]]
      BY <2>1, Appends
    <3>2. ASSUME NEW d \in Clients, req'[d].at = "refining"
          PROVE  req'[d].v < MaxVersions /\ req'[d].v # currentVersion'
      <4>1. d # c /\ req'[d] = req[d]
        BY <1>2, <3>1, <3>2
      <4>2. req[d].v <= currentVersion /\ req[d].v < MaxVersions
        BY <1>1, <1>3, <3>2, <4>1
      <4>3. req[d].v \in Nat
        BY <1>2, MaxVersionsAssumption
      <4>4. QED
        BY <1>2, <3>1, <4>1, <4>2, <4>3
    <3>3. QED
      BY <3>2 DEF RefineInv
  <2>2. CASE ReadForRefine(c)
    <3>1. UNCHANGED <<currentVersion, vstatus>>
      BY <2>2 DEF ReadForRefine, storeVars
    <3>2. currentVersion < MaxVersions /\ vstatus[currentVersion] # "GENERATING"
      BY <2>2 DEF ReadForRefine, Refinable
    <3>3. req' = [req EXCEPT ![c] = [at |-> "refining", v |-> currentVersion]]
      BY <2>2 DEF ReadForRefine, SetReq
    <3>4. QED
      BY <1>1, <1>2, <3>1, <3>2, <3>3 DEF RefineInv
  <2>3. CASE /\ ~LaunchInitialRun(c) /\ ~ReadForRefine(c)
             /\ ~(WriteRefine(c) /\ AppendMatches(req[c].v))
    <3>1. UNCHANGED <<currentVersion, vstatus>>
      BY <1>5, <2>3, OtherRequests DEF storeVars
    <3>2. \A d \in Clients : req'[d].at = "refining" => req'[d] = req[d]
      BY <1>2, <1>5, <2>3 DEF Request, WriteRefine, CreateRun,
         AddArtifactRunJob, LaunchFails, SetReq
    <3>3. QED
      BY <1>1, <3>1, <3>2 DEF RefineInv
  <2>4. QED
    BY <2>1, <2>2, <2>3
<1>6. ASSUME NEW v \in Versions, Attempt(v) \/ Handler(v) PROVE RefineInv'
  <2>1. UNCHANGED <<currentVersion, req>>
    BY <1>6, AttemptFrame, HandlerFrame
  <2>2. \A x \in Versions : vstatus'[x] = "GENERATING" => vstatus[x] = "GENERATING"
    BY <1>6, StatusWrites
  <2>3. \A c \in Clients : req[c].at = "refining" /\ currentVersion = req[c].v
          => currentVersion \in Versions
    BY DEF IInv, RequestInv, TypeOK, StoreTypeOK, Versions
  <2>4. QED
    BY <1>1, <2>1, <2>2, <2>3 DEF RefineInv
<1>7. QED
  BY <1>4, <1>5, <1>6, QueueFrame, UserFrame DEF Next

LEMMA RequestStep == IInv /\ [Next]_vars => RequestInv'
<1> SUFFICES ASSUME IInv, [Next]_vars PROVE RequestInv'
  OBVIOUS
<1>1. /\ \A c \in Clients : req[c].at # "idle" => req[c].v \in 1..currentVersion
      /\ \A c \in Clients : Launching(c) => job[req[c].v] = "none"
      /\ \A c, d \in Clients :
           Launching(c) /\ Launching(d) /\ req[c].v = req[d].v => c = d
  BY DEF IInv, RequestInv
<1>2. /\ job \in [Versions -> JobStates]
      /\ req \in [Clients -> [at : {"idle", "refining", "appended", "created"},
                              v : 0..MaxVersions]]
      /\ currentVersion \in Nat
  BY MaxVersionsAssumption DEF IInv, TypeOK, StoreTypeOK, LaunchTypeOK, QueueTypeOK
<1>3. ASSUME UNCHANGED <<currentVersion, req>>,
             \A v \in Versions : job[v] = "none" => job'[v] = "none"
      PROVE  RequestInv'
  <2>1. \A c \in Clients : req[c].at # "idle" => req[c].v \in Versions
    <3>1. currentVersion \in 0..MaxVersions /\ MaxVersions \in Nat
      BY MaxVersionsAssumption DEF IInv, TypeOK, StoreTypeOK
    <3>2. 1..currentVersion \subseteq Versions
      BY <3>1 DEF Versions
    <3>3. QED
      BY <1>1, <3>2
  <2>2. \A c \in Clients : Launching(c)' <=> Launching(c)
    BY <1>3 DEF Launching
  <2>3. \A c \in Clients : Launching(c) => req[c].at # "idle"
    BY DEF Launching
  <2>4. \A c \in Clients : Launching(c)' => job'[req'[c].v] = "none"
    BY <1>1, <1>3, <2>1, <2>2, <2>3
  <2>5. \A c, d \in Clients :
          Launching(c)' /\ Launching(d)' /\ req'[c].v = req'[d].v => c = d
    BY <1>1, <1>3, <2>2
  <2>6. \A c \in Clients : req'[c].at # "idle" => req'[c].v \in 1..currentVersion'
    BY <1>1, <1>3
  <2>7. QED
    BY <2>4, <2>5, <2>6 DEF RequestInv
<1>4. ASSUME NEW c \in Clients, Request(c) PROVE RequestInv'
  <2>1. CASE LaunchInitialRun(c) \/ (WriteRefine(c) /\ AppendMatches(req[c].v))
    <3>1. /\ currentVersion' = currentVersion + 1
          /\ job[currentVersion + 1] = "none"
          /\ req' = [req EXCEPT ![c] = [at |-> "appended", v |-> currentVersion + 1]]
      BY <2>1, Appends
    <3>2. UNCHANGED job
      BY <2>1 DEF LaunchInitialRun, WriteRefine, queueVars
    <3>3. req'[c].at = "appended" /\ req'[c].v = currentVersion + 1
      BY <1>2, <3>1
    <3>4. \A d \in Clients \ {c} : req'[d] = req[d]
      BY <1>2, <3>1
    <3>5. \A d \in Clients : req'[d].at # "idle" => req'[d].v \in 1..currentVersion'
      <4>1. \A d \in Clients : req[d].at # "idle" => req[d].v \in 1..(currentVersion + 1)
        BY <1>1, <1>2
      <4>2. currentVersion + 1 \in 1..(currentVersion + 1)
        BY <1>2
      <4>3. QED
        BY <3>1, <3>3, <3>4, <4>1, <4>2
    <3>6. \A d \in Clients : Launching(d)' => job'[req'[d].v] = "none"
      BY <1>1, <3>1, <3>2, <3>3, <3>4 DEF Launching
    <3>7. \A d \in Clients \ {c} : Launching(d)' => req'[d].v # req'[c].v
      <4>1. \A d \in Clients : Launching(d) => req[d].v # currentVersion + 1
        BY <1>1, <1>2 DEF Launching
      <4>2. QED
        BY <3>3, <3>4, <4>1 DEF Launching
    <3>8. \A d, e \in Clients :
            Launching(d)' /\ Launching(e)' /\ req'[d].v = req'[e].v => d = e
      BY <1>1, <3>4, <3>7 DEF Launching
    <3>9. QED
      BY <3>5, <3>6, <3>8 DEF RequestInv
  <2>2. CASE ReadForRefine(c)
    <3>1. UNCHANGED <<currentVersion, job>> /\ currentVersion \in 1..currentVersion
      BY <1>2, <2>2 DEF ReadForRefine, Refinable, Live, storeVars, queueVars
    <3>2. req' = [req EXCEPT ![c] = [at |-> "refining", v |-> currentVersion]]
      BY <2>2 DEF ReadForRefine, SetReq
    <3>3. QED
      BY <1>1, <1>2, <3>1, <3>2 DEF RequestInv, Launching
  <2>3. CASE CreateRun(c)
    <3>1. UNCHANGED <<currentVersion, job>>
      BY <2>3 DEF CreateRun, storeVars, queueVars
    <3>2. req' = [req EXCEPT ![c] = [at |-> "created", v |-> req[c].v]]
          /\ req[c].at = "appended"
      BY <2>3 DEF CreateRun, SetReq
    <3>3. \A d \in Clients : /\ req'[d].v = req[d].v
                             /\ Launching(d)' <=> Launching(d)
                             /\ req'[d].at = "idle" <=> req[d].at = "idle"
      BY <1>2, <3>2 DEF Launching
    <3>4. QED
      BY <1>1, <3>1, <3>3 DEF RequestInv
  <2>4. CASE \/ AddArtifactRunJob(c) \/ LaunchFails(c)
             \/ WriteRefine(c) /\ ~AppendMatches(req[c].v)
    <3>1. UNCHANGED currentVersion
      BY <2>4 DEF AddArtifactRunJob, LaunchFails, WriteRefine, storeVars
    <3>2. req' = [req EXCEPT ![c] = [at |-> "idle", v |-> 0]]
      BY <2>4 DEF AddArtifactRunJob, LaunchFails, WriteRefine, SetReq
    <3>3. \A d \in Clients : Launching(d)' \/ req'[d].at # "idle" =>
            d # c /\ req'[d] = req[d] /\ (Launching(d)' => Launching(d))
      BY <1>2, <3>2 DEF Launching
    <3>4. \A d \in Clients \ {c} : Launching(d) => job'[req[d].v] = "none"
      <4>1. CASE AddArtifactRunJob(c)
        <5>1. Launching(c)
          BY <4>1 DEF AddArtifactRunJob, Launching
        <5>2. \A d \in Clients \ {c} : Launching(d) => req[d].v # req[c].v
          BY <1>1, <5>1
        <5>3. \A d \in Clients \ {c} :
                Launching(d) => job'[req[d].v] = job[req[d].v]
          BY <1>2, <4>1, <5>2 DEF AddArtifactRunJob
        <5>4. QED
          BY <1>1, <5>3
      <4>2. CASE ~AddArtifactRunJob(c)
        BY <1>1, <2>4, <4>2 DEF LaunchFails, WriteRefine, queueVars
      <4>3. QED
        BY <4>1, <4>2
    <3>5. QED
      BY <1>1, <3>1, <3>3, <3>4 DEF RequestInv
  <2>5. QED
    BY <1>4, <2>1, <2>2, <2>3, <2>4 DEF Request
<1>5. ASSUME NEW w \in Workers, NEW v \in Versions, PickUp(w, v)
      PROVE  RequestInv'
  BY <1>2, <1>3, <1>5, QueueFrame DEF PickUp
<1>6. ASSUME NEW w \in Workers, Crash(w) PROVE RequestInv'
  BY <1>3, <1>6, QueueFrame DEF Crash, queueVars
<1>7. ASSUME NEW v \in Versions, Stalled(v) PROVE RequestInv'
  BY <1>2, <1>3, <1>7, QueueFrame DEF Stalled
<1>8. ASSUME NEW v \in Versions, Attempt(v) PROVE RequestInv'
  <2>1. job[v] = "active"
    <3>1. pc[v] # "idle"
      BY <1>8 DEF Attempt, StartAttempt, RefuseAttempt, DoStep, StepFails,
                  StepNames, Complete, CompleteFails, Commit, CommitFails,
                  AnnounceCompleted, JobCompleted
    <3>2. QED
      BY <3>1 DEF IInv, ExecutionInv, Executing
  <2>2. \A x \in Versions : x # v => job'[x] = job[x]
    BY <1>2, <1>8 DEF Attempt, StartAttempt, RefuseAttempt, FailAttempt,
       DoStep, StepFails, Complete, CompleteFails, Commit, CommitFails,
       AnnounceCompleted, JobCompleted, queueVars
  <2>3. QED
    BY <1>3, <1>8, <2>1, <2>2, AttemptFrame
<1>9. ASSUME NEW v \in Versions, Handler(v) PROVE RequestInv'
  BY <1>3, <1>9, HandlerFrame
<1>10. CASE UpdateArtifact \/ RemoveArtifact \/ UNCHANGED vars
  BY <1>3, <1>10, UserFrame
<1>11. QED
  BY <1>4, <1>5, <1>6, <1>7, <1>8, <1>9, <1>10 DEF Next

-----------------------------------------------------------------------------
(* Debits *)

LEMMA DebitStep == IInv /\ [Next]_vars => DebitInv'
<1> SUFFICES ASSUME TypeOK, ExecutionInv, RequestInv, FailureInv, DebitInv,
                    [Next]_vars
             PROVE  DebitInv'
  BY DEF IInv
<1>1. /\ job \in [Versions -> JobStates]
      /\ owner \in [Versions -> Workers \cup {NoWorker}]
      /\ pc \in [Versions -> Places]
      /\ stalls \in [Versions -> Nat]
      /\ charged \in [Versions -> Seq(Nat)]
      /\ used \in [Versions -> Nat]
  BY DEF TypeOK, QueueTypeOK, WorkerTypeOK, OutcomeTypeOK
<1>2. \A v \in Versions :
        /\ Len(charged[v]) \in Nat
        /\ Len(charged[v]) <= stalls[v] + 1
        /\ ~MayHaveDebited(v) => Len(charged[v]) <= stalls[v]
  BY <1>1, LenProperties DEF DebitInv
\* A step that settles no debit and forgets none.
<1>3. ASSUME UNCHANGED <<charged, stalls>>,
             \A v \in Versions : MayHaveDebited(v) => MayHaveDebited(v)'
      PROVE  DebitInv'
  BY <1>1, <1>2, <1>3 DEF DebitInv
<1>4. \A v \in Versions : pc[v] # "idle" => job[v] = "active" /\ owner[v] # NoWorker
  BY DEF ExecutionInv, Executing
<1>5. ASSUME NEW v \in Versions, NEW u \in BOOLEAN, FailAttempt(v, u),
             pc[v] \in StepNames \cup {"start", "complete"}, UNCHANGED charged
      PROVE  DebitInv'
  <2>1. ~MayHaveDebited(v)
    BY <1>4, <1>5 DEF MayHaveDebited, StepNames
  <2>2. \A x \in Versions : x # v => (MayHaveDebited(x)' <=> MayHaveDebited(x))
    BY <1>1, <1>5 DEF FailAttempt, MayHaveDebited
  <2>3. UNCHANGED stalls
    BY <1>5 DEF FailAttempt
  <2>4. QED
    BY <1>3, <1>5, <2>1, <2>2, <2>3
<1>6. ASSUME NEW c \in Clients, Request(c) PROVE DebitInv'
  <2>1. \A x \in Versions : MayHaveDebited(x) => MayHaveDebited(x)'
    <3>1. CASE AddArtifactRunJob(c)
      <4>1. job[req[c].v] = "none"
        BY <3>1 DEF RequestInv, Launching, AddArtifactRunJob
      <4>2. QED
        BY <1>1, <3>1, <4>1 DEF AddArtifactRunJob, MayHaveDebited, execVars
    <3>2. CASE ~AddArtifactRunJob(c)
      <4>1. UNCHANGED job
        BY <1>6, <3>2 DEF Request, LaunchInitialRun, ReadForRefine,
                          WriteRefine, CreateRun, LaunchFails, queueVars
      <4>2. QED
        BY <1>6, <4>1, RequestFrame DEF MayHaveDebited
    <3>3. QED
      BY <3>1, <3>2
  <2>2. QED
    BY <1>3, <1>6, <2>1, RequestFrame
<1>7. ASSUME NEW w \in Workers, NEW v \in Versions, PickUp(w, v) PROVE DebitInv'
  <2>1. job[v] = "waiting" /\ pc[v] = "idle"
    BY <1>4, <1>7 DEF PickUp
  <2>2. \A x \in Versions : x # v => (MayHaveDebited(x)' <=> MayHaveDebited(x))
    BY <1>1, <1>7 DEF PickUp, MayHaveDebited
  <2>3. UNCHANGED <<charged, stalls>>
    BY <1>7 DEF PickUp, moneyVars
  <2>4. ~MayHaveDebited(v)
    BY <2>1 DEF MayHaveDebited
  <2>5. QED
    BY <1>3, <2>2, <2>3, <2>4
<1>8. ASSUME NEW w \in Workers, Crash(w) PROVE DebitInv'
  <2>1. UNCHANGED <<job, charged, stalls>>
    BY <1>8 DEF Crash, queueVars, moneyVars
  <2>2. ASSUME NEW x \in Versions, MayHaveDebited(x) PROVE MayHaveDebited(x)'
    <3>1. CASE owner[x] = w
      BY <1>1, <1>4, <1>8, <2>1, <2>2, <3>1 DEF Crash, MayHaveDebited
    <3>2. CASE owner[x] # w
      BY <1>1, <1>8, <2>1, <2>2, <3>2 DEF Crash, MayHaveDebited
    <3>3. QED
      BY <3>1, <3>2
  <2>3. QED
    BY <1>3, <2>1, <2>2
<1>9. ASSUME NEW v \in Versions, Stalled(v) PROVE DebitInv'
  <2>1. UNCHANGED <<charged, owner, pc>>
    BY <1>9 DEF Stalled, moneyVars, execVars
  <2>2. stalls'[v] = stalls[v] + 1 /\ \A x \in Versions : x # v => stalls'[x] = stalls[x]
    BY <1>1, <1>9 DEF Stalled
  <2>3. \A x \in Versions : x # v => (MayHaveDebited(x)' <=> MayHaveDebited(x))
    BY <1>1, <1>9, <2>1 DEF Stalled, MayHaveDebited
  <2>4. ASSUME NEW x \in Versions
        PROVE  Len(charged'[x]) <= stalls'[x] + (IF MayHaveDebited(x)' THEN 1 ELSE 0)
    <3>1. /\ stalls[x] \in Nat
          /\ Len(charged[x]) \in Nat
          /\ Len(charged[x]) <= stalls[x] + 1
      BY <1>1, <1>2
    <3>2. CASE x = v
      BY <2>1, <2>2, <3>1, <3>2
    <3>3. CASE x # v
      BY <2>1, <2>2, <2>3, <3>3 DEF DebitInv
    <3>4. QED
      BY <3>2, <3>3
  <2>5. QED
    BY <2>4 DEF DebitInv
<1>10. ASSUME NEW v \in Versions, Attempt(v) PROVE DebitInv'
  <2>1. CASE RefuseAttempt(v) \/ StepFails(v) \/ CompleteFails(v)
    BY <1>5, <2>1 DEF RefuseAttempt, StepFails, CompleteFails, moneyVars
  <2>2. CASE StartAttempt(v) \/ DoStep(v) \/ Complete(v)
    <3>1. ~MayHaveDebited(v)
      BY <1>4, <2>2 DEF StartAttempt, DoStep, Complete, MayHaveDebited, StepNames
    <3>2. \A x \in Versions : x # v => (MayHaveDebited(x)' <=> MayHaveDebited(x))
      BY <1>1, <2>2 DEF StartAttempt, DoStep, Complete, MayHaveDebited, queueVars
    <3>3. UNCHANGED <<charged, stalls>>
      BY <2>2 DEF StartAttempt, DoStep, Complete, moneyVars, queueVars
    <3>4. QED
      BY <1>3, <3>1, <3>2, <3>3
  <2>3. CASE Commit(v)
    <3>1. pc' = [pc EXCEPT ![v] = "announce"] /\ UNCHANGED <<job, owner, stalls>>
      BY <2>3 DEF Commit, queueVars
    <3>2. ~MayHaveDebited(v) /\ MayHaveDebited(v)'
      BY <1>1, <1>4, <2>3, <3>1 DEF Commit, MayHaveDebited
    <3>3. \A x \in Versions : x # v => (MayHaveDebited(x)' <=> MayHaveDebited(x))
      BY <1>1, <3>1 DEF MayHaveDebited
    <3>4. \A x \in Versions : x # v => charged'[x] = charged[x]
      BY <1>1, <2>3 DEF Commit, moneyVars
    <3>5. /\ Len(charged[v]) \in Nat
          /\ stalls[v] \in Nat
          /\ Len(charged[v]) <= stalls[v]
      BY <1>1, <1>2, <3>2
    <3>6. ASSUME NEW x \in Versions
          PROVE  Len(charged'[x]) <= stalls'[x] + (IF MayHaveDebited(x)' THEN 1 ELSE 0)
      <4>1. CASE x = v
        <5>1. Len(charged[v]) + 1 <= stalls[v] + 1
          BY <3>5
        <5>2. CASE used[v] > 0
          <6>1. charged'[v] = Append(charged[v], used[v])
            BY <1>1, <2>3, <5>2 DEF Commit
          <6>2. Len(charged'[v]) = Len(charged[v]) + 1
            BY <1>1, <6>1, AppendProperties
          <6>3. QED
            BY <3>1, <3>2, <4>1, <5>1, <6>2
        <5>3. CASE ~(used[v] > 0)
          <6>1. charged'[v] = charged[v]
            BY <2>3, <5>3 DEF Commit, moneyVars
          <6>2. QED
            BY <3>1, <3>2, <3>5, <4>1, <6>1
        <5>4. QED
          BY <5>2, <5>3
      <4>2. CASE x # v
        BY <3>1, <3>3, <3>4, <4>2 DEF DebitInv
      <4>3. QED
        BY <4>1, <4>2
    <3>7. QED
      BY <3>6 DEF DebitInv
  <2>4. CASE CommitFails(v) \/ AnnounceCompleted(v) \/ JobCompleted(v)
    <3>1. MayHaveDebited(v)'
      BY <1>1, <2>4 DEF CommitFails, AnnounceCompleted, JobCompleted, MayHaveDebited
    <3>2. \A x \in Versions : x # v => (MayHaveDebited(x)' <=> MayHaveDebited(x))
      BY <1>1, <2>4 DEF CommitFails, AnnounceCompleted, JobCompleted,
                        MayHaveDebited, queueVars
    <3>3. UNCHANGED <<charged, stalls>>
      BY <2>4 DEF CommitFails, AnnounceCompleted, JobCompleted, moneyVars, queueVars
    <3>4. QED
      BY <1>3, <3>1, <3>2, <3>3
  <2>5. QED
    BY <1>10, <2>1, <2>2, <2>3, <2>4 DEF Attempt
<1>11. ASSUME NEW v \in Versions, Handler(v) PROVE DebitInv'
  <2>1. job[v] = "failed"
    BY <1>11 DEF FailureInv, Handler, HandlerFailVersion, HandlerFailRun,
                 HandlerAnnounce, HandlerStep
  <2>2. \A x \in Versions : x # v => owner'[x] = owner[x]
    BY <1>1, <1>11 DEF Handler, HandlerFailVersion, HandlerFailRun, HandlerAnnounce
  <2>3. UNCHANGED <<job, pc, charged, stalls>>
    BY <1>11, HandlerFrame
  <2>4. \A x \in Versions : MayHaveDebited(x)' <=> MayHaveDebited(x)
    BY <2>1, <2>2, <2>3 DEF MayHaveDebited
  <2>5. QED
    BY <1>3, <2>3, <2>4
<1>12. CASE UpdateArtifact \/ RemoveArtifact \/ UNCHANGED vars
  BY <1>3, <1>12, UserFrame DEF MayHaveDebited
<1>13. QED
  BY <1>6, <1>7, <1>8, <1>9, <1>10, <1>11, <1>12 DEF Next

-----------------------------------------------------------------------------
(* The theorems *)

LEMMA Inductive == IInv /\ [Next]_vars => IInv'
BY TypeStep, ExecutionStep, RequestStep, RefineStep, BeyondHeadStep,
   OnlyHeadStep, FailureStep, DebitStep DEF IInv

\* The strengthening that carries all the others holds in every reachable
\* state of the run, its queue, its workers and its requests.
THEOREM Invariance == Spec => []IInv
BY InitInv, Inductive, PTL DEF Spec

\* Every variable keeps its type.
THEOREM TypeCorrect == Spec => []TypeOK
<1>1. IInv => TypeOK
  BY DEF IInv
<1>2. QED
  BY <1>1, Invariance, PTL

\* At most the head of a family is GENERATING, however requests and runs
\* interleave.
THEOREM HeadGenerates == Spec => []OnlyHeadGenerates
<1>1. IInv => OnlyHeadGenerates
  BY DEF IInv
<1>2. QED
  BY <1>1, Invariance, PTL

\* A failure that is being handled, recorded or announced belongs to a job that
\* no worker executes and none will execute again.
THEOREM FailuresAreFinal == Spec => []FailureIsFinal
<1>1. IInv => FailureIsFinal
  BY DEF IInv, FailureInv, ExecutionInv, Executing, FailureIsFinal
<1>2. QED
  BY <1>1, Invariance, PTL

\* A run is debited once for each time its job was handed out and not lost.
THEOREM OneDebitPerHandout == Spec => []DebitedOncePerHandout
<1>1. IInv => DebitedOncePerHandout
  <2> SUFFICES ASSUME IInv, NEW v \in Versions
               PROVE  Len(charged[v]) <= 1 + stalls[v]
    BY DEF DebitedOncePerHandout
  <2>1. stalls[v] \in Nat /\ charged[v] \in Seq(Nat)
    BY DEF IInv, TypeOK, QueueTypeOK, OutcomeTypeOK
  <2>2. Len(charged[v]) \in Nat
    BY <2>1, LenProperties
  <2>3. QED
    BY <2>1, <2>2 DEF IInv, DebitInv
<1>2. QED
  BY <1>1, Invariance, PTL

\* A failed run whose job was never lost was never debited.
THEOREM FailuresAreFree == Spec => []FailedRunsAreFree
<1>1. IInv => FailedRunsAreFree
  <2> SUFFICES ASSUME IInv, NEW v \in Versions, run[v] = "FAILED", stalls[v] = 0
               PROVE  charged[v] = <<>>
    BY DEF FailedRunsAreFree
  <2>1. job[v] = "failed"
    BY DEF IInv, FailureInv
  <2>2. ~MayHaveDebited(v)
    BY <2>1 DEF IInv, ExecutionInv, Executing, MayHaveDebited
  <2>3. charged[v] \in Seq(Nat)
    BY DEF IInv, TypeOK, OutcomeTypeOK
  <2>4. Len(charged[v]) <= 0
    BY <2>2 DEF IInv, DebitInv
  <2>5. Len(charged[v]) = 0
    BY <2>3, <2>4, LenProperties
  <2>6. QED
    BY <2>3, <2>5, EmptySeq
<1>2. QED
  BY <1>1, Invariance, PTL

\* A settled version never goes back to GENERATING: no write appends a version
\* that exists, and a retry never starts its version over.
THEOREM AppendedOnce == Spec => VersionAppendedOnce
<1> DEFINE Once == \A v \in Versions :
             vstatus[v] \in {"READY", "FAILED"} => vstatus'[v] # "GENERATING"
<1>1. IInv /\ [Next]_vars => Once
  <2> SUFFICES ASSUME IInv, [Next]_vars PROVE Once
    OBVIOUS
  <2>1. vstatus \in [Versions -> VersionStatus]
    BY DEF IInv, TypeOK, StoreTypeOK
  <2>2. ASSUME NEW c \in Clients, Request(c) PROVE Once
    <3>1. CASE LaunchInitialRun(c) \/ (WriteRefine(c) /\ AppendMatches(req[c].v))
      BY <2>1, <3>1, Appends
    <3>2. CASE ~(LaunchInitialRun(c) \/ (WriteRefine(c) /\ AppendMatches(req[c].v)))
      BY <2>2, <3>2, OtherRequests DEF storeVars
    <3>3. QED
      BY <3>1, <3>2
  <2>3. ASSUME NEW v \in Versions, Attempt(v) \/ Handler(v) PROVE Once
    BY <2>3, StatusWrites
  <2>4. QED
    BY <2>2, <2>3, QueueFrame, UserFrame DEF Next
<1>2. QED
  BY <1>1, Invariance, PTL DEF Spec, VersionAppendedOnce
-----------------------------------------------------------------------------
(* What is kept and what is told: RunContract, and the versions that have     *)
(* settled                                                                  *)

\* Where an attempt stands before and after it has written its record.
Working  == StepNames \cup {"start", "complete"}
Recorded == {"commit", "announce", "return"}

\* Only a crash leaves an active job without a worker, and only such a job stalls.
LostInv ==
  crashes = 0 => \A v \in Versions : /\ stalls[v] = 0
                                     /\ job[v] = "active" => owner[v] # NoWorker

\* A request between its append and its enqueue has a version nobody has touched.
LaunchInv ==
  /\ \A v \in Versions : v > currentVersion => run[v] = "NONE"
  /\ \A c \in Clients : Launching(c) =>
       /\ run[req[c].v] = IF req[c].at = "appended" THEN "NONE" ELSE "RUNNING"
       /\ vstatus[req[c].v] = "GENERATING" /\ vcontent[req[c].v] = "empty"
  /\ \A v \in Versions : vstatus[v] = "NONE" => vcontent[v] = "empty"

\* The record says how far the job has come.
RecordInv ==
  crashes = 0 => \A v \in Versions :
    /\ job[v] = "waiting" \/ pc[v] \in Working => run[v] = "RUNNING"
    /\ job[v] = "completed" \/ pc[v] \in Recorded => run[v] = "COMPLETED"

\* An attempt that is past PERSIST_VERSION has left content, which stays.
FillInv ==
  \A v \in Versions :
    pc[v] \in Recorded \cup {"complete"} \/ vstatus[v] = "READY" => vcontent[v] # "empty"

\* Nothing is told before its time, and nothing is told twice.
TellInv ==
  crashes = 0 => \A v \in Versions :
    announced[v] # <<>> => \/ pc[v] = "return" \/ job[v] = "completed"
                           \/ job[v] = "failed" /\ listener[v] = "none"

\* Without lost writes, what is still to be filled or failed was never settled.
UnsettledInv ==
  faults = 0 /\ crashes = 0 => \A v \in Versions :
    job[v] = "waiting" \/ pc[v] \in StepNames \cup {"start"} \/ listener[v] = "failVersion"
      => vstatus[v] = "GENERATING" /\ vcontent[v] = "empty"

ContractInv == LostInv /\ LaunchInv /\ RecordInv /\ FillInv /\ TellInv /\ UnsettledInv

-----------------------------------------------------------------------------
(* What holds at first *)

LEMMA ContractInit == Init => ContractInv
BY DEF Init, StoreInit, ContractInv, LostInv, LaunchInv, RecordInv, FillInv, TellInv,
       UnsettledInv, Launching, NoRequest, Working, Recorded, StepNames

-----------------------------------------------------------------------------
(* Each part is kept *)

LEMMA LostStep == IInv /\ LostInv /\ [Next]_vars => LostInv'
<1> SUFFICES ASSUME IInv, LostInv, [Next]_vars, crashes' = 0
             PROVE  \A v \in Versions : /\ stalls'[v] = 0
                                        /\ job'[v] = "active" => owner'[v] # NoWorker
  BY DEF LostInv
<1> USE DEF LostInv
<1>0. /\ job \in [Versions -> JobStates] /\ stalls \in [Versions -> Nat]
      /\ owner \in [Versions -> Workers \cup {NoWorker}] /\ crashes \in Nat
      /\ pc \in [Versions -> Places]
  BY DEF IInv, TypeOK, QueueTypeOK, WorkerTypeOK, BoundTypeOK
<1>1. ASSUME NEW c \in Clients, Request(c) PROVE LostInv'
  BY <1>0, <1>1 DEF IInv, RequestInv, Launching, Request, LaunchInitialRun, ReadForRefine, WriteRefine, CreateRun,
     AddArtifactRunJob, LaunchFails, queueVars, execVars, boundVars
<1>2. ASSUME NEW w \in Workers, NEW u \in Versions, PickUp(w, u) PROVE LostInv'
  BY <1>0, <1>2, RunAssumption DEF PickUp, boundVars
<1>3. ASSUME NEW w \in Workers, Crash(w) PROVE LostInv'
  BY <1>0, <1>3 DEF Crash
<1>4. ASSUME NEW v \in Versions, Stalled(v) PROVE LostInv'
  BY <1>0, <1>4 DEF Stalled, boundVars
<1>5. ASSUME NEW v \in Versions, Attempt(v) PROVE LostInv'
  BY <1>0, <1>5 DEF Attempt, StartAttempt, RefuseAttempt, DoStep, StepFails, Complete,
     CompleteFails, Commit, CommitFails, AnnounceCompleted, JobCompleted, FailAttempt, queueVars,
     boundVars
<1>6. ASSUME NEW v \in Versions, Handler(v) PROVE LostInv'
  BY <1>0, <1>6 DEF Handler, HandlerFailVersion, HandlerFailRun, HandlerAnnounce, HandlerStep,
     queueVars, IInv, FailureInv
<1>7. CASE UpdateArtifact \/ RemoveArtifact \/ UNCHANGED vars
  BY <1>7 DEF UpdateArtifact, RemoveArtifact, vars, queueVars, execVars, boundVars
<1> QED
  BY <1>1, <1>2, <1>3, <1>4, <1>5, <1>6, <1>7 DEF Next

LEMMA LaunchStep == IInv /\ LaunchInv /\ [Next]_vars => LaunchInv'
<1> SUFFICES ASSUME IInv, LaunchInv, [Next]_vars PROVE LaunchInv'
  OBVIOUS
<1>0. /\ run \in [Versions -> {"NONE", "RUNNING", "COMPLETED", "FAILED"}]
      /\ req \in [Clients -> [at : {"idle", "refining", "appended", "created"}, v : 0..MaxVersions]]
      /\ vstatus \in [Versions -> VersionStatus] /\ vcontent \in [Versions -> Contents]
      /\ currentVersion \in 0..MaxVersions
  BY DEF IInv, TypeOK, StoreTypeOK, LaunchTypeOK
<1>1. ASSUME NEW c \in Clients, Request(c) PROVE LaunchInv'
  <2> USE <1>0 DEF LaunchInv, Launching, SetReq, Versions
  <2>1. CASE LaunchInitialRun(c)
    BY <2>1, MaxVersionsAssumption
    DEF LaunchInitialRun, CreateArtifact, IInv, BeyondHeadInv, RequestInv
  <2>2. CASE ReadForRefine(c)
    BY <2>2 DEF ReadForRefine, storeVars
  <2>3. CASE WriteRefine(c)
    <3>1. CASE AppendMatches(req[c].v)
      <4>1. req[c].v = currentVersion /\ req[c].v + 1 \in Versions
        BY <2>3, <3>1, RefinedVersion DEF WriteRefine, AppendMatches, IInv
      <4>2. /\ currentVersion' = req[c].v + 1
            /\ vstatus' = [vstatus EXCEPT ![req[c].v + 1] = "GENERATING"]
            /\ req' = [req EXCEPT ![c] = [at |-> "appended", v |-> req[c].v + 1]]
            /\ vcontent' = vcontent /\ run' = run
        BY <2>3, <3>1 DEF WriteRefine, AppendRefineVersion
      <4>3. vstatus[req[c].v + 1] = "NONE" /\ run[req[c].v + 1] = "NONE"
        BY <4>1 DEF IInv, BeyondHeadInv
      <4>4. \A d \in Clients : Launching(d) => req[d].v # req[c].v + 1
        BY <4>1 DEF IInv, RequestInv
      <4> QED
        BY <4>1, <4>2, <4>3, <4>4
    <3>2. CASE ~AppendMatches(req[c].v)
      BY <2>3, <3>2, SMTT(30) DEF WriteRefine, storeVars
    <3> QED
      BY <3>1, <3>2
  <2>4. CASE CreateRun(c)
    BY <2>4 DEF CreateRun, storeVars, IInv, RequestInv
  <2>5. CASE AddArtifactRunJob(c) \/ LaunchFails(c)
    <3>1. req' = [req EXCEPT ![c] = [at |-> "idle", v |-> 0]]
      BY <2>5 DEF AddArtifactRunJob, LaunchFails
    <3>2. UNCHANGED <<currentVersion, vstatus, vcontent, run>>
      BY <2>5 DEF AddArtifactRunJob, LaunchFails, storeVars
    <3> QED
      BY <3>1, <3>2
  <2> QED
    BY <1>1, <2>1, <2>2, <2>3, <2>4, <2>5 DEF Request
<1>2. ASSUME NEW v \in Versions, Attempt(v) \/ Handler(v) PROVE LaunchInv'
  <2>1. job[v] # "none"
    BY <1>2, RunAssumption DEF IInv, ExecutionInv, Executing, FailureInv, Attempt, StartAttempt,
       RefuseAttempt, DoStep, StepFails, Complete, CompleteFails, Commit, CommitFails,
       AnnounceCompleted, JobCompleted, StepNames, Handler, HandlerFailVersion, HandlerFailRun,
       HandlerAnnounce, HandlerStep
  <2>2. UNCHANGED <<currentVersion, req>>
    BY <1>2, AttemptFrame, HandlerFrame
  <2>3. /\ \A u \in Versions : u # v => /\ run'[u] = run[u] /\ vstatus'[u] = vstatus[u]
                                        /\ vcontent'[u] = vcontent[u]
        /\ vstatus'[v] = "NONE" => vstatus[v] = "NONE" /\ vcontent'[v] = vcontent[v]
        /\ v <= currentVersion
    <3>1. v <= currentVersion
      BY <1>0, <2>1 DEF IInv, BeyondHeadInv, Versions
    <3>2. run' = run \/ \E r \in {"FAILED", "COMPLETED"} : run' = [run EXCEPT ![v] = r]
      BY <1>2 DEF Attempt, StartAttempt,
       RefuseAttempt, DoStep, StepFails, Complete, CompleteFails, Commit, CommitFails,
       AnnounceCompleted, JobCompleted, Handler, HandlerFailVersion, HandlerFailRun,
       HandlerAnnounce
    <3>3. \/ UNCHANGED <<vstatus, vcontent>>
          \/ \E r \in {"FAILED", "READY"}, t \in Contents :
                /\ vstatus' = [vstatus EXCEPT ![v] = r]
                /\ vcontent' = [vcontent EXCEPT ![v] = t]
      <4>1. SetVersionContent(v) \/ FailVersion(v) \/ UNCHANGED <<vstatus, vcontent>>
        BY <1>0, <1>2 DEF Attempt, StartAttempt,
       RefuseAttempt, DoStep, StepFails, Complete, CompleteFails, Commit, CommitFails,
       AnnounceCompleted, JobCompleted, Handler, HandlerFailVersion, HandlerFailRun,
       HandlerAnnounce, storeVars
      <4>2. CASE SetVersionContent(v)
        <5>1. "READY" \in {"FAILED", "READY"} /\ "generated" \in Contents
          BY DEF Contents
        <5> QED
          BY <4>2, <5>1 DEF SetVersionContent
      <4>3. CASE FailVersion(v)
        <5>1. vcontent' = [vcontent EXCEPT ![v] = vcontent[v]] /\ vcontent[v] \in Contents
          BY <1>0, <4>3 DEF FailVersion, IInv, TypeOK, StoreTypeOK
        <5> QED
          BY <4>3, <5>1 DEF FailVersion
      <4> QED
        BY <4>1, <4>2, <4>3
    <3> QED
      BY <1>0, <3>1, <3>2, <3>3
  <2>4. ASSUME NEW d \in Clients, Launching(d) PROVE req[d].v \in Versions \ {v}
    BY <1>0, <2>1, <2>4 DEF IInv, RequestInv, Launching, Versions
  <2>5. \A u \in Versions : u > currentVersion => u # v
    BY <1>0, <2>3 DEF Versions
  <2>6. \A u \in Versions : u > currentVersion' => run'[u] = "NONE"
    BY <2>2, <2>3, <2>5 DEF LaunchInv
  <2>7. \A d \in Clients : Launching(d)' => Launching(d) /\ req'[d] = req[d]
    BY <2>2 DEF Launching
  <2>8. \A u \in Versions : vstatus'[u] = "NONE" => vcontent'[u] = "empty"
    <3> SUFFICES ASSUME NEW u \in Versions, vstatus'[u] = "NONE" PROVE vcontent'[u] = "empty"
      OBVIOUS
    <3> QED
      BY <2>3 DEF LaunchInv
  <2> QED
    BY <2>2, <2>3, <2>4, <2>6, <2>7, <2>8 DEF LaunchInv
<1>3. CASE UpdateArtifact
  BY <1>0, <1>3 DEF LaunchInv, UpdateArtifact, EditVersion, EditMatches, Launching
<1>4. CASE RemoveArtifact \/ UNCHANGED vars
  BY <1>4 DEF LaunchInv, Launching, RemoveArtifact, DeleteArtifact, vars, storeVars
<1>5. CASE \/ \E w \in Workers, v \in Versions : PickUp(w, v)
           \/ \E w \in Workers : Crash(w)
           \/ \E v \in Versions : Stalled(v)
  <2>1. UNCHANGED <<currentVersion, req, run, vstatus, vcontent>>
    BY <1>5 DEF PickUp, Crash, Stalled, storeVars
  <2> QED
    BY <2>1 DEF LaunchInv, Launching
<1> QED
  BY <1>1, <1>2, <1>3, <1>4, <1>5 DEF Next

\* What the steps of an attempt and of the failure handler do to the rest.
LEMMA MovesAlone ==
  ASSUME IInv, NEW v \in Versions, Attempt(v) \/ Handler(v)
  PROVE  \A u \in Versions \ {v} :
           /\ job'[u] = job[u] /\ pc'[u] = pc[u] /\ run'[u] = run[u]
           /\ vstatus'[u] = vstatus[u] /\ vcontent'[u] = vcontent[u]
           /\ announced'[u] = announced[u] /\ listener'[u] = listener[u]
           /\ charged'[u] = charged[u]
<1>0. /\ job \in [Versions -> JobStates] /\ pc \in [Versions -> Places]
      /\ run \in [Versions -> {"NONE", "RUNNING", "COMPLETED", "FAILED"}]
      /\ listener \in [Versions -> {"none", "failVersion", "failRun", "announce"}]
      /\ vstatus \in [Versions -> VersionStatus] /\ vcontent \in [Versions -> Contents]
      /\ charged \in [Versions -> Seq(Nat)] /\ announced \in [Versions -> Seq(TerminalEvents)]
  BY DEF IInv, TypeOK, QueueTypeOK, WorkerTypeOK, LaunchTypeOK, StoreTypeOK, OutcomeTypeOK
<1>1. ASSUME NEW u \in BOOLEAN, FailAttempt(v, u)
      PROVE  \A x \in Versions \ {v} :
               job'[x] = job[x] /\ pc'[x] = pc[x] /\ listener'[x] = listener[x]
  BY <1>0, <1>1 DEF FailAttempt, OnFailed
<1>2. CASE StartAttempt(v) \/ RefuseAttempt(v) \/ StepFails(v) \/ CompleteFails(v)
  BY <1>0, <1>1, <1>2 DEF StartAttempt, RefuseAttempt, StepFails, CompleteFails, storeVars, queueVars, moneyVars
<1>3. CASE DoStep(v)
  BY <1>0, <1>3 DEF DoStep, SetVersionContent, storeVars, queueVars, moneyVars
<1>4. CASE Complete(v) \/ Commit(v) \/ CommitFails(v) \/ JobCompleted(v)
  BY <1>0, <1>4 DEF Complete, Commit, CommitFails, JobCompleted, storeVars, queueVars, moneyVars
<1>5. CASE AnnounceCompleted(v)
  BY <1>0, <1>5 DEF AnnounceCompleted, Announce, storeVars, queueVars, moneyVars
<1>6. CASE Handler(v)
  BY <1>0, <1>6 DEF Handler, HandlerFailVersion, HandlerFailRun, HandlerAnnounce, HandlerStep,
     FailVersion, Announce, storeVars, queueVars, moneyVars
<1> QED
  BY <1>2, <1>3, <1>4, <1>5, <1>6 DEF Attempt

\* While no worker dies, every job that is taken is executed.
LEMMA PickUpHandsOut ==
  ASSUME IInv, LostInv, crashes' = 0, NEW w \in Workers, NEW v \in Versions, PickUp(w, v)
  PROVE  /\ job[v] = "waiting" /\ crashes = 0
         /\ job' = [job EXCEPT ![v] = "active"] /\ pc' = [pc EXCEPT ![v] = "start"]
         /\ UNCHANGED <<storeVars, req, run, listener, charged, announced, faults>>
<1>1. crashes = 0 /\ stalls[v] = 0
  BY DEF PickUp, LostInv, boundVars
<1>2. ~(stalls[v] > MaxStalls)
  BY <1>1, RunAssumption
<1> QED
  BY <1>1, <1>2 DEF PickUp, boundVars, moneyVars

\* The record, its job and the place of an attempt, of what moves.
LEMMA RecordStep == IInv /\ LostInv /\ LaunchInv /\ RecordInv /\ [Next]_vars => RecordInv'
<1> SUFFICES ASSUME IInv, LostInv, LaunchInv, RecordInv, [Next]_vars, crashes' = 0
             PROVE  RecordInv'
  BY DEF RecordInv
<1> USE DEF RecordInv
<1>0. /\ job \in [Versions -> JobStates] /\ pc \in [Versions -> Places]
      /\ run \in [Versions -> {"NONE", "RUNNING", "COMPLETED", "FAILED"}]
      /\ req \in [Clients -> [at : {"idle", "refining", "appended", "created"}, v : 0..MaxVersions]]
      /\ crashes \in Nat
  BY DEF IInv, TypeOK, QueueTypeOK, WorkerTypeOK, LaunchTypeOK, BoundTypeOK
<1>1. ASSUME NEW c \in Clients, Request(c) PROVE RecordInv'
  <2>1. pc' = pc /\ crashes' = crashes
    BY <1>1, RequestFrame DEF Request, LaunchInitialRun, ReadForRefine, WriteRefine, CreateRun,
       AddArtifactRunJob, LaunchFails, boundVars
  <2>2. CASE CreateRun(c)
    <3>1. job[req[c].v] = "none" /\ job' = job /\ req[c].v \in Versions
      BY <1>0, <2>2 DEF CreateRun, IInv, RequestInv, Launching, queueVars, TypeOK, StoreTypeOK, Versions
    <3>2. pc[req[c].v] = "idle"
      BY <3>1 DEF IInv, ExecutionInv, Executing
    <3> QED
      BY <1>0, <2>1, <2>2, <3>1, <3>2 DEF CreateRun, Working, Recorded, StepNames
  <2>3. CASE AddArtifactRunJob(c)
    <3>1. run[req[c].v] = "RUNNING" /\ job[req[c].v] = "none" /\ req[c].v \in Versions /\ run' = run
      BY <1>0, <2>3 DEF AddArtifactRunJob, LaunchInv, IInv, RequestInv, Launching, TypeOK, StoreTypeOK, Versions
    <3>2. pc[req[c].v] = "idle"
      BY <3>1 DEF IInv, ExecutionInv, Executing
    <3> QED
      BY <1>0, <2>1, <2>3, <3>1, <3>2 DEF AddArtifactRunJob, Working, Recorded, StepNames
  <2>4. CASE ~CreateRun(c) /\ ~AddArtifactRunJob(c)
    BY <1>0, <1>1, <2>1, <2>4 DEF Request, LaunchInitialRun, ReadForRefine, WriteRefine, LaunchFails, queueVars
  <2> QED
    BY <2>2, <2>3, <2>4
<1>2. ASSUME NEW w \in Workers, NEW v \in Versions, PickUp(w, v) PROVE RecordInv'
  BY <1>0, <1>2, RunAssumption DEF PickUp, boundVars, LostInv, Working, Recorded, StepNames
<1>3. ASSUME NEW w \in Workers, Crash(w) PROVE RecordInv'
  BY <1>0, <1>3 DEF Crash
<1>4. ASSUME NEW v \in Versions, Stalled(v) PROVE RecordInv'
  BY <1>0, <1>4 DEF Stalled, boundVars, LostInv
<1>5. ASSUME NEW v \in Versions, Attempt(v) PROVE RecordInv'
  <2>1. crashes' = crashes
    BY <1>5 DEF Attempt, StartAttempt, RefuseAttempt, DoStep, StepFails, Complete,
     CompleteFails, Commit, CommitFails, AnnounceCompleted, JobCompleted, boundVars
  <2>2. job[v] = "active"
    BY <1>5 DEF IInv, ExecutionInv, Executing, Attempt, StartAttempt,
       RefuseAttempt, DoStep, StepFails, Complete, CompleteFails, Commit, CommitFails,
       AnnounceCompleted, JobCompleted, StepNames
  <2>3. CASE RefuseAttempt(v) \/ StepFails(v) \/ CompleteFails(v)
    <3>1. pc'[v] = "idle" /\ job'[v] \in {"waiting", "failed"} /\ run' = run /\ pc[v] \in Working
      BY <1>0, <2>3 DEF RefuseAttempt, StepFails, CompleteFails, FailAttempt, Working, StepNames
    <3> QED
      BY <1>0, <1>5, <2>1, <3>1, MovesAlone DEF Working, Recorded, StepNames
  <2>4. CASE ~(RefuseAttempt(v) \/ StepFails(v) \/ CompleteFails(v))
    <3>1. \/ pc[v] \in Working /\ pc'[v] \in Working /\ run'[v] = run[v] /\ job'[v] = "active"
          \/ pc[v] = "complete" /\ pc'[v] = "commit" /\ run'[v] = "COMPLETED" /\ job'[v] = "active"
          \/ pc[v] \in Recorded /\ pc'[v] \in Recorded /\ run'[v] = run[v] /\ job'[v] = "active"
          \/ pc[v] = "return" /\ pc'[v] = "idle" /\ run'[v] = run[v] /\ job'[v] = "completed"
      BY <1>0, <1>5, <2>2, <2>4 DEF Attempt, StartAttempt, DoStep, After, Complete, Commit, CommitFails,
         AnnounceCompleted, JobCompleted, Working, Recorded, StepNames, queueVars
    <3> QED
      BY <1>0, <1>5, <2>1, <3>1, MovesAlone DEF Working, Recorded, StepNames
  <2> QED
    BY <2>3, <2>4
<1>6. ASSUME NEW v \in Versions, Handler(v) PROVE RecordInv'
  <2>1. job[v] = "failed" /\ job' = job /\ pc' = pc /\ crashes' = crashes
    BY <1>6, HandlerFrame DEF Handler, HandlerFailVersion, HandlerFailRun, HandlerAnnounce, HandlerStep, IInv, FailureInv
  <2>2. pc[v] = "idle"
    BY <2>1 DEF IInv, ExecutionInv, Executing
  <2> QED
    BY <1>0, <1>6, <2>1, <2>2, MovesAlone DEF Working, Recorded, StepNames
<1>7. CASE UpdateArtifact \/ RemoveArtifact \/ UNCHANGED vars
  BY <1>7 DEF UpdateArtifact, RemoveArtifact, vars, queueVars, execVars, boundVars
<1> QED
  BY <1>1, <1>2, <1>3, <1>4, <1>5, <1>6, <1>7 DEF Next

LEMMA FillStep == IInv /\ LaunchInv /\ FillInv /\ [Next]_vars => FillInv'
<1> SUFFICES ASSUME IInv, LaunchInv, FillInv, [Next]_vars PROVE FillInv'
  OBVIOUS
<1> USE DEF FillInv
<1>0. /\ pc \in [Versions -> Places] /\ vstatus \in [Versions -> VersionStatus]
      /\ vcontent \in [Versions -> Contents]
  BY DEF IInv, TypeOK, WorkerTypeOK, StoreTypeOK
<1>1. ASSUME NEW c \in Clients, Request(c) PROVE FillInv'
  <2>1. pc' = pc /\ vcontent' = vcontent
    BY <1>1, RequestFrame DEF Request, LaunchInitialRun, CreateArtifact, ReadForRefine, WriteRefine,
       AppendRefineVersion, CreateRun, AddArtifactRunJob, LaunchFails, storeVars
  <2>2. \A v \in Versions : vstatus'[v] \in {vstatus[v], "GENERATING"}
    BY <1>0, <1>1 DEF Request, LaunchInitialRun, CreateArtifact, ReadForRefine, WriteRefine,
       AppendRefineVersion, CreateRun, AddArtifactRunJob, LaunchFails, storeVars
  <2> QED
    BY <2>1, <2>2
<1>2. ASSUME NEW v \in Versions, Attempt(v) PROVE FillInv'
  <2>1. CASE RefuseAttempt(v) \/ StepFails(v) \/ CompleteFails(v)
    BY <1>0, <2>1 DEF RefuseAttempt, StepFails, CompleteFails, FailAttempt, Recorded, storeVars
  <2>2. CASE ~(RefuseAttempt(v) \/ StepFails(v) \/ CompleteFails(v) \/ DoStep(v))
    BY <1>0, <1>2, <2>2 DEF Attempt, StartAttempt, Complete, Commit, CommitFails, AnnounceCompleted,
       JobCompleted, Recorded, storeVars
  <2>3. CASE DoStep(v)
    BY <1>0, <2>3 DEF DoStep, After, SetVersionContent, StepNames, Recorded, storeVars
  <2> QED
    BY <1>2, <2>1, <2>2, <2>3 DEF Attempt
<1>3. ASSUME NEW v \in Versions, Handler(v) PROVE FillInv'
  BY <1>0, <1>3 DEF Handler, HandlerFailVersion, HandlerFailRun, HandlerAnnounce, FailVersion, storeVars
<1>4. CASE UpdateArtifact \/ RemoveArtifact \/ UNCHANGED vars
  BY <1>0, <1>4 DEF UpdateArtifact, EditVersion, EditMatches, RemoveArtifact, DeleteArtifact, vars, storeVars,
     execVars
<1>5. ASSUME NEW w \in Workers, NEW v \in Versions, PickUp(w, v) PROVE FillInv'
  BY <1>0, <1>5 DEF PickUp, storeVars, Recorded
<1>6. ASSUME NEW w \in Workers, Crash(w) PROVE FillInv'
  BY <1>0, <1>6 DEF Crash, storeVars, Recorded
<1>7. ASSUME NEW v \in Versions, Stalled(v) PROVE FillInv'
  BY <1>7 DEF Stalled, execVars, storeVars
<1> QED
  BY <1>1, <1>2, <1>3, <1>4, <1>5, <1>6, <1>7 DEF Next

LEMMA TellStep == IInv /\ LostInv /\ TellInv /\ [Next]_vars => TellInv'
<1> SUFFICES ASSUME IInv, LostInv, TellInv, [Next]_vars, crashes' = 0 PROVE TellInv'
  BY DEF TellInv
<1> USE DEF TellInv
<1>0. /\ job \in [Versions -> JobStates] /\ pc \in [Versions -> Places]
      /\ listener \in [Versions -> {"none", "failVersion", "failRun", "announce"}]
      /\ announced \in [Versions -> Seq(TerminalEvents)] /\ crashes \in Nat
  BY DEF IInv, TypeOK, QueueTypeOK, WorkerTypeOK, OutcomeTypeOK, BoundTypeOK
<1>1. ASSUME NEW c \in Clients, Request(c) PROVE TellInv'
  <2>1. pc' = pc /\ crashes' = crashes /\ announced' = announced /\ listener' = listener
    BY <1>1, RequestFrame DEF Request, LaunchInitialRun, ReadForRefine, WriteRefine, CreateRun,
       AddArtifactRunJob, LaunchFails, boundVars
  <2>2. \/ job' = job
        \/ job[req[c].v] = "none" /\ job' = [job EXCEPT ![req[c].v] = "waiting"]
    <3>1. CASE AddArtifactRunJob(c)
      BY <3>1 DEF IInv, RequestInv, Launching, AddArtifactRunJob
    <3>2. CASE ~AddArtifactRunJob(c)
      <4>1. job' = job
        BY <1>1, <3>2 DEF Request, LaunchInitialRun, ReadForRefine, WriteRefine, CreateRun,
                          LaunchFails, queueVars
      <4> QED
        BY <4>1
    <3> QED
      BY <3>1, <3>2
  <2>3. CASE job' = job
    BY <2>1, <2>3
  <2>4. CASE job[req[c].v] = "none" /\ job' = [job EXCEPT ![req[c].v] = "waiting"]
    <3>1. \A u \in Versions : job'[u] = job[u] \/ job[u] = "none"
      BY <1>0, <2>4
    <3> QED
      BY <2>1, <3>1
  <2> QED
    BY <2>2, <2>3, <2>4
<1>2. ASSUME NEW w \in Workers, NEW v \in Versions, PickUp(w, v) PROVE TellInv'
  <2>1. pc[v] = "idle"
    BY <1>2 DEF IInv, ExecutionInv, Executing, PickUp
  <2>2. \A u \in Versions \ {v} : job'[u] = job[u] /\ pc'[u] = pc[u]
    BY <1>0, <1>2, PickUpHandsOut
  <2> QED
    BY <1>2, <2>1, <2>2, PickUpHandsOut
<1>3. ASSUME NEW w \in Workers, Crash(w) PROVE TellInv'
  BY <1>0, <1>3 DEF Crash
<1>4. ASSUME NEW v \in Versions, Stalled(v) PROVE TellInv'
  BY <1>0, <1>4 DEF Stalled, boundVars, LostInv
<1>5. ASSUME NEW v \in Versions, Attempt(v) PROVE TellInv'
  <2>1. crashes' = crashes
    BY <1>5 DEF Attempt, StartAttempt, RefuseAttempt, DoStep, StepFails, Complete,
     CompleteFails, Commit, CommitFails, AnnounceCompleted, JobCompleted, boundVars
  <2>2. job[v] = "active"
    BY <1>5 DEF IInv, ExecutionInv, Executing, Attempt, StartAttempt,
       RefuseAttempt, DoStep, StepFails, Complete, CompleteFails, Commit, CommitFails,
       AnnounceCompleted, JobCompleted, StepNames
  <2>3. \/ announced'[v] = announced[v] /\ pc[v] # "return"
        \/ pc'[v] = "return"
        \/ job'[v] = "completed"
    BY <1>0, <1>5, <2>2 DEF Attempt, StartAttempt, RefuseAttempt, StepFails, CompleteFails, FailAttempt, StepNames,
       DoStep, Complete, Commit, CommitFails, AnnounceCompleted, JobCompleted
  <2> QED
    BY <1>0, <1>5, <2>1, <2>2, <2>3, MovesAlone
<1>6. ASSUME NEW v \in Versions, Handler(v) PROVE TellInv'
  <2>1. job[v] = "failed" /\ job' = job /\ pc' = pc /\ crashes' = crashes
    BY <1>6, HandlerFrame DEF Handler, HandlerFailVersion, HandlerFailRun, HandlerAnnounce, HandlerStep, IInv, FailureInv
  <2>2. pc[v] = "idle" /\ listener[v] # "none"
    BY <1>6, <2>1 DEF IInv, ExecutionInv, Executing, Handler, HandlerFailVersion, HandlerFailRun, HandlerAnnounce, HandlerStep
  <2>3. announced'[v] = announced[v] \/ listener'[v] = "none"
    BY <1>0, <1>6 DEF Handler, HandlerFailVersion, HandlerFailRun, HandlerAnnounce, HandlerStep
  <2> QED
    BY <1>0, <1>6, <2>1, <2>2, <2>3, MovesAlone
<1>7. CASE UpdateArtifact \/ RemoveArtifact \/ UNCHANGED vars
  BY <1>7 DEF UpdateArtifact, RemoveArtifact, vars, queueVars, execVars, boundVars
<1> QED
  BY <1>1, <1>2, <1>3, <1>4, <1>5, <1>6, <1>7 DEF Next

LEMMA UnsettledStep == IInv /\ LostInv /\ LaunchInv /\ UnsettledInv /\ [Next]_vars => UnsettledInv'
<1> SUFFICES ASSUME IInv, LostInv, LaunchInv, UnsettledInv, [Next]_vars, faults' = 0, crashes' = 0
             PROVE  UnsettledInv'
  BY DEF UnsettledInv
<1> USE DEF UnsettledInv
<1>0. /\ job \in [Versions -> JobStates] /\ pc \in [Versions -> Places]
      /\ listener \in [Versions -> {"none", "failVersion", "failRun", "announce"}]
      /\ vstatus \in [Versions -> VersionStatus] /\ vcontent \in [Versions -> Contents]
      /\ faults \in Nat /\ crashes \in Nat /\ currentVersion \in 0..MaxVersions
      /\ req \in [Clients -> [at : {"idle", "refining", "appended", "created"}, v : 0..MaxVersions]]
  BY DEF IInv, TypeOK, QueueTypeOK, WorkerTypeOK, StoreTypeOK, BoundTypeOK, LaunchTypeOK
<1>1. ASSUME NEW c \in Clients, Request(c) PROVE UnsettledInv'
  <2>1. pc' = pc /\ crashes' = crashes /\ listener' = listener /\ faults = 0 /\ vcontent' = vcontent
    BY <1>0, <1>1, RequestFrame DEF Request, LaunchInitialRun, ReadForRefine, WriteRefine, CreateRun,
       AddArtifactRunJob, LaunchFails, Fault, boundVars, CreateArtifact, AppendRefineVersion, storeVars
  <2>2. CASE AddArtifactRunJob(c)
    <3>1. req[c].v \in Versions
      BY <1>0, <2>2 DEF AddArtifactRunJob, IInv, RequestInv, Versions
    <3>2. vstatus[req[c].v] = "GENERATING" /\ vcontent[req[c].v] = "empty"
      BY <2>2 DEF AddArtifactRunJob, LaunchInv, Launching
    <3> QED
      BY <1>0, <2>1, <2>2, <3>1, <3>2 DEF AddArtifactRunJob, storeVars
  <2>3. CASE ~AddArtifactRunJob(c)
    <3>1. \A v \in Versions : vstatus'[v] \in {vstatus[v], "GENERATING"}
      BY <1>0, <1>1 DEF Request, LaunchInitialRun, CreateArtifact, ReadForRefine, WriteRefine,
         AppendRefineVersion, CreateRun, AddArtifactRunJob, LaunchFails, storeVars
    <3>2. job' = job
      BY <1>1, <2>3 DEF Request, LaunchInitialRun, ReadForRefine, WriteRefine, CreateRun, LaunchFails, queueVars
    <3> QED
      BY <2>1, <3>1, <3>2
  <2> QED
    BY <2>2, <2>3
<1>2. ASSUME NEW w \in Workers, NEW v \in Versions, PickUp(w, v) PROVE UnsettledInv'
  <2>1. \A u \in Versions \ {v} : job'[u] = job[u] /\ pc'[u] = pc[u]
    BY <1>0, <1>2, PickUpHandsOut
  <2>2. /\ job[v] = "waiting" /\ crashes = 0 /\ faults = 0
        /\ UNCHANGED <<vstatus, vcontent, listener>>
    BY <1>2, PickUpHandsOut DEF storeVars
  <2>3. vstatus[v] = "GENERATING" /\ vcontent[v] = "empty"
    BY <2>2
  <2> QED
    BY <2>1, <2>2, <2>3
<1>3. ASSUME NEW w \in Workers, Crash(w) PROVE UnsettledInv'
  BY <1>0, <1>3 DEF Crash
<1>4. ASSUME NEW v \in Versions, Stalled(v) PROVE UnsettledInv'
  BY <1>0, <1>4 DEF Stalled, boundVars, LostInv
<1>5. ASSUME NEW v \in Versions, Attempt(v) PROVE UnsettledInv'
  <2>0. crashes' = crashes /\ (faults' = faults \/ faults' = faults + 1)
    BY <1>5 DEF Attempt, StartAttempt, RefuseAttempt, DoStep, StepFails, Complete,
     CompleteFails, Commit, CommitFails, AnnounceCompleted, Announce, JobCompleted, Fault, boundVars
  <2>1. crashes' = crashes /\ faults = 0
    BY <1>0, <2>0
  <2>2. job[v] = "active" /\ listener[v] = "none"
    BY <1>5 DEF IInv, ExecutionInv, Executing, FailureInv, Attempt, StartAttempt,
       RefuseAttempt, DoStep, StepFails, Complete, CompleteFails, Commit, CommitFails,
       AnnounceCompleted, JobCompleted, StepNames
  <2>3. CASE RefuseAttempt(v) \/ StepFails(v)
    <3>1. vstatus[v] = "GENERATING" /\ vcontent[v] = "empty" /\ UNCHANGED <<vstatus, vcontent>>
      BY <2>1, <2>3 DEF RefuseAttempt, StepFails, storeVars
    <3> QED
      BY <1>0, <1>5, <2>1, <3>1, MovesAlone
  <2>4. CASE DoStep(v)
    <3>1. /\ job' = job /\ listener' = listener
          /\ \/ pc'[v] \notin StepNames \cup {"start"}
             \/ vstatus'[v] = vstatus[v] /\ vcontent'[v] = vcontent[v]
      BY <1>0, <2>4 DEF DoStep, After, StepNames, queueVars, storeVars
    <3> QED
      BY <1>0, <1>5, <2>1, <2>2, <2>4, <3>1, MovesAlone DEF DoStep
  <2>5. CASE ~(RefuseAttempt(v) \/ StepFails(v) \/ DoStep(v))
    <3>1. /\ UNCHANGED <<vstatus, vcontent, listener>>
          /\ job'[v] # "waiting"
          /\ pc'[v] \in StepNames \cup {"start"} => pc[v] \in StepNames \cup {"start"}
      BY <1>0, <1>5, <2>2, <2>5, <2>1 DEF Attempt, StartAttempt, Complete, CompleteFails, Fault,
         Commit, CommitFails, AnnounceCompleted, JobCompleted, StepNames, storeVars, queueVars
    <3> QED
      BY <1>0, <1>5, <2>1, <2>2, <3>1, MovesAlone
  <2> QED
    BY <2>3, <2>4, <2>5
<1>6. ASSUME NEW v \in Versions, Handler(v) PROVE UnsettledInv'
  <2>1. job[v] = "failed" /\ job' = job /\ pc' = pc /\ crashes' = crashes /\ faults = 0
    BY <1>0, <1>6, HandlerFrame DEF Handler, HandlerFailVersion, HandlerFailRun, HandlerAnnounce, HandlerStep,
       Announce, Fault, IInv, FailureInv
  <2>2. pc[v] = "idle" /\ listener'[v] # "failVersion"
    BY <1>0, <1>6, <2>1 DEF IInv, ExecutionInv, Executing, Handler, HandlerFailVersion, HandlerFailRun, HandlerAnnounce, HandlerStep
  <2> QED
    BY <1>0, <1>6, <2>1, <2>2, MovesAlone DEF StepNames
<1>7. CASE UpdateArtifact \/ RemoveArtifact \/ UNCHANGED vars
  BY <1>0, <1>7 DEF UpdateArtifact, EditVersion, EditMatches, RemoveArtifact, DeleteArtifact, vars, storeVars,
     queueVars, execVars, boundVars
<1> QED
  BY <1>1, <1>2, <1>3, <1>4, <1>5, <1>6, <1>7 DEF Next

LEMMA ContractStep == IInv /\ ContractInv /\ [Next]_vars => ContractInv'
BY LostStep, LaunchStep, RecordStep, FillStep, TellStep, UnsettledStep DEF ContractInv

LEMMA ContractInvariance == Spec => [](IInv /\ ContractInv)
<1>1. Init => IInv /\ ContractInv
  BY InitInv, ContractInit
<1>2. IInv /\ ContractInv /\ [Next]_vars => (IInv /\ ContractInv)'
  BY Inductive, ContractStep
<1> QED
  BY <1>1, <1>2, PTL DEF Spec

-----------------------------------------------------------------------------
(* Settled versions stay *)

\* As long as no write was lost and no worker died, READY and FAILED are final
\* and no run overwrites what an editor saved: the unconditional writes of
\* setVersionContent and failVersion only ever meet an unsettled version.
THEOREM SettledStay == Spec => SettledVersionsStay
<1> DEFINE Stays == faults = 0 /\ crashes = 0 =>
             \A v \in Versions :
               /\ vstatus[v] \in {"READY", "FAILED"} => vstatus'[v] = vstatus[v]
               /\ vcontent[v] = "edited" => vcontent'[v] = "edited"
<1>1. IInv /\ ContractInv /\ [Next]_vars => Stays
  <2> SUFFICES ASSUME IInv, ContractInv, [Next]_vars, faults = 0, crashes = 0
               PROVE  \A v \in Versions :
                        /\ vstatus[v] \in {"READY", "FAILED"} => vstatus'[v] = vstatus[v]
                        /\ vcontent[v] = "edited" => vcontent'[v] = "edited"
    OBVIOUS
  <2>0. vstatus \in [Versions -> VersionStatus] /\ vcontent \in [Versions -> Contents]
    BY DEF IInv, TypeOK, StoreTypeOK
  <2>1. ASSUME NEW c \in Clients, Request(c) PROVE Stays
    <3>1. CASE LaunchInitialRun(c) \/ (WriteRefine(c) /\ AppendMatches(req[c].v))
      <4>1. vcontent' = vcontent
        BY <3>1 DEF LaunchInitialRun, CreateArtifact, WriteRefine, AppendRefineVersion
      <4> QED
        BY <2>0, <3>1, <4>1, Appends
    <3>2. CASE ~(LaunchInitialRun(c) \/ (WriteRefine(c) /\ AppendMatches(req[c].v)))
      BY <2>1, <3>2, OtherRequests DEF storeVars
    <3> QED
      BY <3>1, <3>2
  <2>2. ASSUME NEW v \in Versions, Attempt(v) PROVE Stays
    <3>1. CASE DoStep(v) /\ pc[v] = "PERSIST_VERSION"
      <4>1. vstatus[v] = "GENERATING" /\ vcontent[v] = "empty"
        BY <3>1 DEF ContractInv, UnsettledInv, StepNames
      <4> QED
        BY <2>2, <4>1, MovesAlone
    <3>2. CASE ~(DoStep(v) /\ pc[v] = "PERSIST_VERSION")
      BY <2>2, <3>2 DEF Attempt, StartAttempt, RefuseAttempt, DoStep, StepFails, Complete,
         CompleteFails, Commit, CommitFails, AnnounceCompleted, JobCompleted, storeVars
    <3> QED
      BY <3>1, <3>2
  <2>3. ASSUME NEW v \in Versions, Handler(v) PROVE Stays
    <3>1. CASE HandlerFailVersion(v)
      <4>1. vstatus[v] = "GENERATING" /\ vcontent[v] = "empty"
        BY <3>1 DEF ContractInv, UnsettledInv, HandlerFailVersion, HandlerStep
      <4> QED
        BY <2>3, <4>1, MovesAlone
    <3>2. CASE ~HandlerFailVersion(v)
      BY <2>3, <3>2 DEF Handler, HandlerFailRun, HandlerAnnounce, storeVars
    <3> QED
      BY <3>1, <3>2
  <2>4. CASE UpdateArtifact \/ RemoveArtifact \/ UNCHANGED vars
    BY <2>0, <2>4 DEF UpdateArtifact, EditVersion, RemoveArtifact, DeleteArtifact, vars, storeVars
  <2>5. CASE \/ \E w \in Workers, v \in Versions : PickUp(w, v)
             \/ \E w \in Workers : Crash(w)
             \/ \E v \in Versions : Stalled(v)
    BY <2>5 DEF PickUp, Crash, Stalled, storeVars
  <2> QED
    BY <2>1, <2>2, <2>3, <2>4, <2>5 DEF Next
<1>2. QED
  BY <1>1, ContractInvariance, PTL DEF Spec, SettledVersionsStay

-----------------------------------------------------------------------------
(* The refinement: each step is one step of RunContract or none *)

Outcome == [v \in Versions |-> OutcomeOf(v)]
Filled  == [v \in Versions |-> vcontent[v] # "empty"]
Debits  == [v \in Versions |-> Len(charged[v])]

\* A version at a time: nothing else of what the user sees moves.
OnlyMoves(v) ==
  \A u \in Versions \ {v} :
    /\ job'[u] = job[u] /\ run'[u] = run[u] /\ vcontent'[u] = vcontent[u]
    /\ charged'[u] = charged[u] /\ announced'[u] = announced[u]

\* What the user sees of version v stays as it is.
SameOutcome(v) == OutcomeOf(v)' = OutcomeOf(v)
SameFilled(v)  == (vcontent'[v] # "empty") = (vcontent[v] # "empty")
SameDebits(v)  == charged'[v] = charged[v]
SameTold(v)    == announced'[v] = announced[v]

LEMMA OneMoves ==
  ASSUME TypeOK, TypeOK', NEW v \in Versions, OnlyMoves(v)
  PROVE  /\ Outcome' = [Outcome EXCEPT ![v] = OutcomeOf(v)']
         /\ Filled' = [Filled EXCEPT ![v] = vcontent'[v] # "empty"]
         /\ Debits' = [Debits EXCEPT ![v] = Len(charged'[v])]
         /\ announced' = [announced EXCEPT ![v] = announced'[v]]
<1>1. Outcome' = [Outcome EXCEPT ![v] = OutcomeOf(v)']
  <2>1. \A u \in Versions \ {v} : OutcomeOf(u)' = OutcomeOf(u)
    BY DEF OutcomeOf, OnlyMoves
  <2> QED
    BY <2>1 DEF Outcome
<1>2. Filled' = [Filled EXCEPT ![v] = vcontent'[v] # "empty"]
  BY DEF Filled, OnlyMoves
<1>3. Debits' = [Debits EXCEPT ![v] = Len(charged'[v])]
  BY DEF Debits, OnlyMoves
<1>4. announced' = [announced EXCEPT ![v] = announced'[v]]
  BY DEF TypeOK, OutcomeTypeOK, OnlyMoves
<1> QED
  BY <1>1, <1>2, <1>3, <1>4

\* The moves RunContract allows a run, read off version v.
Move(v) ==
  \/ SameOutcome(v) /\ SameFilled(v) /\ SameDebits(v) /\ SameTold(v)
  \/ /\ \/ OutcomeOf(v) = "none" /\ OutcomeOf(v)' = "running"
        \/ OutcomeOf(v) = "running" /\ OutcomeOf(v)' = "succeeded" /\ vcontent[v] # "empty"
        \/ OutcomeOf(v) = "running" /\ OutcomeOf(v)' = "failed"
     /\ SameFilled(v) /\ SameDebits(v) /\ SameTold(v)
  \/ /\ OutcomeOf(v) = "running" /\ vcontent'[v] # "empty"
     /\ SameOutcome(v) /\ SameDebits(v) /\ SameTold(v)
  \/ /\ OutcomeOf(v) = "succeeded" /\ charged[v] = <<>> /\ Len(charged'[v]) = 1
     /\ SameOutcome(v) /\ SameFilled(v) /\ SameTold(v)
  \/ /\ announced[v] = <<>>
     /\ \/ OutcomeOf(v) = "succeeded" /\ announced'[v] = <<"run.completed">>
        \/ OutcomeOf(v) = "failed" /\ announced'[v] = <<"run.failed">>
     /\ SameOutcome(v) /\ SameFilled(v) /\ SameDebits(v)

LEMMA MoveSimulates ==
  ASSUME TypeOK, TypeOK', NEW v \in Versions, OnlyMoves(v), Move(v)
  PROVE  [Contract!Next]_Contract!vars
<1>0. /\ Outcome' = [Outcome EXCEPT ![v] = OutcomeOf(v)']
      /\ Filled' = [Filled EXCEPT ![v] = vcontent'[v] # "empty"]
      /\ Debits' = [Debits EXCEPT ![v] = Len(charged'[v])]
      /\ announced' = [announced EXCEPT ![v] = announced'[v]]
  BY OneMoves
<1>1. /\ Outcome[v] = OutcomeOf(v) /\ Filled[v] = (vcontent[v] # "empty")
      /\ Debits[v] = Len(charged[v])
      /\ Outcome = [Outcome EXCEPT ![v] = Outcome[v]]
      /\ Filled = [Filled EXCEPT ![v] = Filled[v]]
      /\ Debits = [Debits EXCEPT ![v] = Debits[v]]
      /\ announced = [announced EXCEPT ![v] = announced[v]]
  BY DEF Outcome, Filled, Debits, TypeOK, OutcomeTypeOK
<1>2. CASE SameOutcome(v) /\ SameFilled(v) /\ SameDebits(v) /\ SameTold(v)
  <2>1. UNCHANGED <<Outcome, Filled, Debits, announced>>
    BY <1>0, <1>1, <1>2 DEF SameOutcome, SameFilled, SameDebits, SameTold
  <2> QED
    BY <2>1 DEF Contract!vars, Outcome, Filled, Debits
<1>3. CASE /\ \/ OutcomeOf(v) = "none" /\ OutcomeOf(v)' = "running"
              \/ OutcomeOf(v) = "running" /\ OutcomeOf(v)' = "succeeded" /\ vcontent[v] # "empty"
              \/ OutcomeOf(v) = "running" /\ OutcomeOf(v)' = "failed"
           /\ SameFilled(v) /\ SameDebits(v) /\ SameTold(v)
  <2>1. UNCHANGED <<Filled, Debits, announced>>
    BY <1>0, <1>1, <1>3 DEF SameFilled, SameDebits, SameTold
  <2>2. Contract!Accept(v) \/ Contract!Succeed(v) \/ Contract!Fail(v)
    BY <1>0, <1>1, <1>3, <2>1
    DEF Contract!Accept, Contract!Succeed, Contract!Fail, Contract!Decide, Outcome, Filled, Debits
  <2> QED
    BY <2>2 DEF Contract!Next
<1>4. CASE /\ OutcomeOf(v) = "running" /\ vcontent'[v] # "empty"
           /\ SameOutcome(v) /\ SameDebits(v) /\ SameTold(v)
  <2>1. UNCHANGED <<Outcome, Debits, announced>> /\ Filled' = [Filled EXCEPT ![v] = TRUE]
    BY <1>0, <1>1, <1>4 DEF SameOutcome, SameDebits, SameTold
  <2>2. Contract!Fill(v)
    BY <1>1, <1>4, <2>1 DEF Contract!Fill, Outcome, Filled, Debits
  <2> QED
    BY <2>2 DEF Contract!Next
<1>5. CASE /\ OutcomeOf(v) = "succeeded" /\ charged[v] = <<>> /\ Len(charged'[v]) = 1
           /\ SameOutcome(v) /\ SameFilled(v) /\ SameTold(v)
  <2>1. UNCHANGED <<Outcome, Filled, announced>> /\ Debits' = [Debits EXCEPT ![v] = 1]
    BY <1>0, <1>1, <1>5 DEF SameOutcome, SameFilled, SameTold
  <2>2. Debits[v] = 0
    BY <1>1, <1>5
  <2>3. Contract!Debit(v)
    BY <1>1, <1>5, <2>1, <2>2 DEF Contract!Debit, Outcome, Filled, Debits
  <2> QED
    BY <2>3 DEF Contract!Next
<1>6. CASE /\ announced[v] = <<>>
           /\ \/ OutcomeOf(v) = "succeeded" /\ announced'[v] = <<"run.completed">>
              \/ OutcomeOf(v) = "failed" /\ announced'[v] = <<"run.failed">>
           /\ SameOutcome(v) /\ SameFilled(v) /\ SameDebits(v)
  <2>1. UNCHANGED <<Outcome, Filled, Debits>>
    BY <1>0, <1>1, <1>6 DEF SameOutcome, SameFilled, SameDebits
  <2>2. Contract!Tell(v)
    BY <1>0, <1>1, <1>6, <2>1 DEF Contract!Tell, Outcome, Filled, Debits
  <2> QED
    BY <2>2 DEF Contract!Next
<1> QED
  BY <1>2, <1>3, <1>4, <1>5, <1>6 DEF Move

\* What an attempt shows, while no worker dies.
LEMMA AttemptMoves ==
  ASSUME IInv, ContractInv, crashes = 0, NEW v \in Versions, Attempt(v)
  PROVE  OnlyMoves(v) /\ Move(v)
<1> USE DEF Move, SameOutcome, SameFilled, SameDebits, SameTold
<1>0. /\ job \in [Versions -> JobStates] /\ run \in [Versions -> {"NONE", "RUNNING", "COMPLETED", "FAILED"}]
      /\ vcontent \in [Versions -> Contents] /\ announced \in [Versions -> Seq(TerminalEvents)]
      /\ charged \in [Versions -> Seq(Nat)]
  BY DEF IInv, TypeOK, QueueTypeOK, LaunchTypeOK, StoreTypeOK, OutcomeTypeOK
<1>1. OnlyMoves(v)
  BY MovesAlone DEF OnlyMoves
<1>2. job[v] = "active" /\ pc[v] # "idle"
  BY DEF IInv, ExecutionInv, Executing, Attempt, StartAttempt, RefuseAttempt, DoStep, StepFails,
     StepNames, Complete, CompleteFails, Commit, CommitFails, AnnounceCompleted, JobCompleted
<1>3. /\ pc[v] \in Working => OutcomeOf(v) = "running" /\ run[v] = "RUNNING"
      /\ pc[v] \in Recorded => OutcomeOf(v) = "succeeded" /\ run[v] = "COMPLETED"
  BY <1>2 DEF ContractInv, RecordInv, OutcomeOf
<1>4. CASE RefuseAttempt(v) \/ StepFails(v) \/ CompleteFails(v)
  <2>1. /\ pc[v] \in Working /\ run' = run /\ vcontent' = vcontent /\ charged' = charged
        /\ announced' = announced /\ job'[v] \in {"waiting", "failed"}
    BY <1>0, <1>4 DEF RefuseAttempt, StepFails, CompleteFails, FailAttempt, Working, StepNames, storeVars,
       moneyVars
  <2>2. OutcomeOf(v)' \in {"running", "failed"}
    BY <1>3, <2>1 DEF OutcomeOf
  <2> QED
    BY <1>1, <1>3, <2>1, <2>2
<1>5. CASE StartAttempt(v) \/ JobCompleted(v) \/ CommitFails(v)
  <2>1. /\ run' = run /\ vcontent' = vcontent /\ charged' = charged
        /\ announced' = announced /\ job'[v] # "failed"
    BY <1>0, <1>2, <1>5 DEF StartAttempt, JobCompleted, CommitFails, storeVars, queueVars, moneyVars
  <2>2. SameOutcome(v)
    BY <1>2, <2>1 DEF OutcomeOf
  <2> QED
    BY <1>1, <2>1, <2>2
<1>6. CASE DoStep(v)
  <2>1. /\ pc[v] \in Working /\ run' = run /\ charged' = charged /\ announced' = announced
        /\ job' = job
        /\ vcontent' = vcontent \/ vcontent' = [vcontent EXCEPT ![v] = "generated"]
    BY <1>6 DEF DoStep, SetVersionContent, Working, storeVars, queueVars, moneyVars
  <2>2. SameOutcome(v)
    BY <2>1 DEF OutcomeOf
  <2> QED
    BY <1>0, <1>1, <1>3, <2>1, <2>2
<1>7. CASE Complete(v)
  <2>1. /\ run' = [run EXCEPT ![v] = "COMPLETED"] /\ charged' = charged /\ announced' = announced
        /\ job' = job /\ vcontent' = vcontent /\ pc[v] = "complete"
    BY <1>7 DEF Complete, storeVars, queueVars, moneyVars
  <2>2. OutcomeOf(v)' = "succeeded"
    BY <1>0, <1>2, <2>1 DEF OutcomeOf
  <2>3. vcontent[v] # "empty"
    BY <2>1 DEF ContractInv, FillInv
  <2> QED
    BY <1>1, <1>3, <2>1, <2>2, <2>3 DEF Working
<1>8. CASE Commit(v)
  <2>1. /\ run' = run /\ announced' = announced /\ job' = job /\ vcontent' = vcontent /\ pc[v] = "commit"
    BY <1>8 DEF Commit, storeVars, queueVars
  <2>2. SameOutcome(v)
    BY <2>1 DEF OutcomeOf
  <2>3. \/ charged' = charged
        \/ charged' = [charged EXCEPT ![v] = Append(charged[v], used[v])]
    BY <1>8 DEF Commit, moneyVars
  <2>4. charged[v] = <<>>
    <3>1. owner[v] # NoWorker /\ stalls[v] = 0
      BY <1>2 DEF ContractInv, LostInv
    <3>2. ~MayHaveDebited(v)
      BY <1>2, <2>1, <3>1 DEF MayHaveDebited
    <3>3. Len(charged[v]) <= 0
      BY <3>1, <3>2 DEF IInv, DebitInv
    <3>4. Len(charged[v]) = 0
      BY <1>0, <3>3, LenProperties
    <3> QED
      BY <1>0, <3>4, EmptySeq
  <2>5. used[v] \in Nat
    BY DEF IInv, TypeOK, WorkerTypeOK
  <2>6. charged'[v] = charged[v] \/ Len(charged'[v]) = 1
    BY <1>0, <2>3, <2>4, <2>5
  <2> QED
    BY <1>1, <1>3, <2>1, <2>2, <2>4, <2>6 DEF Recorded
<1>9. CASE AnnounceCompleted(v)
  <2>1. /\ run' = run /\ charged' = charged /\ job' = job /\ vcontent' = vcontent /\ pc[v] = "announce"
        /\ \/ announced' = announced
           \/ announced' = [announced EXCEPT ![v] = Append(announced[v], "run.completed")]
    BY <1>9 DEF AnnounceCompleted, Announce, storeVars, queueVars, moneyVars
  <2>2. SameOutcome(v)
    BY <2>1 DEF OutcomeOf
  <2>3. announced[v] = <<>>
    BY <1>2, <2>1 DEF ContractInv, TellInv
  <2>4. announced'[v] = announced[v] \/ announced'[v] = <<"run.completed">>
    BY <1>0, <2>1, <2>3
  <2> QED
    BY <1>1, <1>3, <2>1, <2>2, <2>3, <2>4 DEF Recorded
<1> QED
  BY <1>4, <1>5, <1>6, <1>7, <1>8, <1>9 DEF Attempt

\* What the terminal-failure handler shows, while no worker dies.
LEMMA HandlerMoves ==
  ASSUME IInv, ContractInv, crashes = 0, NEW v \in Versions, Handler(v)
  PROVE  OnlyMoves(v) /\ Move(v)
<1> USE DEF Move, SameOutcome, SameFilled, SameDebits, SameTold
<1>1. OnlyMoves(v)
  BY MovesAlone DEF OnlyMoves
<1>2. job[v] = "failed" /\ listener[v] # "none"
  BY DEF IInv, FailureInv, Handler, HandlerFailVersion, HandlerFailRun, HandlerAnnounce, HandlerStep
<1>3. pc[v] = "idle"
  BY <1>2 DEF IInv, ExecutionInv, Executing
<1>4. announced[v] = <<>>
  BY <1>2, <1>3 DEF ContractInv, TellInv
<1>5. job' = job /\ charged' = charged /\ vcontent' = vcontent
  BY HandlerFrame DEF Handler, HandlerFailVersion, FailVersion, HandlerFailRun, HandlerAnnounce, storeVars
<1>6. OutcomeOf(v) = "failed" /\ SameOutcome(v)
  <2>1. OutcomeOf(v) = "failed"
    BY <1>2 DEF OutcomeOf
  <2>2. OutcomeOf(v)' = "failed"
    BY <1>2, <1>5 DEF OutcomeOf
  <2> QED
    BY <2>1, <2>2
<1>7. announced \in [Versions -> Seq(TerminalEvents)]
  BY DEF IInv, TypeOK, OutcomeTypeOK
<1>8. \/ announced' = announced
      \/ announced' = [announced EXCEPT ![v] = Append(announced[v], "run.failed")]
  BY DEF Handler, HandlerFailVersion, HandlerFailRun, HandlerAnnounce, Announce
<1>9. announced'[v] = announced[v] \/ announced'[v] = <<"run.failed">>
  BY <1>4, <1>7, <1>8
<1> QED
  BY <1>1, <1>4, <1>5, <1>6, <1>9

LEMMA ContractSimulation ==
  IInv /\ ContractInv /\ TypeOK' /\ crashes = 0 /\ crashes' = 0 /\ [Next]_vars
    => [Contract!Next]_Contract!vars
<1> SUFFICES ASSUME IInv, ContractInv, TypeOK', crashes = 0, crashes' = 0, [Next]_vars
             PROVE  [Contract!Next]_Contract!vars
  OBVIOUS
<1> DEFINE Simulated == [Contract!Next]_Contract!vars
           Unseen == UNCHANGED <<Outcome, Filled, Debits, announced>>
<1>0. /\ TypeOK /\ LostInv
      /\ req \in [Clients -> [at : {"idle", "refining", "appended", "created"}, v : 0..MaxVersions]]
      /\ job \in [Versions -> JobStates] /\ run \in [Versions -> {"NONE", "RUNNING", "COMPLETED", "FAILED"}]
      /\ vcontent \in [Versions -> Contents]
  BY DEF IInv, ContractInv, TypeOK, LaunchTypeOK, QueueTypeOK, StoreTypeOK
<1>1. Unseen => Simulated
  BY DEF Contract!vars, Outcome, Filled, Debits
<1>2. ASSUME NEW c \in Clients, Request(c) PROVE Simulated
  <2>1. UNCHANGED <<charged, announced, vcontent>>
    BY <1>2, RequestFrame DEF Request, LaunchInitialRun, CreateArtifact, ReadForRefine, WriteRefine,
       AppendRefineVersion, CreateRun, AddArtifactRunJob, LaunchFails, storeVars
  <2>2. CASE CreateRun(c)
    <3>1. req[c].v \in Versions /\ job[req[c].v] = "none" /\ run[req[c].v] = "NONE"
      BY <1>0, <2>2 DEF CreateRun, IInv, RequestInv, ContractInv, LaunchInv, Launching, Versions
    <3>2. job' = job /\ run' = [run EXCEPT ![req[c].v] = "RUNNING"]
      BY <2>2 DEF CreateRun, queueVars
    <3>3. OnlyMoves(req[c].v)
      BY <1>0, <2>1, <3>2 DEF OnlyMoves
    <3>4. OutcomeOf(req[c].v) = "none" /\ OutcomeOf(req[c].v)' = "running"
      <4>1. OutcomeOf(req[c].v) = "none"
        BY <3>1 DEF OutcomeOf
      <4>2. req' = [req EXCEPT ![c] = [at |-> "created", v |-> req[c].v]]
        BY <2>2 DEF CreateRun, SetReq
      <4>3. req'[c].v = req[c].v
        BY <1>0, <4>2
      <4>4. OutcomeOf(req[c].v)' = "running"
        BY <1>0, <3>1, <3>2, <4>3 DEF OutcomeOf
      <4> QED
        BY <4>1, <4>4
    <3>5. Move(req[c].v)
      BY <2>1, <3>4 DEF Move, SameFilled, SameDebits, SameTold
    <3> QED
      BY <1>0, <3>1, <3>3, <3>5, MoveSimulates
  <2>3. CASE ~CreateRun(c)
    <3>1. run' = run /\ \A v \in Versions : (job'[v] = "failed") = (job[v] = "failed")
      <4>1. CASE AddArtifactRunJob(c)
        <5>1. job[req[c].v] = "none"
          BY <4>1 DEF AddArtifactRunJob, IInv, RequestInv, Launching
        <5> QED
          BY <1>0, <4>1, <5>1 DEF AddArtifactRunJob
      <4>2. CASE ~AddArtifactRunJob(c)
        <5>1. job' = job /\ run' = run
          BY <1>2, <2>3, <4>2 DEF Request, LaunchInitialRun, ReadForRefine, WriteRefine, LaunchFails, queueVars
        <5> QED
          BY <5>1
      <4> QED
        BY <4>1, <4>2
    <3>2. \A v \in Versions : OutcomeOf(v)' = OutcomeOf(v)
      BY <3>1 DEF OutcomeOf
    <3> QED
      BY <1>1, <2>1, <3>2 DEF Outcome, Filled, Debits
  <2> QED
    BY <2>2, <2>3
<1>3. ASSUME NEW v \in Versions, Attempt(v) \/ Handler(v) PROVE Simulated
  BY <1>0, <1>3, AttemptMoves, HandlerMoves, MoveSimulates
<1>4. ASSUME NEW w \in Workers, NEW v \in Versions, PickUp(w, v) PROVE Simulated
  <2>1. /\ job[v] = "waiting" /\ job' = [job EXCEPT ![v] = "active"]
        /\ UNCHANGED <<run, vcontent, charged, announced>>
    BY <1>0, <1>4, PickUpHandsOut DEF storeVars
  <2>2. \A u \in Versions : OutcomeOf(u)' = OutcomeOf(u)
    BY <1>0, <2>1 DEF OutcomeOf
  <2> QED
    BY <1>1, <2>1, <2>2 DEF Outcome, Filled, Debits
<1>5. ASSUME NEW w \in Workers, Crash(w) PROVE Simulated
  BY <1>5 DEF Crash
<1>6. ASSUME NEW v \in Versions, Stalled(v) PROVE Simulated
  BY <1>0, <1>6 DEF Stalled, LostInv
<1>7. CASE UpdateArtifact \/ RemoveArtifact \/ UNCHANGED vars
  <2>1. UNCHANGED <<job, run, charged, announced>>
    BY <1>7, UserFrame
  <2>2. \A v \in Versions : SameFilled(v)
    <3>1. CASE UpdateArtifact
      <4>1. /\ vcontent' = [vcontent EXCEPT ![currentVersion] = "edited"]
            /\ vstatus[currentVersion] = "READY"
        BY <3>1 DEF UpdateArtifact, EditVersion, EditMatches
      <4> QED
        BY <1>0, <4>1 DEF ContractInv, FillInv, SameFilled
    <3>2. CASE RemoveArtifact \/ UNCHANGED vars
      BY <3>2 DEF RemoveArtifact, DeleteArtifact, vars, storeVars, SameFilled
    <3> QED
      BY <1>7, <3>1, <3>2
  <2>3. \A v \in Versions : OutcomeOf(v)' = OutcomeOf(v)
    BY <2>1 DEF OutcomeOf
  <2> QED
    BY <1>1, <2>1, <2>2, <2>3 DEF Outcome, Filled, Debits, SameFilled
<1> QED
  BY <1>2, <1>3, <1>4, <1>5, <1>6, <1>7 DEF Next

\* ArtifactRun implements RunContract when no worker dies: a run is decided
\* once, a success has filled its version, the one debit follows the success
\* and at most one terminal event tells the decision, whatever requests, edits,
\* retries and lost writes do (the launch chain, ArtifactRunProcessor.process
\* and handleTerminalFailure together).
THEOREM ContractKept == MaxCrashes = 0 /\ Spec => KeepsContract
<1> DEFINE NoCrashes == MaxCrashes = 0 /\ crashes = 0
<1>1. Init => Contract!Init
  <2> SUFFICES ASSUME Init PROVE Contract!Init
    OBVIOUS
  <2>1. \A v \in Versions : OutcomeOf(v) = "none" /\ vcontent[v] = "empty" /\ Len(charged[v]) = 0
    BY DEF Init, StoreInit, OutcomeOf
  <2>2. announced = [v \in Versions |-> <<>>]
    BY DEF Init
  <2> QED
    BY <2>1, <2>2 DEF Contract!Init
<1>2. MaxCrashes = 0 /\ Init => NoCrashes
  BY DEF Init
<1>3. NoCrashes /\ [Next]_vars => NoCrashes'
  <2> SUFFICES ASSUME MaxCrashes = 0, crashes = 0, [Next]_vars PROVE crashes' = 0
    OBVIOUS
  <2>1. ASSUME NEW c \in Clients, Request(c) PROVE crashes' = crashes
    BY <2>1 DEF Request, LaunchInitialRun, ReadForRefine, WriteRefine, CreateRun, AddArtifactRunJob,
       LaunchFails, boundVars
  <2>2. ASSUME NEW v \in Versions, Attempt(v) PROVE crashes' = crashes
    BY <2>2 DEF Attempt, StartAttempt, RefuseAttempt, DoStep, StepFails, Complete, CompleteFails,
       Commit, CommitFails, AnnounceCompleted, JobCompleted, boundVars
  <2>3. ASSUME NEW v \in Versions, Handler(v) PROVE crashes' = crashes
    BY <2>3 DEF Handler, HandlerFailVersion, HandlerFailRun, HandlerAnnounce
  <2>4. ASSUME NEW w \in Workers, Crash(w) PROVE FALSE
    BY <2>4 DEF Crash
  <2>5. CASE \/ UpdateArtifact \/ RemoveArtifact \/ UNCHANGED vars
             \/ \E w \in Workers, v \in Versions : PickUp(w, v)
             \/ \E v \in Versions : Stalled(v)
    BY <2>5 DEF UpdateArtifact, RemoveArtifact, PickUp, Stalled, boundVars, vars
  <2> QED
    BY <2>1, <2>2, <2>3, <2>4, <2>5 DEF Next
<1>4. IInv /\ ContractInv /\ NoCrashes /\ [Next]_vars => [Contract!Next]_Contract!vars
  <2> SUFFICES ASSUME IInv, ContractInv, NoCrashes, [Next]_vars
               PROVE  [Contract!Next]_Contract!vars
    OBVIOUS
  <2>1. TypeOK'
    BY Inductive DEF IInv
  <2> QED
    BY <1>3, <2>1, ContractSimulation
<1> HIDE DEF NoCrashes
<1>5. MaxCrashes = 0 /\ Spec => Contract!Init /\ [][Contract!Next]_Contract!vars
  BY <1>1, <1>2, <1>3, <1>4, ContractInvariance, PTL DEF Spec
<1> QED
  BY <1>5 DEF KeepsContract, Contract!Spec
=============================================================================
