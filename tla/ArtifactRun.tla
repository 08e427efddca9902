----------------------------- MODULE ArtifactRun -----------------------------
(***************************************************************************)
(* A generation run from the HTTP request that launches it to the write     *)
(* that settles it: the launch chain (artifact version, run record, job),   *)
(* the worker that re-runs the whole job on every attempt, the credit       *)
(* meter, the terminal-failure handler on the queue's `failed' event, the   *)
(* users who refine, edit and delete the artifact meanwhile, store faults,  *)
(* and workers that die.                                                    *)
(*                                                                          *)
(* One artifact family is modelled. A version is appended by one request    *)
(* and gets at most one run, so version v, run v and job v share the index  *)
(* v (in the code the run id is the job id and names targetVersion).        *)
(***************************************************************************)
EXTENDS ArtifactStore, Sequences

CONSTANTS
  Clients,          \* concurrent HTTP requests of the owner
  Workers,          \* worker processes, each with concurrency 1
  Document,         \* is the artifact a DOCUMENT (the run renders a PDF)?
  Research,         \* was the artifact created withResearch?
  Costs,            \* credits one metered call may come to
  Limit,            \* credits of the period
  MaxAttempts,      \* the job's `attempts' option
  MaxStalls,        \* BullMQ's maxStalledCount
  MaxFaults,        \* bound on failed store, queue or stream writes outside the steps
  MaxCrashes,       \* bound on worker crashes
  NoWorker

ASSUME RunAssumption ==
  /\ Document \in BOOLEAN /\ Research \in BOOLEAN
  /\ Costs \subseteq Nat /\ Costs # {}
  /\ Limit \in Nat
  /\ MaxAttempts \in Nat \ {0}
  /\ MaxStalls \in Nat /\ MaxFaults \in Nat /\ MaxCrashes \in Nat
  /\ NoWorker \notin Workers

VARIABLES
  req,        \* [Clients -> request in progress]
  run,        \* [Versions -> status of the run record]
  job,        \* [Versions -> state of the queue's job]
  attemptsMade, stalls,   \* [Versions -> Nat], kept by the queue on the job
  owner,      \* [Versions -> worker executing the job]
  pc,         \* [Versions -> where that execution stands]
  used,       \* [Versions -> Nat], the attempt's meter
  listener,   \* [Versions -> where the terminal-failure handler stands]
  usage,      \* credits debited in the period
  charged,    \* [Versions -> Seq(Nat)], the debits settled for a run
  announced,  \* [Versions -> Seq({"run.completed", "run.failed"})]
  faults, crashes

queueVars == <<job, attemptsMade, stalls>>
execVars  == <<owner, pc, used, listener>>
moneyVars == <<usage, charged>>
boundVars == <<faults, crashes>>
vars == <<storeVars, req, run, queueVars, execVars, moneyVars, announced,
          boundVars>>

-----------------------------------------------------------------------------
(* The step list of buildWorkflow, as the step that follows each step.      *)

StepNames == {"RESOLVE_INPUT", "RESEARCH", "GENERATE", "RENDER_PDF",
              "PERSIST_VERSION"}

\* Only the INITIAL run of a withResearch artifact has the RESEARCH step, and
\* only a DOCUMENT is rendered. The last step is followed by run.complete.
Researches(v) == Research /\ v = 1

\* Slip: the rendered document is not stored.
After_NotPersisted(v, step) ==
  CASE step = "RESOLVE_INPUT" -> IF Researches(v) THEN "RESEARCH" ELSE "GENERATE"
    [] step = "RESEARCH"      -> "GENERATE"
    [] step = "GENERATE"      -> IF Document THEN "RENDER_PDF" ELSE "PERSIST_VERSION"
    [] OTHER                  -> "complete"

After(v, step) ==
  CASE step = "RESOLVE_INPUT"   -> IF Researches(v) THEN "RESEARCH" ELSE "GENERATE"
    [] step = "RESEARCH"        -> "GENERATE"
    [] step = "GENERATE"        -> IF Document THEN "RENDER_PDF"
                                               ELSE "PERSIST_VERSION"
    [] step = "RENDER_PDF"      -> "PERSIST_VERSION"
    [] step = "PERSIST_VERSION" -> "complete"

Metered == {"RESEARCH", "GENERATE", "RENDER_PDF"}

BalanceOk == usage < Limit

-----------------------------------------------------------------------------
NoRequest == [at |-> "idle", v |-> 0]

Init ==
  /\ StoreInit
  /\ req = [c \in Clients |-> NoRequest]
  /\ run = [v \in Versions |-> "NONE"]
  /\ job = [v \in Versions |-> "none"]
  /\ attemptsMade = [v \in Versions |-> 0]
  /\ stalls = [v \in Versions |-> 0]
  /\ owner = [v \in Versions |-> NoWorker]
  /\ pc = [v \in Versions |-> "idle"]
  /\ used = [v \in Versions |-> 0]
  /\ listener = [v \in Versions |-> "none"]
  /\ usage = 0
  /\ charged = [v \in Versions |-> <<>>]
  /\ announced = [v \in Versions |-> <<>>]
  /\ faults = 0
  /\ crashes = 0

Fault == faults < MaxFaults /\ faults' = faults + 1

\* emitter.emit and flush: an event that cannot be written is dropped.
Announce(v, event) ==
  \/ announced' = [announced EXCEPT ![v] = Append(@, event)] /\ UNCHANGED faults
  \/ Fault /\ UNCHANGED announced

-----------------------------------------------------------------------------
(* The HTTP requests of artifact-generation.service.ts.                     *)

SetReq(c, at, v) == req' = [req EXCEPT ![c] = [at |-> at, v |-> v]]

\* launchInitialRun: the balance pre-check, then the artifact is created.
LaunchInitialRun(c) ==
  /\ req[c].at = "idle"
  /\ BalanceOk
  /\ CreateArtifact
  /\ SetReq(c, "appended", 1)
  /\ UNCHANGED <<run, queueVars, execVars, moneyVars, announced, boundVars>>

\* launchRefineRun up to the read in appendRefineVersion: the request now
\* holds the version number it saw.
ReadForRefine(c) ==
  /\ req[c].at = "idle"
  /\ BalanceOk
  /\ Refinable
  /\ currentVersion < MaxVersions
  /\ SetReq(c, "refining", currentVersion)
  /\ UNCHANGED <<storeVars, run, queueVars, execVars, moneyVars, announced,
                 boundVars>>

\* Its conditional write appends the version or ends in a 409.
WriteRefine(c) ==
  /\ req[c].at = "refining"
  /\ IF AppendMatches(req[c].v)
       THEN /\ AppendRefineVersion(req[c].v)
            /\ SetReq(c, "appended", req[c].v + 1)
       ELSE /\ SetReq(c, "idle", 0)
            /\ UNCHANGED storeVars
  /\ UNCHANGED <<run, queueVars, execVars, moneyVars, announced, boundVars>>

\* persistAndEnqueueRun, first await: createRun stores a RUNNING record.
CreateRun(c) ==
  /\ req[c].at = "appended"
  /\ run' = [run EXCEPT ![req[c].v] = "RUNNING"]
  /\ SetReq(c, "created", req[c].v)
  /\ UNCHANGED <<storeVars, queueVars, execVars, moneyVars, announced,
                 boundVars>>

\* Second await: the job enters the queue under the run's id.
AddArtifactRunJob(c) ==
  /\ req[c].at = "created"
  /\ job' = [job EXCEPT ![req[c].v] = "waiting"]
  /\ SetReq(c, "idle", 0)
  /\ UNCHANGED <<storeVars, run, attemptsMade, stalls, execVars, moneyVars,
                 announced, boundVars>>

\* Either await may throw: the request ends in a 500 and nothing is undone.
LaunchFails(c) ==
  /\ req[c].at \in {"appended", "created"}
  /\ Fault
  /\ SetReq(c, "idle", 0)
  /\ UNCHANGED <<storeVars, run, queueVars, execVars, moneyVars, announced,
                 crashes>>

\* updateArtifact: no post pins a version here, so nothing its write is
\* conditioned on can differ from what it read.
UpdateArtifact ==
  /\ Live
  /\ EditVersion(currentVersion, pinRevision)
  /\ UNCHANGED <<req, run, queueVars, execVars, moneyVars, announced,
                 boundVars>>

RemoveArtifact ==
  /\ DeleteArtifact
  /\ UNCHANGED <<req, run, queueVars, execVars, moneyVars, announced,
                 boundVars>>

-----------------------------------------------------------------------------
(* The queue, from how workflow.queue.ts and workflow.worker.ts use it.     *)

Busy(w) == \E v \in Versions : owner[v] = w /\ job[v] = "active"

\* The queue runs an attempt again unless the budget is spent or the error is
\* an UnrecoverableError; attemptsMade already counts the attempt that failed.
QueueRetries(made, unrecoverable) == ~unrecoverable /\ made < MaxAttempts

\* Slip: the last attempt is taken for the one before it.
IsTerminalJobFailure_OneEarly(made, unrecoverable) ==
  unrecoverable \/ made + 1 >= MaxAttempts

\* Slip: an unrecoverable error is not recognised.
IsTerminalJobFailure_BudgetOnly(made, unrecoverable) ==
  ~unrecoverable /\ made >= MaxAttempts

\* onFailed's own verdict on the same failure.
IsTerminalJobFailure(made, unrecoverable) ==
  unrecoverable \/ made >= MaxAttempts

OnFailed(v, made, unrecoverable) ==
  IF IsTerminalJobFailure(made, unrecoverable)
    THEN listener' = [listener EXCEPT ![v] = "failVersion"]
    ELSE UNCHANGED listener

\* A worker without a job takes a waiting one. A job that stalled too often
\* is failed, unrecoverably, when it is next taken, before the processor sees it.
PickUp(w, v) ==
  /\ job[v] = "waiting"
  /\ ~Busy(w)
  /\ owner' = [owner EXCEPT ![v] = w]
  /\ IF stalls[v] > MaxStalls
       THEN /\ job' = [job EXCEPT ![v] = "failed"]
            /\ OnFailed(v, attemptsMade[v], TRUE)
            /\ UNCHANGED pc
       ELSE /\ job' = [job EXCEPT ![v] = "active"]
            /\ pc' = [pc EXCEPT ![v] = "start"]
            /\ UNCHANGED listener
  /\ UNCHANGED <<storeVars, req, run, attemptsMade, stalls, used, moneyVars,
                 announced, boundVars>>

\* An attempt throws. The queue counts it, then either schedules another one
\* (whose back-off is the time the job waits) or fails the job for good, and
\* its `failed' event reaches onFailed in the worker that ran the attempt. That
\* worker is free for another job while the terminal-failure handler runs.
FailAttempt(v, unrecoverable) ==
  LET made == attemptsMade[v] + 1 IN
  /\ attemptsMade' = [attemptsMade EXCEPT ![v] = made]
  /\ pc' = [pc EXCEPT ![v] = "idle"]
  /\ IF QueueRetries(made, unrecoverable)
       THEN /\ job' = [job EXCEPT ![v] = "waiting"]
            /\ owner' = [owner EXCEPT ![v] = NoWorker]
       ELSE /\ job' = [job EXCEPT ![v] = "failed"]
            /\ UNCHANGED owner
  /\ OnFailed(v, made, unrecoverable)
  /\ UNCHANGED <<stalls, used>>

\* A worker dies with the job and the failure handler it was running; what it
\* held in memory is gone, the job stays active in the queue.
Crash(w) ==
  /\ \E v \in Versions : owner[v] = w
  /\ crashes < MaxCrashes
  /\ crashes' = crashes + 1
  /\ owner' = [v \in Versions |-> IF owner[v] = w THEN NoWorker ELSE owner[v]]
  /\ pc' = [v \in Versions |-> IF owner[v] = w THEN "idle" ELSE pc[v]]
  /\ listener' =
       [v \in Versions |-> IF owner[v] = w THEN "none" ELSE listener[v]]
  /\ UNCHANGED <<storeVars, req, run, queueVars, used, moneyVars, announced,
                 faults>>

\* The lock of an active job nobody renews expires: the job waits again.
Stalled(v) ==
  /\ job[v] = "active"
  /\ owner[v] = NoWorker
  /\ job' = [job EXCEPT ![v] = "waiting"]
  /\ stalls' = [stalls EXCEPT ![v] = @ + 1]
  /\ UNCHANGED <<storeVars, req, run, attemptsMade, execVars, moneyVars,
                 announced, boundVars>>

-----------------------------------------------------------------------------
(* One attempt: ArtifactRunProcessor.process and runWorkflow.               *)

\* The research gate and the balance guard. Both are terminal when they
\* refuse; a plan may lose research between the launch and the attempt.
StartAttempt(v) ==
  /\ pc[v] = "start"
  /\ BalanceOk
  /\ pc' = [pc EXCEPT ![v] = "RESOLVE_INPUT"]
  /\ used' = [used EXCEPT ![v] = 0]
  /\ UNCHANGED <<storeVars, req, run, queueVars, owner, listener, moneyVars,
                 announced, boundVars>>

RefuseAttempt(v) ==
  /\ pc[v] = "start"
  /\ ~BalanceOk \/ Researches(v)
  /\ FailAttempt(v, TRUE)
  /\ UNCHANGED <<storeVars, req, run, moneyVars, announced, boundVars>>

\* Is the target still the version to fill, with what a refine starts from?
InputResolves(v) ==
  /\ Live
  /\ currentVersion = v
  /\ v = 1 \/ HasPriorContent(v)

\* A step succeeds. The metered ones add to the attempt's spend, and
\* PERSIST_VERSION is the only one that writes the artifact.
DoStep(v) ==
  /\ pc[v] \in StepNames
  /\ pc[v] = "RESOLVE_INPUT" => InputResolves(v)
  /\ IF pc[v] = "PERSIST_VERSION"
       THEN SetVersionContent(v)
       ELSE UNCHANGED storeVars
  /\ IF pc[v] \in Metered
       THEN \E cost \in Costs : used' = [used EXCEPT ![v] = @ + cost]
       ELSE UNCHANGED used
  /\ pc' = [pc EXCEPT ![v] = After(v, @)]
  /\ UNCHANGED <<req, run, queueVars, owner, listener, moneyVars, announced,
                 boundVars>>

\* What a step throws ends the attempt. RESOLVE_INPUT is terminal when the
\* input does not resolve and RESEARCH, GENERATE and RENDER_PDF when the step
\* says so; everything else, a version missing at PERSIST_VERSION included, is
\* retryable.
StepFails(v) ==
  /\ pc[v] \in StepNames \cup {"start"}
  /\ \/ FailAttempt(v, FALSE)
     \/ pc[v] \in Metered /\ FailAttempt(v, TRUE)
     \/ pc[v] = "RESOLVE_INPUT" /\ ~InputResolves(v) /\ FailAttempt(v, TRUE)
  /\ UNCHANGED <<storeVars, req, run, moneyVars, announced, boundVars>>

\* run.complete: the record is COMPLETED before anything is announced.
Complete(v) ==
  /\ pc[v] = "complete"
  /\ run' = [run EXCEPT ![v] = "COMPLETED"]
  /\ pc' = [pc EXCEPT ![v] = "commit"]
  /\ UNCHANGED <<storeVars, req, queueVars, owner, used, listener, moneyVars,
                 announced, boundVars>>

CompleteFails(v) ==
  /\ pc[v] = "complete"
  /\ Fault
  /\ FailAttempt(v, FALSE)
  /\ UNCHANGED <<storeVars, req, run, moneyVars, announced, crashes>>

\* meter.commit: one debit of what the attempt used, if it used anything.
Commit(v) ==
  /\ pc[v] = "commit"
  /\ pc' = [pc EXCEPT ![v] = "announce"]
  /\ IF used[v] > 0
       THEN /\ usage' = usage + used[v]
            /\ charged' = [charged EXCEPT ![v] = Append(@, used[v])]
       ELSE UNCHANGED moneyVars
  /\ UNCHANGED <<storeVars, req, run, queueVars, owner, used, listener,
                 announced, boundVars>>

\* A debit that fails is logged and the run goes on.
CommitFails(v) ==
  /\ pc[v] = "commit"
  /\ used[v] > 0
  /\ Fault
  /\ pc' = [pc EXCEPT ![v] = "announce"]
  /\ UNCHANGED <<storeVars, req, run, queueVars, owner, used, listener,
                 moneyVars, announced, crashes>>

\* Slip: an event that cannot be written fails the attempt.
AnnounceCompleted_Throws(v) ==
  /\ pc[v] = "announce"
  /\ \/ /\ announced' = [announced EXCEPT ![v] = Append(@, "run.completed")]
        /\ pc' = [pc EXCEPT ![v] = "return"]
        /\ UNCHANGED <<queueVars, owner, used, listener>>
     \/ FailAttempt(v, FALSE) /\ UNCHANGED announced
  /\ UNCHANGED <<storeVars, req, run, moneyVars, boundVars>>

AnnounceCompleted(v) ==
  /\ pc[v] = "announce"
  /\ Announce(v, "run.completed")
  /\ pc' = [pc EXCEPT ![v] = "return"]
  /\ UNCHANGED <<storeVars, req, run, queueVars, owner, used, listener,
                 moneyVars, crashes>>

\* The processor returns and the queue removes the job (removeOnComplete).
JobCompleted(v) ==
  /\ pc[v] = "return"
  /\ job' = [job EXCEPT ![v] = "completed"]
  /\ pc' = [pc EXCEPT ![v] = "idle"]
  /\ owner' = [owner EXCEPT ![v] = NoWorker]
  /\ UNCHANGED <<storeVars, req, run, attemptsMade, stalls, used, listener,
                 moneyVars, announced, boundVars>>

-----------------------------------------------------------------------------
(* handleTerminalFailure: three isolated writes.                            *)

HandlerStep(v, at, next) ==
  /\ listener[v] = at
  /\ listener' = [listener EXCEPT ![v] = next]

\* failVersion throws on a deleted artifact, or when the write fails.
HandlerFailVersion(v) ==
  /\ HandlerStep(v, "failVersion", "failRun")
  /\ \/ FailVersion(v) /\ UNCHANGED faults
     \/ ~Live /\ UNCHANGED <<storeVars, faults>>
     \/ Fault /\ UNCHANGED storeVars
  /\ UNCHANGED <<req, run, queueVars, owner, pc, used, moneyVars, announced,
                 crashes>>

HandlerFailRun(v) ==
  /\ HandlerStep(v, "failRun", "announce")
  /\ \/ run' = [run EXCEPT ![v] = "FAILED"] /\ UNCHANGED faults
     \/ Fault /\ UNCHANGED run
  /\ UNCHANGED <<storeVars, req, queueVars, owner, pc, used, moneyVars,
                 announced, crashes>>

HandlerAnnounce(v) ==
  /\ HandlerStep(v, "announce", "none")
  /\ Announce(v, "run.failed")
  /\ owner' = [owner EXCEPT ![v] = NoWorker]
  /\ UNCHANGED <<storeVars, req, run, queueVars, pc, used, moneyVars,
                 crashes>>

-----------------------------------------------------------------------------
Request(c) ==
  \/ LaunchInitialRun(c) \/ ReadForRefine(c) \/ WriteRefine(c)
  \/ CreateRun(c) \/ AddArtifactRunJob(c) \/ LaunchFails(c)

Attempt(v) ==
  \/ StartAttempt(v) \/ RefuseAttempt(v) \/ DoStep(v) \/ StepFails(v)
  \/ Complete(v) \/ CompleteFails(v) \/ Commit(v) \/ CommitFails(v)
  \/ AnnounceCompleted(v) \/ JobCompleted(v)

Handler(v) == HandlerFailVersion(v) \/ HandlerFailRun(v) \/ HandlerAnnounce(v)

Next ==
  \/ \E c \in Clients : Request(c)
  \/ UpdateArtifact
  \/ RemoveArtifact
  \/ \E w \in Workers, v \in Versions : PickUp(w, v)
  \/ \E w \in Workers : Crash(w)
  \/ \E v \in Versions : Stalled(v) \/ Attempt(v) \/ Handler(v)

Spec == Init /\ [][Next]_vars

\* A live worker process takes jobs, runs the attempts it started and the
\* handlers of its failures, and the queue's stalled check runs on a timer. A
\* request that reached the launch chain is carried through by the server.
\* Nobody owes a launch, a refine, an edit or a delete.
Fairness ==
  /\ \A v \in Versions :
       /\ WF_vars(\E w \in Workers : PickUp(w, v))
       /\ WF_vars(Attempt(v))
       /\ WF_vars(Handler(v))
       /\ WF_vars(Stalled(v))
  /\ \A c \in Clients : WF_vars(WriteRefine(c) \/ CreateRun(c)
                                \/ AddArtifactRunJob(c) \/ LaunchFails(c))

FairSpec == Spec /\ Fairness

-----------------------------------------------------------------------------
(* Properties *)

JobStates == {"none", "waiting", "active", "failed", "completed"}
Places    == StepNames \cup {"idle", "start", "complete", "commit", "announce",
                            "return"}
TerminalEvents == {"run.completed", "run.failed"}

LaunchTypeOK ==
  /\ req \in [Clients -> [at : {"idle", "refining", "appended", "created"},
                          v : 0..MaxVersions]]
  /\ run \in [Versions -> {"NONE", "RUNNING", "COMPLETED", "FAILED"}]

QueueTypeOK ==
  /\ job \in [Versions -> JobStates]
  /\ attemptsMade \in [Versions -> Nat]
  /\ stalls \in [Versions -> Nat]

WorkerTypeOK ==
  /\ owner \in [Versions -> Workers \cup {NoWorker}]
  /\ pc \in [Versions -> Places]
  /\ used \in [Versions -> Nat]
  /\ listener \in [Versions -> {"none", "failVersion", "failRun", "announce"}]

OutcomeTypeOK ==
  /\ usage \in Nat
  /\ charged \in [Versions -> Seq(Nat)]
  /\ announced \in [Versions -> Seq(TerminalEvents)]

BoundTypeOK == faults \in Nat /\ crashes \in Nat

TypeOK ==
  /\ StoreTypeOK
  /\ LaunchTypeOK
  /\ QueueTypeOK
  /\ WorkerTypeOK
  /\ OutcomeTypeOK
  /\ BoundTypeOK

\* Only the head of the family can be generating: a refine is refused while
\* the head is GENERATING, and two concurrent refines cannot both append
\* (artifact.service.ts, appendRefineVersion).
OnlyHeadGenerates ==
  \A v \in Versions : vstatus[v] = "GENERATING" => v = currentVersion

\* A version that has left GENERATING never goes back to it, whatever requests
\* race: every version is appended once (the version number in the write's
\* condition), and a retry overwrites instead of starting over.
VersionAppendedOnce ==
  [][\A v \in Versions :
       vstatus[v] \in {"READY", "FAILED"} => vstatus'[v] # "GENERATING"]_vars

\* Once the terminal-failure handler has been started for a run, no attempt of
\* that run is executing or will execute: run.failed never races a retry
\* (isTerminalJobFailure agrees with what the queue decided).
FailureIsFinal ==
  \A v \in Versions :
    \/ listener[v] # "none"
    \/ run[v] = "FAILED"
    \/ \E i \in DOMAIN announced[v] : announced[v][i] = "run.failed"
    => job[v] = "failed" /\ pc[v] = "idle"

\* A run is debited at most once for each time the queue handed its job out
\* without having lost it: retries never add a debit, only a job re-run after
\* its worker died does (the meter's attempt-scoped reset and commit).
DebitedOncePerHandout ==
  \A v \in Versions : Len(charged[v]) <= 1 + stalls[v]

\* A run that failed was never debited, unless its job was re-run after its
\* worker died (handleTerminalFailure: "No credit commit").
FailedRunsAreFree ==
  \A v \in Versions : run[v] = "FAILED" /\ stalls[v] = 0 => charged[v] = <<>>

\* Without lost store writes and crashes, READY and FAILED are final and an
\* editor's content is never replaced by a run.
SettledVersionsStay ==
  [][faults = 0 /\ crashes = 0 =>
       \A v \in Versions :
         /\ vstatus[v] \in {"READY", "FAILED"} => vstatus'[v] = vstatus[v]
         /\ vcontent[v] = "edited" => vcontent'[v] = "edited"]_vars

\* Without lost writes every run record leaves RUNNING, and the version it fills
\* leaves GENERATING, so the family can be refined again: also when a worker
\* dies, unless the queue has given the job up and nobody is left to say so.
RunSettles ==
  \A v \in Versions :
    run[v] = "RUNNING" ~>
      \/ /\ run[v] \in {"COMPLETED", "FAILED"}
         /\ vstatus[v] # "GENERATING" \/ deletedAt
      \/ crashes > 0 /\ job[v] = "failed"

-----------------------------------------------------------------------------
(* The run as the user sees it. A run is decided by its COMPLETED record or  *)
(* by the queue giving its job up.                                          *)

OutcomeOf(v) ==
  IF job[v] = "failed" THEN "failed"
  ELSE CASE run[v] = "NONE"      -> "none"
         [] run[v] = "COMPLETED" -> "succeeded"
         [] OTHER                -> "running"

Contract == INSTANCE RunContract WITH
  Runs    <- Versions,
  outcome <- [v \in Versions |-> OutcomeOf(v)],
  filled  <- [v \in Versions |-> vcontent[v] # "empty"],
  debits  <- [v \in Versions |-> Len(charged[v])],
  told    <- announced

\* As long as no worker dies, the launch chain, the queue, the engine and the
\* failure handler together keep the contract of RunContract.
KeepsContract == Contract!Spec

=============================================================================
