------------------------------- MODULE AgentRun -------------------------------
(***************************************************************************)
(* What generation runs of one user spend. Inside an attempt: the research   *)
(* loop with its waves of parallel searches and its tools-free last turn,    *)
(* the draft and its one repair, the rendering of a document, each metered   *)
(* as it happens. Across runs: the balance each attempt checks and the debit *)
(* of the attempt that wins. The launch chain, the queue and the records are *)
(* in ArtifactRun.                                                           *)
(*                                                                           *)
(* Conversations, queries and contents are left out; a completion costs a    *)
(* member of Costs, in units of which UnitsPerCredit make a credit.          *)
(***************************************************************************)
EXTENDS Naturals, FiniteSets, FiniteSetsExt

CONSTANTS
  Runs,             \* jobs under way at once
  MaxSteps,         \* RESEARCH_MAX_STEPS
  SearchCap,        \* RESEARCH_MAX_SUCCESSFUL_SEARCHES
  MaxCallsPerTurn,  \* bound on the tool calls of a turn
  Costs,            \* what a completion costs; 0: the provider does not say
  UnitsPerCredit,   \* from CREDITS_PER_USD and CREDIT_MARKUP
  TokenCredits,     \* what the tokens of a completion are priced at
  SearchCredits,    \* CREDIT_SURCHARGE_WEB_SEARCH
  RenderUnits,      \* what Browserless may report
  RenderCredits, MinRenderCredits,
  Limit,            \* limits.credits of the tier
  JobAttempts,      \* attempts of a job
  MaxAgentFaults    \* bound on failures, deaths and changes of the billing period

\* The number of output tokens bounds a completion, the timeout a rendering; all
\* prices may be 0, and no tier is without credits.
ASSUME AgentAssumption ==
  /\ IsFiniteSet(Runs)
  /\ SearchCap \in Nat \ {0} /\ MaxSteps \in Nat \ {0} /\ MaxCallsPerTurn \in Nat
  /\ Costs \subseteq Nat /\ IsFiniteSet(Costs) /\ Costs # {}
  /\ RenderUnits \subseteq Nat /\ IsFiniteSet(RenderUnits) /\ RenderUnits # {}
  /\ UnitsPerCredit \in Nat \ {0} /\ TokenCredits \in Nat /\ SearchCredits \in Nat
  /\ RenderCredits \in Nat /\ MinRenderCredits \in Nat
  /\ Limit \in Nat \ {0}
  /\ JobAttempts \in Nat /\ MaxAgentFaults \in Nat

VARIABLES
  job,        \* [Runs -> where the run is, and the locals of its attempt]
  credits,    \* [Runs -> RunCreditMeter.used]
  usage,      \* credits of the billing period
  got,        \* [Runs -> history: what providers gave this attempt]
  agentFaults

agentVars == <<job, credits, usage, got, agentFaults>>

Plan    == [research : BOOLEAN, document : BOOLEAN]
Phases  == {"turn", "tools", "final", "draft", "repair", "render", "commit"}
\* step: turns taken; pending: calls not tried; flying: calls of the wave
\* under way; won: those of them that succeeded; found: successes before it.
NoCalls == [step |-> 0, pending |-> 0, flying |-> 0, won |-> 0, found |-> 0]
Locals  == [step : Nat, pending : Nat, flying : Nat, won : Nat, found : Nat]
NoJob   == [at |-> "none", plan |-> [research |-> FALSE, document |-> FALSE],
            tries |-> 0, loop |-> NoCalls]
NotYet  == [turns |-> [c \in Costs |-> 0], searches |-> 0, units |-> 0]

AgentInit ==
  /\ job = [r \in Runs |-> NoJob]
  /\ credits = [r \in Runs |-> 0]
  /\ usage = 0
  /\ got = [r \in Runs |-> NotYet]
  /\ agentFaults = 0

AgentFault == agentFaults < MaxAgentFaults /\ agentFaults' = agentFaults + 1
-----------------------------------------------------------------------------
(* The meter *)

ToWholeCredits(units) == (units + UnitsPerCredit - 1) \div UnitsPerCredit

LlmCredits(cost) == IF cost > 0 THEN ToWholeCredits(cost) ELSE TokenCredits

PdfCredits(units) ==
  IF units = 0 THEN 0
  ELSE IF units * RenderCredits > MinRenderCredits THEN units * RenderCredits
  ELSE MinRenderCredits

Record(r, n) == credits' = [credits EXCEPT ![r] = @ + n]

\* A completion is billed when it comes back and is given to history.
Completion(r, c) ==
  /\ Record(r, LlmCredits(c))
  /\ got' = [got EXCEPT ![r].turns[c] = @ + 1]

HasBalance_AtLimit == usage <= Limit
HasBalance == usage < Limit

MoveTo(r, at, loop) == job' = [job EXCEPT ![r] = [job[r] EXCEPT !.at = at, !.loop = loop]]
Goto(r, at)     == MoveTo(r, at, job[r].loop)

\* The job is over, and the meter and the history of its attempt go with it.
Finish(r) ==
  /\ job' = [job EXCEPT ![r] = NoJob]
  /\ credits' = [credits EXCEPT ![r] = 0]
  /\ got' = [got EXCEPT ![r] = NotYet]
-----------------------------------------------------------------------------
(* The job and its attempts *)

Launch(r, plan) ==
  /\ job[r] = NoJob /\ HasBalance
  /\ job' = [job EXCEPT ![r] = [NoJob EXCEPT !.at = "queued", !.plan = plan]]
  /\ UNCHANGED <<credits, usage, got, agentFaults>>

MeterAtStart_Kept(r) == UNCHANGED credits
MeterAtStart(r) == credits' = [credits EXCEPT ![r] = 0]

\* runWorkflow: the balance is checked and the meter reset, then the steps of
\* the plan begin; exhaustion is terminal.
StartRun(r) ==
  /\ job[r].at = "queued"
  /\ IF HasBalance
       THEN /\ MeterAtStart(r)
            /\ got' = [got EXCEPT ![r] = NotYet]
            /\ MoveTo(r, IF job[r].plan.research THEN "turn" ELSE "draft", NoCalls)
       ELSE Finish(r)
  /\ UNCHANGED <<usage, agentFaults>>

\* What a call of the provider ends in besides an answer: a 408, 429 or 5xx;
\* another status; no verdict at all; an abort.
SendFailures == {"busy", "refused", "unreachable", "aborted"}
\* Arguments of a tool call that do not parse, which fail the turn unbilled.
ToolTurnFailures == SendFailures \cup {"garbled"}
\* No text where there are no tools.
TextFailures == SendFailures \cup {"empty"}
\* The deck cannot be assembled; Browserless fails; the upload fails.
RenderFailures == {"assembly", "browserless", "upload"}

\* toLLMError's verdict, and renderPdfStep's.
Retryable(f) == f \in {"busy", "unreachable", "garbled", "browserless", "upload"}

FailuresAt(at) ==
  CASE at = "turn" -> ToolTurnFailures
    [] at \in {"final", "draft", "repair"} -> TextFailures
    [] at = "render" -> RenderFailures
    \* The balance cannot be read, the write is refused, the artifact is gone.
    [] at \in {"queued", "commit"} -> {"unreachable", "refused"}
    [] OTHER -> {}

\* A step, or the check before them, throws: the job is tried again if the
\* failure is worth a replay. Nothing of it is billed.
AttemptFails(r, f) ==
  /\ f \in FailuresAt(job[r].at) /\ AgentFault
  /\ IF Retryable(f) /\ job[r].tries + 1 < JobAttempts
       THEN /\ job' = [job EXCEPT ![r] =
                 [job[r] EXCEPT !.at = "queued", !.tries = job[r].tries + 1]]
            /\ UNCHANGED <<credits, got>>
       ELSE Finish(r)
  /\ UNCHANGED usage

\* The worker dies and the stalled job is handed out again.
AgentDies(r) ==
  /\ job[r].at \in Phases /\ AgentFault
  /\ Goto(r, "queued")
  /\ UNCHANGED <<credits, usage, got>>
-----------------------------------------------------------------------------
(* AgentRunner.run, called by RESEARCH *)

\* completeWithTools: no calls is the answer.
TakeTurn(r, c, calls) ==
  /\ job[r].at = "turn"
  /\ Completion(r, c)
  /\ IF calls = 0 THEN Goto(r, "draft")
     ELSE MoveTo(r, "tools", [job[r].loop EXCEPT !.pending = calls])
  /\ UNCHANGED <<usage, agentFaults>>

BatchSize(l) ==
  IF l.pending < SearchCap - l.found THEN l.pending ELSE SearchCap - l.found

\* The next wave of searches, no larger than the successes still allowed.
RunWave(r) ==
  LET l == job[r].loop IN
  /\ job[r].at = "tools" /\ l.flying = 0
  /\ l.pending > 0 /\ l.found < SearchCap
  /\ MoveTo(r, "tools", [l EXCEPT !.flying = BatchSize(l), !.pending = l.pending - BatchSize(l)])
  /\ UNCHANGED <<credits, usage, got, agentFaults>>

SurchargeOf(ok) == IF ok THEN SearchCredits ELSE 0

\* executeTool: one search of the wave comes back, in any order. A failure is
\* an answer like another one and is not billed. The successes are added up
\* when the whole wave is back.
SearchReturns(r, ok) ==
  LET l   == job[r].loop
      won == l.won + IF ok THEN 1 ELSE 0 IN
  /\ job[r].at = "tools" /\ l.flying > 0
  /\ Record(r, SurchargeOf(ok))
  /\ got' = [got EXCEPT ![r].searches = @ + IF ok THEN 1 ELSE 0]
  /\ MoveTo(r, "tools",
        IF l.flying > 1 THEN [l EXCEPT !.flying = l.flying - 1, !.won = won]
        ELSE [l EXCEPT !.flying = 0, !.won = 0, !.found = l.found + won])
  /\ UNCHANGED <<usage, agentFaults>>

LastStep(step) == step >= MaxSteps

\* The calls left are answered with an error and the turn is over: another one,
\* or the last one without tools.
EndTurn(r) ==
  LET l    == job[r].loop
      step == l.step + 1 IN
  /\ job[r].at = "tools" /\ l.flying = 0
  /\ l.pending = 0 \/ l.found >= SearchCap
  /\ MoveTo(r, IF LastStep(step) THEN "final" ELSE "turn",
        [l EXCEPT !.step = step, !.pending = 0])
  /\ UNCHANGED <<credits, usage, got, agentFaults>>

FinalTurn(r, c) ==
  /\ job[r].at = "final"
  /\ Completion(r, c)
  /\ Goto(r, "draft")
  /\ UNCHANGED <<usage, agentFaults>>
-----------------------------------------------------------------------------
(* AgentRunner.generate, called by GENERATE *)

NextStep(r) == IF job[r].plan.document THEN "render" ELSE "commit"

Draft(r, c, valid) ==
  /\ job[r].at = "draft"
  /\ Completion(r, c)
  /\ Goto(r, IF valid THEN NextStep(r) ELSE "repair")
  /\ UNCHANGED <<usage, agentFaults>>

\* A repair that fails too is a ContentValidationError, which is terminal.
Repair(r, c, valid) ==
  /\ job[r].at = "repair"
  /\ IF valid THEN Completion(r, c) /\ Goto(r, NextStep(r)) ELSE Finish(r)
  /\ UNCHANGED <<usage, agentFaults>>
-----------------------------------------------------------------------------
(* RENDER_PDF, PERSIST_VERSION and the end *)

RenderPdf(r, units) ==
  /\ job[r].at = "render"
  /\ Record(r, PdfCredits(units))
  /\ got' = [got EXCEPT ![r].units = units]
  /\ Goto(r, "commit")
  /\ UNCHANGED <<usage, agentFaults>>

\* The debit, which may fail without failing the run; a worker that dies
\* before the queue knows makes the run start again.
CommitRun(r) ==
  /\ job[r].at = "commit"
  /\ \/ usage' = usage + credits[r] /\ Finish(r) /\ UNCHANGED agentFaults
     \/ /\ AgentFault
        /\ \/ Finish(r) /\ UNCHANGED usage
           \/ /\ Goto(r, "queued") /\ usage' = usage + credits[r]
              /\ UNCHANGED <<credits, got>>

\* Another billing period begins: its counter is a document of its own.
Renew ==
  /\ AgentFault
  /\ usage' = 0
  /\ UNCHANGED <<job, credits, got>>

AgentNext ==
  \/ \E r \in Runs :
       \/ \E plan \in Plan : Launch(r, plan)
       \/ StartRun(r) \/ AgentDies(r)
       \/ \E f \in ToolTurnFailures \cup TextFailures \cup RenderFailures : AttemptFails(r, f)
       \/ \E c \in Costs :
            \/ \E n \in 0..MaxCallsPerTurn : TakeTurn(r, c, n)
            \/ FinalTurn(r, c)
            \/ \E valid \in BOOLEAN : Draft(r, c, valid) \/ Repair(r, c, valid)
       \/ RunWave(r) \/ EndTurn(r)
       \/ \E ok \in BOOLEAN : SearchReturns(r, ok)
       \/ \E units \in RenderUnits : RenderPdf(r, units)
       \/ CommitRun(r)
  \/ Renew

AgentSpec == AgentInit /\ [][AgentNext]_agentVars
-----------------------------------------------------------------------------
(* Properties *)

AgentTypeOK ==
  /\ job \in [Runs -> [at : {"none", "queued"} \cup Phases, plan : Plan, tries : Nat,
                       loop : Locals]]
  /\ credits \in [Runs -> Nat]
  /\ usage \in Nat
  /\ got \in [Runs -> [turns : [Costs -> Nat], searches : Nat, units : RenderUnits \cup {0}]]
  /\ agentFaults \in Nat

\* The meter of an attempt shows what providers gave to this attempt: every
\* completion, repairs and last turns included, each search with results, none
\* that failed, and nothing of an attempt before it.
BilledAsUsed ==
  \A r \in Runs :
    job[r].at \in Phases =>
      credits[r] = SumFunction([c \in Costs |-> got[r].turns[c] * LlmCredits(c)])
                     + got[r].searches * SearchCredits + PdfCredits(got[r].units)

\* maxSteps + 1 turns of research, a draft and a repair, the searches, a PDF.
MaxRunCredits ==
  (MaxSteps + 3) * Max({LlmCredits(c) : c \in Costs}) + SearchCap * SearchCredits
    + Max({PdfCredits(u) : u \in RenderUnits})

\* The balance is checked and not reserved: each attempt under way can take a user
\* beyond the limit, by no more than the caps let one run spend, and the next
\* run's check catches it (feature-gating.service.ts, at assertBalance).
OvershootBounded ==
  usage < Limit + Cardinality({r \in Runs : job[r].at \notin Phases}) * MaxRunCredits
=============================================================================
