----------------------------- MODULE MCServices -----------------------------
(***************************************************************************)
(* The services around generation and publishing, on small instances in one *)
(* run. No step of one moves another here, so a behaviour of all of them is  *)
(* an interleaving of one behaviour of each, and what is invariant of a      *)
(* component alone is invariant of all: one of them moves, the others rest.  *)
(***************************************************************************)
EXTENDS UserProvisioning, LinkedinAccounts, FeatureGating, AgentRun, TLC

CONSTANTS r1, r2, u1, u2, m1, m2, o1, o2, g1

VARIABLE part   \* the service that moves

vars == <<userVars, accountVars, billingVars, gatingVars, agentVars, part>>

\* The same model values stand for requests and runs, for users and e-mails,
\* for members, Clerk identities and plans.
Interchangeable == Permutations({r1, r2}) \cup Permutations({u1, u2})
                     \cup Permutations({m1, m2})

Init ==
  /\ part \in {"users", "accounts", "billing", "gating", "runs"}
  /\ UsersInit /\ AccountsInit /\ BillingInit /\ GatingInit /\ AgentInit
  \* One initial state of the services that rest.
  /\ part # "users" => indexes = DesiredIndexes /\ \A i \in Identities : emailOf[i] = NoEmail

\* Of billing, the checks see the subscription and the period only.
Webhooks == <<paddle, events, answered, dedupe, hook, customer, cancelling, historyVars,
              hookFaults>>

Next ==
  /\ UNCHANGED part
  /\ \/ /\ part = "users" /\ UsersNext
        /\ UNCHANGED <<accountVars, billingVars, gatingVars, agentVars>>
     \/ /\ part = "accounts" /\ AccountsNext
        /\ UNCHANGED <<userVars, billingVars, gatingVars, agentVars>>
     \/ /\ part = "billing" /\ BillingNext
        /\ UNCHANGED <<userVars, accountVars, gatingVars, agentVars>>
     \/ /\ part = "gating" /\ GatingNext
        /\ UNCHANGED <<userVars, accountVars, Webhooks, agentVars>>
     \/ /\ part = "runs" /\ AgentNext
        /\ UNCHANGED <<userVars, accountVars, billingVars, gatingVars>>

Spec == Init /\ [][Next]_vars

\* Of what rests, the initial state is typed too: it is one of every service.
TypeOK ==
  CASE part = "users"    -> UsersTypeOK
    [] part = "accounts" -> AccountsTypeOK
    [] part = "billing"  -> BillingTypeOK
    [] part = "gating"   -> GatingTypeOK /\ BillingTypeOK
    [] part = "runs"     -> AgentTypeOK
=============================================================================
