---------------------------- MODULE FeatureGating ----------------------------
(***************************************************************************)
(* What one user may do: the checks of feature-gating.service.ts, the        *)
(* counters they compare with the limits of the tier, and the dashboard that *)
(* shows both. A check reads the subscription twice, first for the tier and  *)
(* then for the usage period, and the counter after that, while webhooks     *)
(* rewrite the subscription and periods end between the reads.               *)
(*                                                                           *)
(* How the webhooks come to write a record is in Billing, whose sub and now  *)
(* move freely here. Calendar months turn over with the billing periods.     *)
(***************************************************************************)
EXTENDS Billing, Integers

CONSTANTS
  Checks,          \* requests under way at once
  CreditsFree, CreditsPaid,
  MaxChecks        \* bound on the requests made

\* A limit is a number, or Unlimited.
ASSUME GatingAssumption == {CreditsFree, CreditsPaid} \subseteq Nat \cup {-1} /\ MaxChecks \in Nat

VARIABLES
  spent,       \* [Counters -> [UsagePeriods -> Nat]], the Usage documents
  check,       \* [Checks -> what the request is doing and has read]
  overtaken,   \* history: requests whose subscription or period moved on
  checkCalls

gatingVars == <<spent, check, overtaken, checkCalls>>

Counters  == {"credits", "scheduled_posts"}
Sources   == {"default", "subscription"}
\* A Usage document is filed under the start of its period.
UsagePeriods == [source : Sources, start : 1..MaxPeriods]
Unlimited == -1

\* The default tier and a paid one (Pro Writer), whose posts are unlimited.
FreeLimits == [credits |-> CreditsFree, research |-> 0,
               connected_accounts |-> 1, scheduled_posts |-> 1]
PaidLimits == [credits |-> CreditsPaid, research |-> 1,
               connected_accounts |-> 5, scheduled_posts |-> Unlimited]
GetLimitFromTier(tier, feature) ==
  IF tier = Free THEN FreeLimits[feature] ELSE PaidLimits[feature]

Gated     == {"research", "pages"} \cup Counters
AtNone    == [source |-> "default", start |-> 1]
NoCheck   == [at |-> "idle", what |-> "research", tier |-> Free, period |-> AtNone,
              used |-> [c \in Counters |-> 0]]

GatingInit ==
  /\ spent = [c \in Counters |-> [p \in UsagePeriods |-> 0]]
  /\ check = [q \in Checks |-> NoCheck]
  /\ overtaken = {} /\ checkCalls = 0
-----------------------------------------------------------------------------
(* Reads *)

ResolveUsagePeriod_WhileActive ==
  IF sub # NoSub /\ sub.status = "active" /\ sub.period >= now
    THEN [source |-> "subscription", start |-> sub.period]
    ELSE [source |-> "default", start |-> now]
ResolveUsagePeriod ==
  IF Current THEN [source |-> "subscription", start |-> sub.period]
             ELSE [source |-> "default", start |-> now]

HasHeadroom(limit, used) == limit = Unlimited \/ used < limit
CalculateRemaining(limit, used) == IF used < limit THEN limit - used ELSE 0
\* Of the counters only credits know of no limit on the dashboard.
Remaining(c, limit, used) ==
  IF c = "credits" /\ limit = Unlimited THEN Unlimited ELSE CalculateRemaining(limit, used)
-----------------------------------------------------------------------------
(* The requests *)

Ask(q, at, what, tier) ==
  /\ check[q] = NoCheck /\ checkCalls < MaxChecks
  /\ checkCalls' = checkCalls + 1
  /\ check' = [check EXCEPT ![q] = [NoCheck EXCEPT !.at = at, !.what = what, !.tier = tier]]
  /\ UNCHANGED <<spent, overtaken>>

\* A capability needs the tier alone.
AssertResearchAccess(q)     == Ask(q, "answered", "research", ResolveEntitlement)
AssertCompanyPagesAccess(q) == Ask(q, "answered", "pages", ResolveEntitlement)

\* assertBalance and assertScheduledPostQuota: no limit is the end of it.
AssertHeadroom(q, c) ==
  LET tier == ResolveEntitlement IN
  Ask(q, IF GetLimitFromTier(tier, c) = Unlimited THEN "answered" ELSE "period", c, tier)

GetDashboardUsage(q) == Ask(q, "period", "dashboard", ResolveEntitlement)

\* debit and incrementScheduledPostUsage look up the period only.
Count(q, c) == Ask(q, "counting", c, Free)

ReadsPeriod(q) ==
  /\ check[q].at \in {"period", "counting"}
  /\ check' = [check EXCEPT ![q] = [@ EXCEPT !.period = ResolveUsagePeriod,
       !.at = IF check[q].at = "period" THEN "reading" ELSE "adding"]]
  /\ UNCHANGED <<spent, overtaken, checkCalls>>

\* getUsageCount, or getUsageCountsForFeatures for the dashboard
ReadsUsage(q) ==
  /\ check[q].at = "reading"
  /\ check' = [check EXCEPT ![q] = [@ EXCEPT !.at = "answered",
       !.used = [c \in Counters |->
          IF check[q].what \in {c, "dashboard"} THEN spent[c][check[q].period] ELSE 0]]]
  /\ UNCHANGED <<spent, overtaken, checkCalls>>

\* The upsert, or the plain increment after it lost a race to insert.
Adds(q) ==
  /\ check[q].at = "adding"
  /\ spent' = [spent EXCEPT ![check[q].what][check[q].period] = @ + 1]
  /\ check' = [check EXCEPT ![q] = NoCheck]
  /\ overtaken' = overtaken \ {q}
  /\ UNCHANGED checkCalls

Answers(q) ==
  /\ check[q].at = "answered"
  /\ check' = [check EXCEPT ![q] = NoCheck]
  /\ overtaken' = overtaken \ {q}
  /\ UNCHANGED <<spent, checkCalls>>
-----------------------------------------------------------------------------
Meanwhile == {q \in Checks : check[q] # NoCheck}

\* A webhook or a cancellation rewrites the subscription, or a period ends.
SubscriptionMoves ==
  /\ \/ /\ \E s \in Status, plan \in Plans, p \in 1..now :
             sub' = [status |-> s, tier |-> plan, cancel |-> FALSE, period |-> p]
        /\ sub' # sub /\ UNCHANGED now
     \/ /\ now < MaxPeriods /\ now' = now + 1 /\ UNCHANGED sub
  /\ overtaken' = Meanwhile
  /\ UNCHANGED <<spent, check, checkCalls>>

GatingNext ==
  \/ /\ \E q \in Checks :
          \/ AssertResearchAccess(q) \/ AssertCompanyPagesAccess(q) \/ GetDashboardUsage(q)
          \/ \E c \in Counters : AssertHeadroom(q, c) \/ Count(q, c)
          \/ ReadsPeriod(q) \/ ReadsUsage(q) \/ Adds(q) \/ Answers(q)
     /\ UNCHANGED <<sub, now>>
  \/ SubscriptionMoves

GatingSpec == BillingInit /\ GatingInit /\ [][GatingNext]_<<sub, now, gatingVars>>
-----------------------------------------------------------------------------
(* Properties *)

GatingTypeOK ==
  /\ spent \in [Counters -> [UsagePeriods -> Nat]]
  /\ check \in [Checks -> [at : {"idle", "period", "counting", "reading", "adding", "answered"},
                           what : Gated \cup {"dashboard"}, tier : Plans \cup {Free},
                           period : UsagePeriods, used : [Counters -> Nat]]]
  /\ overtaken \subseteq Checks /\ checkCalls \in 0..MaxChecks

\* A check or a dashboard whose subscription did not move while it read it says
\* what the plan page says, of the period the next debit is counted in, with
\* nothing that was not spent; and the dashboard shows something left exactly
\* where the check passes, but for unlimited posts, of which it shows none left.
AnswersAgree ==
  \A q \in Checks \ overtaken :
    LET r == check[q]
        LimitOf(c) == GetLimitFromTier(r.tier, c) IN
    r.at = "answered" =>
      /\ r.tier = GetBillingSummary.tier
      /\ r.what = "dashboard" => (r.tier = Free) = (r.period.source = "default")
      /\ \A c \in Counters : r.what \in {c, "dashboard"} /\ LimitOf(c) # Unlimited =>
           /\ r.period = ResolveUsagePeriod
           /\ r.used[c] <= spent[c][r.period]
           /\ HasHeadroom(LimitOf(c), r.used[c]) = (Remaining(c, LimitOf(c), r.used[c]) # 0)
==============================================================================
