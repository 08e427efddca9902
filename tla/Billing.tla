------------------------------- MODULE Billing -------------------------------
(***************************************************************************)
(* What one user pays for, at Paddle and here. Paddle changes the            *)
(* subscription and reports each change as a webhook event, delivered until  *)
(* it is answered with a success, possibly late and possibly twice at once;  *)
(* payment.service.ts files the event id in Redis, processes the event and   *)
(* takes the id out again when that failed. Cancelling asks Paddle first and *)
(* marks the record afterwards.                                              *)
(*                                                                           *)
(* An event is its snapshot of the subscription; prices stand for tiers, and *)
(* billing periods are numbered.                                             *)
(***************************************************************************)
EXTENDS Naturals, Sequences, FiniteSets

CONSTANTS
  Plans, Free,     \* the paid tiers and the default one
  Handlers,        \* webhook requests under way at once
  MaxEvents,       \* bound on the events Paddle reports
  MaxPeriods,      \* bound on the billing periods
  MaxHookFaults    \* bound on failures, timeouts and deaths

\* Only paid tiers have a price at Paddle (tier-seeds.ts).
ASSUME BillingAssumption ==
  /\ Free \notin Plans
  /\ MaxEvents \in Nat /\ MaxHookFaults \in Nat
  /\ MaxPeriods \in Nat \ {0}

PaddleState == {"none", "active", "past_due", "paused", "canceled"}
EventType   == {"subscription", "transaction", "other"}
Status      == {"active", "past_due", "canceled", "expired"}

VARIABLES
  paddle,       \* the subscription at Paddle
  now,          \* the current billing period
  events,       \* what Paddle has reported; an event's id is its index
  answered,     \* events Paddle got a success for
  dedupe,       \* event ids filed in Redis
  hook,         \* [Handlers -> what the webhook request is doing]
  sub,          \* the Subscription document, or NoSub
  customer,     \* is the Paddle customer id stored?
  cancelling,   \* what the request to cancel is doing
  applied,      \* history: events that reached the record
  lost,         \* history: events whose processing nobody will repeat
  late,         \* history: has something older overwritten the record?
  hookFaults

historyVars == <<applied, lost, late>>
billingVars == <<paddle, now, events, answered, dedupe, hook, sub, customer,
                 cancelling, historyVars, hookFaults>>

NoSub   == [status |-> "none"]
Waiting == [at |-> "idle", e |-> 0]

BillingInit ==
  /\ paddle = [state |-> "none", plan |-> Free, cancels |-> FALSE, period |-> 1]
  /\ now = 1 /\ events = <<>> /\ answered = {} /\ dedupe = {}
  /\ hook = [h \in Handlers |-> Waiting]
  /\ sub = NoSub /\ customer = FALSE /\ cancelling = "idle"
  /\ applied = {} /\ lost = {} /\ late = FALSE
  /\ hookFaults = 0

HookFault == hookFaults < MaxHookFaults /\ hookFaults' = hookFaults + 1
-----------------------------------------------------------------------------
(* Paddle *)

Report(type, p) == Append(events, [type |-> type, of |-> p])
CanReport(n)    == Len(events) + n <= MaxEvents

PaddleMoves(p, reports) ==
  /\ paddle' = p
  /\ events' = reports
  /\ UNCHANGED <<answered, hook, sub, customer, historyVars, hookFaults>>

\* The checkout opened with createCheckoutSession is paid: Paddle reports the
\* subscription and the payment. It tells of other things too.
Subscribe(plan) ==
  LET p == [state |-> "active", plan |-> plan, cancels |-> FALSE, period |-> now] IN
  /\ paddle.state \in {"none", "canceled"} /\ CanReport(2)
  /\ \E second \in {"transaction", "other"} :
       PaddleMoves(p, Append(Report("subscription", p), [type |-> second, of |-> p]))
  /\ UNCHANGED <<now, dedupe, cancelling>>

\* The customer portal, a failed payment, or Paddle itself.
ChangeAtPaddle(state, plan) ==
  LET p == [paddle EXCEPT !.state = state, !.plan = plan,
                          !.cancels = @ /\ state # "canceled"] IN
  /\ paddle.state \notin {"none", "canceled"} /\ p # paddle /\ CanReport(1)
  /\ PaddleMoves(p, Report("subscription", p))
  /\ UNCHANGED <<now, dedupe, cancelling>>

\* A period ends, long after its events were settled and their keys expired.
PeriodEnds ==
  LET goes == paddle.state \in {"active", "past_due"} /\ ~paddle.cancels
      p == IF goes THEN [paddle EXCEPT !.state = "active", !.period = now + 1]
                   ELSE [paddle EXCEPT !.state = "canceled", !.cancels = FALSE] IN
  /\ now < MaxPeriods /\ CanReport(1)
  /\ paddle.state # "none" /\ answered = DOMAIN events
  /\ \A h \in Handlers : hook[h] = Waiting
  /\ cancelling = "idle"
  /\ now' = now + 1
  /\ dedupe' = {}
  /\ PaddleMoves(p, Report("subscription", p))
  /\ UNCHANGED cancelling
-----------------------------------------------------------------------------
(* handlePaddleWebhook *)

Step(h, at) == hook' = [hook EXCEPT ![h].at = at]
Rest(h)     == hook' = [hook EXCEPT ![h] = Waiting]
Processing(e) == \E h \in Handlers : hook[h].e = e

\* storeWebhookTypeIfNew and what follows from its answer: a duplicate and an
\* event of another type are answered at once. Paddle delivers an event again
\* before it has an answer when the first delivery timed out.
HandlePaddleWebhook(h, e) ==
  /\ hook[h] = Waiting /\ e \notin answered
  /\ IF Processing(e) THEN HookFault ELSE UNCHANGED hookFaults
  /\ dedupe' = dedupe \cup {e}
  /\ IF e \in dedupe \/ events[e].type = "other"
       THEN answered' = answered \cup {e} /\ UNCHANGED hook
       ELSE hook' = [hook EXCEPT ![h] = [at |-> "customer", e |-> e]] /\ UNCHANGED answered
  /\ UNCHANGED <<paddle, now, events, sub, customer, cancelling, historyVars>>

Succeed(h) == Rest(h) /\ answered' = answered \cup {hook[h].e}

UpsertCustomer(h) ==
  /\ hook[h].at = "customer"
  /\ customer' = TRUE
  /\ IF events[hook[h].e].type = "transaction"
       THEN Succeed(h)
       ELSE Step(h, "subscription") /\ UNCHANGED answered
  /\ UNCHANGED <<paddle, now, events, dedupe, sub, cancelling, historyVars, hookFaults>>

MapPaddleStatus_AsTold(state) == state
MapPaddleStatus_PaysInTime(state) == IF state \in {"active", "canceled"} THEN state ELSE "expired"
MapPaddleStatus(state) ==
  IF state \in {"active", "past_due", "canceled"} THEN state ELSE "expired"

\* The record an event describes; no date is compared.
Described(p) == [status |-> MapPaddleStatus(p.state), tier |-> p.plan,
                 cancel |-> p.cancels, period |-> p.period]

SyncSubscription(h) ==
  LET e == hook[h].e IN
  /\ hook[h].at = "subscription"
  /\ sub' = Described(events[e].of)
  /\ applied' = applied \cup {e}
  /\ late' = (late \/ \E d \in applied : d > e)
  /\ Succeed(h)
  /\ UNCHANGED <<paddle, now, events, dedupe, customer, cancelling, lost, hookFaults>>

\* A write failed or the price is on no tier: the catch block comes next.
SyncFails(h) ==
  /\ hook[h].at \in {"customer", "subscription"} /\ HookFault
  /\ Step(h, "failing")
  /\ UNCHANGED <<paddle, now, events, answered, dedupe, sub, customer, cancelling,
                 historyVars>>

KeyAfter_Kept(e) == dedupe
KeyAfter(e) == dedupe \ {e}

\* del(key).catch(() => {}), then 500: Paddle comes again, unless a delivery
\* that overlapped this one has been answered as a duplicate. When the delete
\* fails the key stays, and the next delivery will be taken for a duplicate.
RemoveKey(h) ==
  LET e == hook[h].e IN
  /\ hook[h].at = "failing"
  /\ \/ /\ dedupe' = KeyAfter(e)
        /\ lost' = lost \cup ({e} \cap answered)
        /\ UNCHANGED hookFaults
     \/ /\ HookFault
        /\ lost' = lost \cup {e}
        /\ UNCHANGED dedupe
  /\ Rest(h)
  /\ UNCHANGED <<paddle, now, events, answered, sub, customer, cancelling, applied, late>>

\* The process dies with the key filed and the event half processed.
HookDies(h) ==
  /\ hook[h] # Waiting /\ HookFault
  /\ lost' = lost \cup {hook[h].e}
  /\ Rest(h)
  /\ UNCHANGED <<paddle, now, events, answered, dedupe, sub, customer, cancelling,
                 applied, late>>
-----------------------------------------------------------------------------
(* cancelSubscription *)

CancelSubscription ==
  /\ cancelling = "idle"
  /\ sub # NoSub /\ ~sub.cancel /\ sub.status \notin {"canceled", "expired"}
  /\ cancelling' = "asking"
  /\ UNCHANGED <<paddle, now, events, answered, dedupe, hook, sub, customer,
                 historyVars, hookFaults>>

PaddleSchedulesCancel ==
  /\ cancelling = "asking"
  /\ \/ /\ paddle.state # "canceled" /\ CanReport(1)
        /\ cancelling' = "marking"
        /\ LET p == [paddle EXCEPT !.cancels = TRUE] IN
             PaddleMoves(p, Report("subscription", p))
     \/ cancelling' = "idle" /\ PaddleMoves(paddle, events)
  /\ UNCHANGED <<now, dedupe>>

MarkCanceled ==
  /\ cancelling = "marking"
  /\ sub' = [sub EXCEPT !.cancel = TRUE]
  /\ late' = (late \/ ~paddle.cancels)
  /\ cancelling' = "idle"
  /\ UNCHANGED <<paddle, now, events, answered, dedupe, hook, customer, applied, lost,
                 hookFaults>>

CancelDies ==
  /\ cancelling # "idle" /\ HookFault
  /\ cancelling' = "idle"
  /\ UNCHANGED <<paddle, now, events, answered, dedupe, hook, sub, customer, historyVars>>

BillingNext ==
  \/ \E plan \in Plans : Subscribe(plan)
  \/ \E state \in PaddleState \ {"none"}, plan \in Plans : ChangeAtPaddle(state, plan)
  \/ PeriodEnds
  \/ \E h \in Handlers :
       \/ \E e \in DOMAIN events : HandlePaddleWebhook(h, e)
       \/ UpsertCustomer(h) \/ SyncSubscription(h)
       \/ SyncFails(h) \/ RemoveKey(h) \/ HookDies(h)
  \/ CancelSubscription \/ PaddleSchedulesCancel \/ MarkCanceled \/ CancelDies

BillingSpec == BillingInit /\ [][BillingNext]_billingVars
-----------------------------------------------------------------------------
(* What the user is served *)

Paid == {"active", "past_due"}

\* The end of the billing period is still to come.
Current == sub # NoSub /\ sub.status \in Paid /\ sub.period >= now

ResolveEntitlement == IF Current THEN sub.tier ELSE Free

\* The plan page.
GetBillingSummary ==
  [tier   |-> IF Current THEN sub.tier ELSE Free,
   status |-> IF sub = NoSub THEN "expired" ELSE sub.status]

-----------------------------------------------------------------------------
(* Properties *)

BillingTypeOK ==
  LET Snapshots == [state : PaddleState, plan : Plans \cup {Free}, cancels : BOOLEAN,
                    period : 1..MaxPeriods] IN
  /\ paddle \in Snapshots
  /\ now \in 1..MaxPeriods
  /\ events \in Seq([type : EventType, of : Snapshots])
  /\ answered \subseteq DOMAIN events /\ dedupe \subseteq DOMAIN events
  /\ hook \in [Handlers -> [at : {"idle", "customer", "subscription", "failing"},
                            e : 0..MaxEvents]]
  /\ sub \in {NoSub} \cup [status : Status, tier : Plans, cancel : BOOLEAN,
                           period : 1..MaxPeriods]
  /\ cancelling \in {"idle", "asking", "marking"}
  /\ applied \subseteq DOMAIN events /\ lost \subseteq DOMAIN events

\* An event Paddle will not deliver again has reached the record, or is about
\* to, unless its processing died, its key could not be removed, or it failed
\* after an overlapping delivery had been answered as a duplicate: the key is
\* removed so that "Paddle's retries can still succeed" (payment.service.ts).
AnsweredIsApplied ==
  \A e \in answered :
    events[e].type = "subscription" => e \in applied \cup lost \/ Processing(e)

\* Once every report has been answered and none was lost or overtaken, the
\* record is what Paddle has, and the user is served exactly what is paid for:
\* through retries, duplicates, renewals and a cancellation marked afterwards.
ServedAsPaid ==
  /\ answered = DOMAIN events /\ lost = {} /\ ~late /\ cancelling = "idle"
  /\ \A h \in Handlers : hook[h] = Waiting
  /\ paddle.state # "none"
  => /\ sub = Described(paddle)
     /\ ResolveEntitlement = IF paddle.state \in Paid THEN paddle.plan ELSE Free
     /\ GetBillingSummary = [tier |-> ResolveEntitlement, status |-> sub.status]

=============================================================================
