-------------------------- MODULE MCServices_proofs --------------------------
(***************************************************************************)
(* Proofs about Billing, whose record follows Paddle's, about FeatureGating, *)
(* whose checks read that record, about AgentRun, whose meter is what the    *)
(* debit takes, and about MCServices, in which they run beside sign-ins and  *)
(* accounts: what holds of each alone holds of all of them together.         *)
(***************************************************************************)
EXTENDS MCServices, UserProvisioning_proofs, LinkedinAccounts_proofs

-----------------------------------------------------------------------------
(* Billing: the inductive invariant *)

Snapshots == [state : PaddleState, plan : Plans \cup {Free}, cancels : BOOLEAN,
              period : 1..MaxPeriods]
Reports   == [type : EventType, of : Snapshots]
HookState == [at : {"idle", "customer", "subscription", "failing"}, e : 0..MaxEvents]
SubDoc    == [status : Status, tier : Plans, cancel : BOOLEAN, period : 1..MaxPeriods]

TypeInv ==
  /\ paddle \in Snapshots
  /\ now \in 1..MaxPeriods
  /\ events \in Seq(Reports) /\ Len(events) <= MaxEvents
  /\ answered \subseteq DOMAIN events /\ dedupe \subseteq DOMAIN events
  /\ hook \in [Handlers -> HookState]
  /\ sub \in {NoSub} \cup SubDoc
  /\ cancelling \in {"idle", "asking", "marking"}
  /\ applied \subseteq DOMAIN events /\ lost \subseteq DOMAIN events

\* What is subscribed to has a price, and was reported.
PlanInv ==
  /\ paddle.state # "none" => paddle.plan \in Plans
  /\ \A e \in DOMAIN events : events[e].of.plan \in Plans
  /\ sub # NoSub => paddle.state # "none"
  /\ events # <<>> => paddle.state # "none"
  /\ cancelling # "idle" => sub # NoSub

IsSub(e) == events[e].type = "subscription"
IsLast(evs, e) == /\ e \in DOMAIN evs /\ evs[e].type = "subscription"
                  /\ \A d \in DOMAIN evs : evs[d].type = "subscription" => d <= e

\* A webhook request has the event it was given, and stores only subscriptions.
HookInv == \A h \in Handlers :
  /\ hook[h].at = "idle" <=> hook[h] = Waiting
  /\ hook[h].at # "idle" => hook[h].e \in DOMAIN events /\ events[hook[h].e].type # "other"
  /\ hook[h].at = "subscription" => IsSub(hook[h].e)

\* What Paddle will not deliver again, or what would be taken for a duplicate.
FiledInv == \A e \in dedupe \cup answered :
              IsSub(e) => e \in applied \cup lost \/ Processing(e)

\* Paddle's last report is of what Paddle has.
LastInv == paddle.state # "none" => \E e \in DOMAIN events : IsLast(events, e) /\ events[e].of = paddle

PeriodInv == paddle.state \notin {"none", "canceled"} => paddle.period = now

\* The record is that of the last report, once it was applied in its turn, and
\* stays so when a cancellation marks it.
SubInv == ~late => \A e \in applied : IsLast(events, e) => sub = Described(paddle)

BillingInv == TypeInv /\ PlanInv /\ HookInv /\ FiledInv /\ LastInv /\ PeriodInv /\ SubInv

-----------------------------------------------------------------------------
(* Reports *)

LEMMA DescribedTyped ==
  ASSUME NEW p \in Snapshots, p.plan \in Plans
  PROVE  Described(p) \in SubDoc
BY DEF Snapshots, Described, SubDoc, MapPaddleStatus, Status, PaddleState

\* A change at Paddle reports itself, last of all subscription events; what was
\* reported before stays.
LEMMA ReportIsLast ==
  ASSUME TypeInv, NEW p \in Snapshots,
         \/ events' = Report("subscription", p)
         \/ \E t \in {"transaction", "other"} :
              events' = Append(Report("subscription", p), [type |-> t, of |-> p])
  PROVE  /\ events' \in Seq(Reports)
         /\ Len(events') <= Len(events) + 2
         /\ events' = Report("subscription", p) => Len(events') = Len(events) + 1
         /\ DOMAIN events \subseteq DOMAIN events'
         /\ \A e \in DOMAIN events : events'[e] = events[e]
         /\ \A e \in DOMAIN events' \ DOMAIN events : events'[e].of = p
         /\ \A e \in DOMAIN events' : IsLast(events', e) => e = Len(events) + 1
         /\ Len(events) + 1 \in DOMAIN events'
         /\ IsLast(events', Len(events) + 1)
         /\ events'[Len(events) + 1].of = p
<1>1. events \in Seq(Reports) /\ Len(events) \in Nat /\ DOMAIN events = 1..Len(events)
  BY DEF TypeInv
<1>2. \A t \in EventType : [type |-> t, of |-> p] \in Reports
  BY DEF Reports
<1> DEFINE report == [type |-> "subscription", of |-> p]
           s1 == Append(events, report)
<1>3. /\ report \in Reports /\ s1 \in Seq(Reports)
      /\ Len(s1) = Len(events) + 1 /\ DOMAIN s1 = 1..(Len(events) + 1)
      /\ \A e \in DOMAIN events : s1[e] = events[e]
      /\ s1[Len(events) + 1] = report
  BY <1>1, <1>2 DEF EventType
<1>4. Report("subscription", p) = s1
  BY DEF Report
<1> HIDE DEF s1
<1>8. PICK n : n = Len(events) + 1
  OBVIOUS
<1>5. ASSUME NEW ev, ev = events',
             NEW m \in {n, n + 1}, DOMAIN ev = 1..m, Len(ev) = m,
             \A e \in DOMAIN s1 : ev[e] = s1[e],
             \A e \in DOMAIN ev : ev[e].of = p \/ e \in DOMAIN events,
             \A e \in DOMAIN ev : e > n => ev[e].type # "subscription"
      PROVE  /\ DOMAIN events \subseteq DOMAIN ev
             /\ \A e \in DOMAIN events : ev[e] = events[e]
             /\ \A e \in DOMAIN ev : IsLast(ev, e) => e = n
             /\ n \in DOMAIN ev
             /\ IsLast(ev, n)
             /\ ev[n].of = p
  <2>1. n \in DOMAIN ev /\ n \in DOMAIN s1 /\ DOMAIN events \subseteq DOMAIN ev
    BY <1>1, <1>8, <1>3, <1>5
  <2>2. ev[n] = report /\ \A e \in DOMAIN events : ev[e] = events[e]
    BY <1>1, <1>8, <1>3, <1>5, <2>1
  <2>3. ev[n].type = "subscription"
    BY <2>2
  <2>4. \A d \in DOMAIN ev : ev[d].type = "subscription" => d <= n
    BY <1>1, <1>8, <1>5
  <2>5. IsLast(ev, n)
    BY <1>5, <2>1, <2>3, <2>4 DEF IsLast
  <2>6. \A e \in DOMAIN ev : IsLast(ev, e) => e = n
    BY <1>1, <1>8, <1>5, <2>1, <2>3, <2>4 DEF IsLast
  <2> QED
    BY <1>8, <2>1, <2>2, <2>5, <2>6
<1>6. CASE events' = s1
  <2>1. n \in {n, n + 1} /\ DOMAIN events' = 1..n /\ Len(events') = n
    BY <1>3, <1>6, <1>8
  <2>2. \A e \in DOMAIN events' : /\ events'[e].of = p \/ e \in DOMAIN events
                                  /\ ~(e > n)
    BY <1>1, <1>8, <1>3, <1>6
  <2> QED
    BY <1>1, <1>8, <1>3, <1>4, <1>5, <1>6, <2>1, <2>2
<1>7. CASE \E t \in {"transaction", "other"} : events' = Append(s1, [type |-> t, of |-> p])
  <2>1. PICK t \in {"transaction", "other"} : events' = Append(s1, [type |-> t, of |-> p])
    BY <1>7
  <2>2. t \in EventType /\ [type |-> t, of |-> p] \in Reports
    BY <1>2 DEF EventType
  <2>3. /\ events' \in Seq(Reports) /\ Len(events') = n + 1 /\ DOMAIN events' = 1..(n + 1)
        /\ \A e \in DOMAIN s1 : events'[e] = s1[e]
        /\ events'[n + 1] = [type |-> t, of |-> p]
    BY <1>1, <1>8, <1>3, <2>1, <2>2
  <2>4. \A e \in DOMAIN events' : /\ events'[e].of = p \/ e \in DOMAIN events
                                  /\ e > n => events'[e].type # "subscription"
    <3>1. SUFFICES ASSUME NEW e \in DOMAIN events'
                   PROVE  /\ events'[e].of = p \/ e \in DOMAIN events
                          /\ e > n => events'[e].type # "subscription"
      OBVIOUS
    <3>2. e \in DOMAIN events \/ e = n \/ e = n + 1
      BY <1>1, <1>8, <2>3
    <3> QED
      BY <1>1, <1>8, <1>3, <2>3, <3>2
  <2>5. n + 1 \in {n, n + 1}
    OBVIOUS
  <2>6. s1 # events'
    BY <1>1, <1>8, <1>3, <2>3
  <2>7. Len(events') <= Len(events) + 2
    BY <1>1, <1>8, <2>3
  <2>8. /\ DOMAIN events \subseteq DOMAIN events'
        /\ \A e \in DOMAIN events : events'[e] = events[e]
        /\ \A e \in DOMAIN events' : IsLast(events', e) => e = n
        /\ n \in DOMAIN events' /\ IsLast(events', n) /\ events'[n].of = p
    <3> DEFINE ev == events'
    <3>1. DOMAIN ev = 1..(n + 1) /\ Len(ev) = n + 1 /\ \A e \in DOMAIN s1 : ev[e] = s1[e]
      BY <2>3
    <3>2. \A e \in DOMAIN ev : ev[e].of = p \/ e \in DOMAIN events
      BY <2>4
    <3>3. \A e \in DOMAIN ev : e > n => ev[e].type # "subscription"
      BY <2>4
    <3> HIDE DEF ev
    <3>4. ev = events'
      BY DEF ev
    <3> QED
      BY <1>5, <2>5, <3>1, <3>2, <3>3, <3>4
  <2> QED
    BY <1>4, <1>8, <2>3, <2>4, <2>6, <2>7, <2>8
<1> QED
  BY <1>4, <1>6, <1>7

-----------------------------------------------------------------------------
(* What Paddle does *)

Reported(p) ==
  \/ events' = Report("subscription", p)
  \/ \E t \in {"transaction", "other"} :
       events' = Append(Report("subscription", p), [type |-> t, of |-> p])

\* Paddle changes the subscription and tells of it; nothing is done here yet.
Moved == /\ paddle' \in Snapshots /\ paddle'.state # "none" /\ paddle'.plan \in Plans
         /\ now' \in 1..MaxPeriods
         /\ paddle'.state # "canceled" => paddle'.period = now'
         /\ Reported(paddle') /\ Len(events') <= MaxEvents
         /\ dedupe' \subseteq dedupe
         /\ UNCHANGED <<answered, hook, sub, applied, lost, late>>
         /\ cancelling' \in {"idle", "asking", "marking"}
         /\ cancelling' # "idle" => cancelling # "idle"

LEMMA Subscribes ==
  ASSUME TypeInv, NEW plan \in Plans, Subscribe(plan)
  PROVE  Moved
<1> DEFINE p == [state |-> "active", plan |-> plan, cancels |-> FALSE, period |-> now]
<1>1. p \in Snapshots
  BY DEF TypeInv, Snapshots, PaddleState
<1>2. PICK t \in {"transaction", "other"} :
        PaddleMoves(p, Append(Report("subscription", p), [type |-> t, of |-> p]))
  BY DEF Subscribe
<1>3. paddle' = p /\ events' = Append(Report("subscription", p), [type |-> t, of |-> p])
  BY <1>2 DEF PaddleMoves
<1>4. Reported(p) /\ CanReport(2)
  BY <1>3 DEF Reported, Subscribe
<1>5. Len(events') <= Len(events) + 2
  BY <1>1, <1>4, ReportIsLast DEF Reported
<1>6. Len(events') <= MaxEvents
  <2>1. Len(events) \in Nat /\ Len(events') \in Nat
    <3>1. events' \in Seq(Reports)
      BY <1>1, <1>4, ReportIsLast DEF Reported
    <3> QED
      BY <3>1 DEF TypeInv
  <2> QED
    BY <1>4, <1>5, <2>1, BillingAssumption DEF CanReport
<1>7. now' = now /\ dedupe' = dedupe /\ cancelling' = cancelling
  BY DEF Subscribe
<1>8. UNCHANGED <<answered, hook, sub, applied, lost, late>>
  BY <1>2 DEF PaddleMoves, historyVars
<1>9. p.state = "active" /\ p.plan = plan /\ p.period = now
  OBVIOUS
<1> QED
  BY <1>1, <1>3, <1>4, <1>6, <1>7, <1>8, <1>9 DEF Moved, TypeInv

\* One report of one new snapshot.
LEMMA OneReport ==
  ASSUME TypeInv, CanReport(1), NEW p \in Snapshots, PaddleMoves(p, Report("subscription", p))
  PROVE  /\ paddle' = p /\ Reported(p) /\ Len(events') <= MaxEvents
         /\ UNCHANGED <<answered, hook, sub, applied, lost, late>>
<1>1. /\ paddle' = p /\ events' = Report("subscription", p)
      /\ UNCHANGED <<answered, hook, sub, applied, lost, late>>
  BY DEF PaddleMoves, historyVars
<1>2. Reported(p)
  BY <1>1 DEF Reported
<1>3. Len(events') = Len(events) + 1
  BY <1>1, <1>2, ReportIsLast DEF Reported
<1> QED
  BY <1>1, <1>2, <1>3 DEF CanReport, TypeInv

LEMMA Changes ==
  ASSUME TypeInv, PlanInv, PeriodInv, NEW state \in PaddleState \ {"none"}, NEW plan \in Plans,
         ChangeAtPaddle(state, plan)
  PROVE  Moved
<1> DEFINE p == [paddle EXCEPT !.state = state, !.plan = plan,
                               !.cancels = @ /\ state # "canceled"]
<1>1. p \in Snapshots
  BY DEF TypeInv, Snapshots
<1>2. p.state = state /\ p.plan = plan /\ p.period = paddle.period
  BY DEF TypeInv, Snapshots
<1>3. paddle.period = now
  BY DEF ChangeAtPaddle, PeriodInv
<1>4. /\ paddle' = p /\ Reported(p) /\ Len(events') <= MaxEvents
      /\ UNCHANGED <<answered, hook, sub, applied, lost, late>>
  BY <1>1, OneReport DEF ChangeAtPaddle
<1>5. now' = now /\ dedupe' = dedupe /\ cancelling' = cancelling
  BY DEF ChangeAtPaddle
<1> QED
  BY <1>1, <1>2, <1>3, <1>4, <1>5 DEF Moved, TypeInv

LEMMA PeriodsEnd ==
  ASSUME TypeInv, PlanInv, PeriodEnds
  PROVE  Moved
<1> DEFINE goes == paddle.state \in {"active", "past_due"} /\ ~paddle.cancels
           p == IF goes THEN [paddle EXCEPT !.state = "active", !.period = now + 1]
                        ELSE [paddle EXCEPT !.state = "canceled", !.cancels = FALSE]
<1>1. now + 1 \in 1..MaxPeriods
  BY BillingAssumption DEF TypeInv, PeriodEnds
<1>2. p \in Snapshots
  BY <1>1 DEF TypeInv, Snapshots, PaddleState
<1>3. p.plan = paddle.plan /\ p.state # "none" /\ (p.state # "canceled" => p.period = now + 1)
  BY DEF TypeInv, Snapshots
<1>4. /\ paddle' = p /\ Reported(p) /\ Len(events') <= MaxEvents
      /\ UNCHANGED <<answered, hook, sub, applied, lost, late>>
  BY <1>2, OneReport DEF PeriodEnds
<1>5. now' = now + 1 /\ dedupe' = {} /\ cancelling' = cancelling /\ paddle.plan \in Plans
  BY DEF PeriodEnds, PlanInv
<1> QED
  BY <1>1, <1>2, <1>3, <1>4, <1>5 DEF Moved, TypeInv

\* Asked to cancel, Paddle does so and reports it, or refuses.
LEMMA Cancels ==
  ASSUME TypeInv, PlanInv, PeriodInv, PaddleSchedulesCancel
  PROVE  \/ Moved
         \/ UNCHANGED <<paddle, now, events, answered, dedupe, hook, sub, applied, lost, late>>
            /\ cancelling' = "idle"
<1>1. CASE cancelling' = "idle" /\ PaddleMoves(paddle, events)
  BY <1>1 DEF PaddleSchedulesCancel, PaddleMoves, historyVars
<1>2. CASE /\ paddle.state # "canceled" /\ CanReport(1) /\ cancelling' = "marking"
           /\ LET p == [paddle EXCEPT !.cancels = TRUE] IN
                PaddleMoves(p, Report("subscription", p))
  <2> DEFINE p == [paddle EXCEPT !.cancels = TRUE]
  <2>1. p \in Snapshots /\ p.state = paddle.state /\ p.plan = paddle.plan
        /\ p.period = paddle.period
    BY DEF TypeInv, Snapshots
  <2>2. /\ paddle' = p /\ Reported(p) /\ Len(events') <= MaxEvents
        /\ UNCHANGED <<answered, hook, sub, applied, lost, late>>
    BY <1>2, <2>1, OneReport
  <2>3. now' = now /\ dedupe' = dedupe /\ cancelling = "asking"
    BY DEF PaddleSchedulesCancel
  <2>4. paddle.state # "none" /\ paddle.plan \in Plans /\ paddle.period = now
    BY <1>2, <2>3 DEF PlanInv, PeriodInv
  <2> QED
    BY <1>2, <2>1, <2>2, <2>3, <2>4 DEF Moved, TypeInv
<1> QED
  BY <1>1, <1>2 DEF PaddleSchedulesCancel

\* What waits here of what Paddle did: everything filed or answered stays, and
\* the new report is the last one and not applied.
LEMMA MovedInv == BillingInv /\ Moved => BillingInv'
<1> SUFFICES ASSUME BillingInv, Moved PROVE BillingInv'
  OBVIOUS
<1> USE DEF BillingInv
<1>1. paddle' \in Snapshots /\ Reported(paddle') /\ TypeInv
  BY DEF Moved
<1>2. PICK n : n = Len(events) + 1
  OBVIOUS
<1>3. /\ events' \in Seq(Reports)
      /\ DOMAIN events \subseteq DOMAIN events'
      /\ \A e \in DOMAIN events : events'[e] = events[e]
      /\ \A e \in DOMAIN events' \ DOMAIN events : events'[e].of = paddle'
      /\ \A e \in DOMAIN events' : IsLast(events', e) => e = n
      /\ n \in DOMAIN events' /\ IsLast(events', n) /\ events'[n].of = paddle'
  <2>1. PICK p : p = paddle'
    OBVIOUS
  <2>2. \/ events' = Report("subscription", p)
        \/ \E t \in {"transaction", "other"} :
             events' = Append(Report("subscription", p), [type |-> t, of |-> p])
    BY <1>1, <2>1 DEF Reported
  <2> QED
    BY <1>1, <1>2, <2>1, <2>2, ReportIsLast
<1>4. n \notin DOMAIN events
  BY <1>2 DEF TypeInv
<1>5. TypeInv'
  BY <1>3 DEF TypeInv, Moved
<1>6. PlanInv'
  BY <1>3 DEF PlanInv, Moved
<1>7. HookInv'
  <2>1. hook' = hook
    BY DEF Moved
  <2> QED
    BY <1>3, <2>1 DEF HookInv, IsSub
<1>8. FiledInv'
  <2>1. hook' = hook /\ dedupe' \cup answered' \subseteq dedupe \cup answered
        /\ applied' = applied /\ lost' = lost
    BY DEF Moved
  <2>2. \A e \in dedupe \cup answered : e \in DOMAIN events
    BY DEF TypeInv
  <2>3. \A e : Processing(e)' <=> Processing(e)
    BY <2>1 DEF Processing
  <2> QED
    BY <1>3, <2>1, <2>2, <2>3 DEF FiledInv, IsSub
<1>9. LastInv'
  BY <1>3 DEF LastInv
<1>10. PeriodInv'
  BY DEF PeriodInv, Moved
<1>11. SubInv'
  <2>1. applied' = applied /\ applied \subseteq DOMAIN events
    BY DEF Moved, TypeInv
  <2> QED
    BY <1>3, <1>4, <2>1 DEF SubInv
<1> QED
  BY <1>5, <1>6, <1>7, <1>8, <1>9, <1>10, <1>11

\* Paddle refuses, or the request to cancel dies.
LEMMA RefusedInv ==
  BillingInv /\ cancelling' \in {"idle", cancelling}
    /\ UNCHANGED <<paddle, now, events, answered, dedupe, hook, sub, applied, lost, late>>
  => BillingInv'
<1> SUFFICES ASSUME BillingInv, cancelling' \in {"idle", cancelling},
                    UNCHANGED <<paddle, now, events, answered, dedupe, hook, sub, applied,
                                lost, late>>
             PROVE  BillingInv'
  OBVIOUS
<1> USE DEF BillingInv
<1>1. TypeInv' /\ PlanInv' /\ PeriodInv'
  BY DEF TypeInv, PlanInv, PeriodInv
<1>2. HookInv' /\ LastInv'
  BY DEF HookInv, IsSub, LastInv, IsLast
<1>3. FiledInv' /\ SubInv'
  BY DEF FiledInv, IsSub, Processing, SubInv, IsLast, Described
<1> QED
  BY <1>1, <1>2, <1>3

-----------------------------------------------------------------------------
(* What a webhook request does *)

\* The parts of the invariant a webhook cannot disturb.
LEMMA HookFrame ==
  ASSUME BillingInv, UNCHANGED <<paddle, now, events, cancelling>>,
         sub' = sub \/ (sub' # NoSub /\ events # <<>>)
  PROVE  PlanInv' /\ LastInv' /\ PeriodInv'
BY DEF BillingInv, PlanInv, LastInv, PeriodInv, IsLast

LEMMA Delivered ==
  ASSUME BillingInv, NEW h \in Handlers, NEW e \in DOMAIN events, HandlePaddleWebhook(h, e)
  PROVE  BillingInv'
<1> USE DEF BillingInv
<1>1. /\ UNCHANGED <<paddle, now, events, sub, cancelling, applied, lost, late>>
      /\ dedupe' = dedupe \cup {e} /\ hook[h] = Waiting
  BY DEF HandlePaddleWebhook, historyVars
<1>2. PlanInv' /\ LastInv' /\ PeriodInv'
  BY <1>1, HookFrame
<1>3. SubInv'
  BY <1>1 DEF SubInv, IsLast, Described
<1>4. e \in 1..MaxEvents /\ e \in 0..MaxEvents
  BY BillingAssumption DEF TypeInv
<1>5. CASE e \in dedupe \/ events[e].type = "other"
  <2>1. answered' = answered \cup {e} /\ hook' = hook
    BY <1>5 DEF HandlePaddleWebhook
  <2>2. TypeInv'
    BY <1>1, <2>1 DEF TypeInv
  <2>3. HookInv'
    BY <1>1, <2>1 DEF HookInv, IsSub
  <2>4. FiledInv'
    BY <1>1, <1>5, <2>1 DEF FiledInv, IsSub, Processing
  <2> QED
    BY <1>2, <1>3, <2>2, <2>3, <2>4
<1>6. CASE ~(e \in dedupe \/ events[e].type = "other")
  <2> DEFINE r == [at |-> "customer", e |-> e]
  <2>1. answered' = answered /\ hook' = [hook EXCEPT ![h] = r]
    BY <1>6 DEF HandlePaddleWebhook
  <2>2. r \in HookState /\ r # Waiting
    BY <1>4 DEF HookState, Waiting
  <2>3. hook'[h] = r /\ \A g \in Handlers \ {h} : hook'[g] = hook[g]
    BY <2>1 DEF TypeInv
  <2>4. TypeInv'
    BY <1>1, <2>1, <2>2 DEF TypeInv
  <2>5. HookInv'
    BY <1>1, <1>6, <2>2, <2>3 DEF HookInv, IsSub
  <2>6. \A d \in dedupe \cup answered : Processing(d) => Processing(d)'
    <3>1. \A d \in dedupe \cup answered : hook[h].e # d
      BY <1>1 DEF TypeInv, Waiting
    <3> QED
      BY <2>3, <3>1 DEF Processing
  <2>7. Processing(e)'
    BY <2>3 DEF Processing
  <2>8. FiledInv'
    BY <1>1, <2>1, <2>6, <2>7 DEF FiledInv, IsSub
  <2> QED
    BY <1>2, <1>3, <2>4, <2>5, <2>8
<1> QED
  BY <1>5, <1>6

\* A request that goes on to its next await keeps its event.
LEMMA StepsInv ==
  ASSUME BillingInv, NEW h \in Handlers, NEW at \in {"subscription", "failing"},
         hook[h].at # "idle", Step(h, at),
         at = "subscription" => IsSub(hook[h].e),
         UNCHANGED <<paddle, now, events, answered, dedupe, sub, cancelling, historyVars>>
  PROVE  BillingInv'
<1> USE DEF BillingInv, historyVars
<1>1. PlanInv' /\ LastInv' /\ PeriodInv'
  BY HookFrame
<1>2. hook[h] \in HookState /\ hook' = [hook EXCEPT ![h].at = at]
  BY DEF TypeInv, Step
<1>3. hook'[h].at = at /\ hook'[h].e = hook[h].e /\ hook'[h] \in HookState
      /\ \A g \in Handlers \ {h} : hook'[g] = hook[g]
  BY <1>2 DEF TypeInv, HookState
<1>4. hook' \in [Handlers -> HookState]
  BY <1>2, <1>3 DEF TypeInv
<1>5. TypeInv'
  BY <1>4 DEF TypeInv
<1>6. HookInv'
  BY <1>3 DEF HookInv, IsSub, Waiting
<1>7. \A d : Processing(d) <=> Processing(d)'
  BY <1>3 DEF Processing
<1>8. FiledInv' /\ SubInv'
  BY <1>7 DEF FiledInv, IsSub, SubInv, IsLast, Described
<1> QED
  BY <1>1, <1>5, <1>6, <1>8

\* A request that ends leaves its event applied, lost, or to be delivered again.
LEMMA RestsInv ==
  ASSUME BillingInv, NEW h \in Handlers, hook[h].at # "idle", Rest(h),
         UNCHANGED <<paddle, now, events, cancelling>>,
         sub' = sub \/ (sub' \in SubDoc /\ events # <<>>),
         answered' \subseteq answered \cup {hook[h].e}, dedupe' \subseteq dedupe,
         applied \subseteq applied', applied' \subseteq applied \cup {hook[h].e},
         lost \subseteq lost', lost' \subseteq lost \cup {hook[h].e},
         \/ hook[h].e \notin dedupe' \cup answered'
         \/ hook[h].e \in applied' \cup lost'
         \/ ~IsSub(hook[h].e),
         SubInv'
  PROVE  BillingInv'
<1> USE DEF BillingInv
<1>1. NoSub \notin SubDoc
  BY DEF NoSub, SubDoc, Status
<1>2. PlanInv' /\ LastInv' /\ PeriodInv'
  BY <1>1, HookFrame
<1>3. PICK e : e = hook[h].e
  OBVIOUS
<1>4. e \in DOMAIN events
  BY <1>3 DEF HookInv
<1>5. hook' = [hook EXCEPT ![h] = Waiting]
  BY DEF Rest
<1>6. Waiting \in HookState
  BY BillingAssumption DEF Waiting, HookState
<1>7. hook'[h] = Waiting /\ \A g \in Handlers \ {h} : hook'[g] = hook[g]
  BY <1>5 DEF TypeInv
<1>8. TypeInv'
  BY <1>3, <1>4, <1>5, <1>6 DEF TypeInv
<1>9. HookInv'
  BY <1>7 DEF HookInv, IsSub, Waiting
<1>10. \A d : d # e /\ Processing(d) => Processing(d)'
  BY <1>3, <1>7 DEF Processing
<1>11. FiledInv'
  <2> SUFFICES ASSUME NEW d \in dedupe' \cup answered', IsSub(d)'
               PROVE  d \in applied' \cup lost' \/ Processing(d)'
    BY DEF FiledInv
  <2>1. IsSub(d)
    BY DEF IsSub
  <2>2. CASE d = e
    BY <1>3, <2>1, <2>2
  <2>3. CASE d # e
    BY <1>3, <1>10, <2>1, <2>3 DEF FiledInv
  <2> QED
    BY <2>2, <2>3
<1> QED
  BY <1>2, <1>8, <1>9, <1>11

LEMMA CustomerStored ==
  ASSUME BillingInv, NEW h \in Handlers, UpsertCustomer(h)
  PROVE  BillingInv'
<1>1. /\ UNCHANGED <<paddle, now, events, dedupe, sub, cancelling, historyVars>>
      /\ hook[h].at = "customer"
  BY DEF UpsertCustomer
<1>2. CASE events[hook[h].e].type = "transaction"
  <2>1. Rest(h) /\ answered' = answered \cup {hook[h].e}
    BY <1>2 DEF UpsertCustomer, Succeed
  <2>2. SubInv' /\ ~IsSub(hook[h].e)
    BY <1>1, <1>2 DEF BillingInv, SubInv, IsLast, Described, IsSub, historyVars
  <2> QED
    BY <1>1, <2>1, <2>2, RestsInv DEF historyVars
<1>3. CASE events[hook[h].e].type # "transaction"
  <2>1. Step(h, "subscription") /\ answered' = answered
    BY <1>3 DEF UpsertCustomer
  <2>2. hook[h].e \in DOMAIN events /\ events[hook[h].e].type # "other"
    BY <1>1 DEF BillingInv, HookInv
  <2>3. events[hook[h].e] \in Reports
    BY <2>2 DEF BillingInv, TypeInv
  <2>4. IsSub(hook[h].e)
    BY <1>3, <2>2, <2>3 DEF IsSub, Reports, EventType
  <2> QED
    BY <1>1, <2>1, <2>4, StepsInv
<1> QED
  BY <1>2, <1>3

\* The last report makes the record what Paddle has; one before it, applied
\* after it, is late.
LEMMA SubscriptionStored ==
  ASSUME BillingInv, NEW h \in Handlers, SyncSubscription(h)
  PROVE  BillingInv'
<1> USE DEF BillingInv
<1>1. PICK e : e = hook[h].e
  OBVIOUS
<1>2. /\ UNCHANGED <<paddle, now, events, dedupe, cancelling, lost>>
      /\ hook[h].at = "subscription"
      /\ sub' = Described(events[e].of)
      /\ applied' = applied \cup {e}
      /\ late' = (late \/ \E d \in applied : d > e)
      /\ Rest(h) /\ answered' = answered \cup {e}
  BY <1>1 DEF SyncSubscription, Succeed
<1>3. e \in DOMAIN events /\ IsSub(e)
  BY <1>1, <1>2 DEF HookInv
<1>4. events[e] \in Reports /\ events[e].of \in Snapshots /\ events[e].of.plan \in Plans
  <2>1. events[e] \in Reports
    BY <1>3 DEF TypeInv
  <2> QED
    BY <1>3, <2>1 DEF PlanInv, Reports
<1>5. sub' \in SubDoc /\ events # <<>>
  BY <1>2, <1>3, <1>4, DescribedTyped
<1>6. SubInv'
  <2> SUFFICES ASSUME ~late', NEW l \in applied', IsLast(events, l)
               PROVE  sub' = Described(paddle)
    BY <1>2 DEF SubInv, Described
  <2>1. e <= l /\ l \in DOMAIN events
    BY <1>3 DEF IsLast, IsSub
  <2>2. l = e
    <3>1. l \in Nat /\ e \in Nat
      BY <1>3, <2>1 DEF TypeInv
    <3>2. ~\E d \in applied : d > e
      BY <1>2
    <3>3. l \in applied \/ l = e
      BY <1>2
    <3> QED
      BY <2>1, <3>1, <3>2, <3>3
  <2>3. PICK k \in DOMAIN events : IsLast(events, k) /\ events[k].of = paddle
    BY <1>3 DEF LastInv, PlanInv
  <2>4. k = l
    <3>1. k \in Nat /\ l \in Nat /\ k <= l /\ l <= k
      BY <2>1, <2>3 DEF IsLast, TypeInv
    <3> QED
      BY <3>1
  <2> QED
    BY <1>2, <2>2, <2>3, <2>4
<1>7. hook[h].at # "idle"
  BY <1>2
<1> HIDE DEF BillingInv
<1> QED
  BY <1>1, <1>2, <1>5, <1>6, <1>7, RestsInv

LEMMA SyncFailsInv ==
  ASSUME BillingInv, NEW h \in Handlers, SyncFails(h)
  PROVE  BillingInv'
BY StepsInv DEF SyncFails

\* Of a request that failed the key is gone, and if the event was answered
\* meanwhile, or the key stays, it is lost.
LEMMA KeyRemoved ==
  ASSUME BillingInv, NEW h \in Handlers, RemoveKey(h)
  PROVE  BillingInv'
<1>1. PICK e : e = hook[h].e
  OBVIOUS
<1>2. /\ UNCHANGED <<paddle, now, events, answered, sub, cancelling, applied, late>>
      /\ hook[h].at = "failing" /\ Rest(h)
      /\ \/ dedupe' = dedupe \ {e} /\ lost' = lost \cup ({e} \cap answered)
         \/ dedupe' = dedupe /\ lost' = lost \cup {e}
  BY <1>1 DEF RemoveKey, KeyAfter
<1>3. SubInv'
  BY <1>2 DEF BillingInv, SubInv, IsLast, Described
<1>4. e \notin dedupe' \cup answered' \/ e \in lost'
  BY <1>2
<1>5. /\ dedupe' \subseteq dedupe /\ lost \subseteq lost' /\ lost' \subseteq lost \cup {e}
      /\ applied \subseteq applied' /\ applied' \subseteq applied \cup {e}
      /\ answered' \subseteq answered \cup {e} /\ hook[h].at # "idle"
  BY <1>2
<1> QED
  BY <1>1, <1>2, <1>3, <1>4, <1>5, RestsInv

LEMMA HookDiesInv ==
  ASSUME BillingInv, NEW h \in Handlers, HookDies(h)
  PROVE  BillingInv'
<1>1. /\ UNCHANGED <<paddle, now, events, answered, dedupe, sub, cancelling, applied, late>>
      /\ hook[h] # Waiting /\ Rest(h) /\ lost' = lost \cup {hook[h].e}
  BY DEF HookDies
<1>2. hook[h].at # "idle"
  BY <1>1 DEF BillingInv, HookInv
<1>3. SubInv'
  BY <1>1 DEF BillingInv, SubInv, IsLast, Described
<1> QED
  BY <1>1, <1>2, <1>3, RestsInv

-----------------------------------------------------------------------------
(* What a request to cancel does *)

LEMMA CancelInv ==
  ASSUME BillingInv, CancelSubscription \/ CancelDies
  PROVE  BillingInv'
<1>1. CASE CancelDies
  BY <1>1, RefusedInv DEF CancelDies, historyVars
<1>2. CASE CancelSubscription
  <2> USE DEF BillingInv
  <2>1. /\ UNCHANGED <<paddle, now, events, answered, dedupe, hook, sub, applied, lost, late>>
        /\ sub # NoSub /\ cancelling' = "asking"
    BY <1>2 DEF CancelSubscription, historyVars
  <2>2. TypeInv' /\ PlanInv' /\ PeriodInv'
    BY <2>1 DEF TypeInv, PlanInv, PeriodInv
  <2>3. HookInv' /\ LastInv'
    BY <2>1 DEF HookInv, IsSub, LastInv, IsLast
  <2>4. FiledInv' /\ SubInv'
    BY <2>1 DEF FiledInv, IsSub, Processing, SubInv, IsLast, Described
  <2> QED
    BY <2>2, <2>3, <2>4
<1> QED
  BY <1>1, <1>2

\* A mark on the record of the last report changes nothing, unless it is late.
LEMMA MarkInv ==
  ASSUME BillingInv, MarkCanceled
  PROVE  BillingInv'
<1> USE DEF BillingInv
<1>1. /\ UNCHANGED <<paddle, now, events, answered, dedupe, hook, applied, lost>>
      /\ cancelling = "marking" /\ cancelling' = "idle"
      /\ sub' = [sub EXCEPT !.cancel = TRUE]
      /\ late' = (late \/ ~paddle.cancels)
  BY DEF MarkCanceled
<1>2. sub \in SubDoc
  BY <1>1 DEF PlanInv, TypeInv
<1>3. sub' \in SubDoc
  BY <1>1, <1>2 DEF SubDoc
<1>4. TypeInv' /\ PeriodInv'
  BY <1>1, <1>3 DEF TypeInv, PeriodInv
<1>5. PlanInv'
  BY <1>1 DEF PlanInv
<1>6. HookInv' /\ LastInv'
  BY <1>1 DEF HookInv, IsSub, LastInv, IsLast
<1>7. FiledInv'
  BY <1>1 DEF FiledInv, IsSub, Processing
<1>8. SubInv'
  <2> SUFFICES ASSUME ~late', NEW l \in applied, IsLast(events, l)
               PROVE  sub' = Described(paddle)
    BY <1>1 DEF SubInv, Described
  <2>1. ~late /\ paddle.cancels
    BY <1>1
  <2>2. sub = Described(paddle)
    BY <2>1 DEF SubInv
  <2>3. paddle.cancels = TRUE
    BY <2>1 DEF TypeInv, Snapshots
  <2> QED
    BY <1>1, <2>2, <2>3 DEF Described
<1> QED
  BY <1>4, <1>5, <1>6, <1>7, <1>8

-----------------------------------------------------------------------------
(* What follows for subscriptions *)

LEMMA BillingStarts == BillingInit => BillingInv
<1> SUFFICES ASSUME BillingInit PROVE BillingInv
  OBVIOUS
<1>1. /\ paddle = [state |-> "none", plan |-> Free, cancels |-> FALSE, period |-> 1]
      /\ now = 1 /\ events = <<>> /\ answered = {} /\ dedupe = {}
      /\ hook = [h \in Handlers |-> Waiting]
      /\ sub = NoSub /\ cancelling = "idle"
      /\ applied = {} /\ lost = {} /\ late = FALSE
  BY DEF BillingInit
<1>2. 1 \in 1..MaxPeriods /\ 0 \in 0..MaxEvents
  BY BillingAssumption
<1>3. paddle \in Snapshots
  BY <1>1, <1>2 DEF Snapshots, PaddleState
<1>4. Waiting \in HookState
  BY <1>2 DEF Waiting, HookState
<1>5. events \in Seq(Reports) /\ Len(events) <= MaxEvents /\ DOMAIN events = {}
  BY <1>1, BillingAssumption
<1>6. TypeInv
  BY <1>1, <1>2, <1>3, <1>4, <1>5 DEF TypeInv
<1>7. PlanInv /\ LastInv /\ PeriodInv
  BY <1>1, <1>5 DEF PlanInv, LastInv, PeriodInv
<1>8. HookInv
  BY <1>1 DEF HookInv, Waiting
<1>9. FiledInv /\ SubInv
  BY <1>1 DEF FiledInv, SubInv
<1> QED
  BY <1>6, <1>7, <1>8, <1>9 DEF BillingInv

LEMMA BillingStep == BillingInv /\ [BillingNext]_billingVars => BillingInv'
<1> SUFFICES ASSUME BillingInv, [BillingNext]_billingVars PROVE BillingInv'
  OBVIOUS
<1>1. TypeInv /\ PlanInv /\ PeriodInv
  BY DEF BillingInv
<1>2. ASSUME NEW plan \in Plans, Subscribe(plan) PROVE BillingInv'
  BY <1>1, <1>2, Subscribes, MovedInv
<1>3. ASSUME NEW state \in PaddleState \ {"none"}, NEW plan \in Plans,
             ChangeAtPaddle(state, plan)
      PROVE  BillingInv'
  BY <1>1, <1>3, Changes, MovedInv
<1>4. CASE PeriodEnds
  BY <1>1, <1>4, PeriodsEnd, MovedInv
<1>5. CASE PaddleSchedulesCancel
  BY <1>1, <1>5, Cancels, MovedInv, RefusedInv
<1>6. ASSUME NEW h \in Handlers,
             \/ \E e \in DOMAIN events : HandlePaddleWebhook(h, e)
             \/ UpsertCustomer(h) \/ SyncSubscription(h)
             \/ SyncFails(h) \/ RemoveKey(h) \/ HookDies(h)
      PROVE  BillingInv'
  BY <1>6, Delivered, CustomerStored, SubscriptionStored, SyncFailsInv, KeyRemoved, HookDiesInv
<1>7. CASE CancelSubscription \/ CancelDies
  BY <1>7, CancelInv
<1>8. CASE MarkCanceled
  BY <1>8, MarkInv
<1>9. CASE UNCHANGED billingVars
  BY <1>9, RefusedInv DEF billingVars, historyVars
<1> QED
  BY <1>2, <1>3, <1>4, <1>5, <1>6, <1>7, <1>8, <1>9 DEF BillingNext

\* Whatever Paddle reports, delivers twice, late or in another order, whatever
\* fails or dies, the invariant holds.
THEOREM BillingInvariance == BillingSpec => []BillingInv
BY BillingStarts, BillingStep, PTL DEF BillingSpec

LEMMA BillingTypes == BillingInv => BillingTypeOK
BY DEF BillingInv, TypeInv, BillingTypeOK, Snapshots, Reports, HookState, SubDoc

\* The record, Paddle's reports and the webhook requests are well typed.
THEOREM BillingTyped == BillingSpec => []BillingTypeOK
BY BillingTypes, BillingInvariance, PTL

LEMMA AppliedHolds == BillingInv => AnsweredIsApplied
BY DEF BillingInv, FiledInv, IsSub, AnsweredIsApplied

\* handlePaddleWebhook: an event that was answered, as a duplicate or processed,
\* is in the record or on its way, or was lost in one of the three ways.
THEOREM AnsweredApplied == BillingSpec => []AnsweredIsApplied
BY AppliedHolds, BillingInvariance, PTL

LEMMA ServedHolds == BillingInv => ServedAsPaid
<1> SUFFICES ASSUME BillingInv, answered = DOMAIN events, lost = {}, ~late,
                    \A h \in Handlers : hook[h] = Waiting, paddle.state # "none"
             PROVE  /\ sub = Described(paddle)
                    /\ ResolveEntitlement = IF paddle.state \in Paid THEN paddle.plan ELSE Free
                    /\ GetBillingSummary = [tier |-> ResolveEntitlement, status |-> sub.status]
  BY DEF ServedAsPaid
<1> USE DEF BillingInv
<1>1. PICK e \in DOMAIN events : IsLast(events, e) /\ events[e].of = paddle
  BY DEF LastInv
<1>2. ~Processing(e)
  <2>1. e # 0
    BY <1>1 DEF TypeInv
  <2> QED
    BY <2>1 DEF Processing, Waiting
<1>3. e \in applied
  BY <1>1, <1>2 DEF FiledInv, IsLast, IsSub
<1>4. sub = Described(paddle)
  BY <1>1, <1>3 DEF SubInv
<1>5. /\ sub.status = MapPaddleStatus(paddle.state) /\ sub.tier = paddle.plan
      /\ sub.period = paddle.period
  BY <1>4 DEF Described
<1>6. sub # NoSub
  BY <1>4 DEF NoSub, Described, MapPaddleStatus, TypeInv, Snapshots, PaddleState
<1>7. sub.status \in Paid <=> paddle.state \in Paid
  BY <1>5 DEF MapPaddleStatus, Paid
<1>8. paddle.state \in Paid => sub.period >= now
  BY <1>5 DEF PeriodInv, Paid, TypeInv
<1>9. Current <=> paddle.state \in Paid
  BY <1>6, <1>7, <1>8 DEF Current
<1>10. ResolveEntitlement = IF paddle.state \in Paid THEN paddle.plan ELSE Free
  BY <1>5, <1>9 DEF ResolveEntitlement
<1>11. GetBillingSummary = [tier |-> ResolveEntitlement, status |-> sub.status]
  BY <1>6 DEF GetBillingSummary, ResolveEntitlement
<1> QED
  BY <1>4, <1>10, <1>11

\* When all is answered and nothing was lost or late, the user is served exactly
\* what is paid for (mapPaddleStatus, resolveEntitlement, getBillingSummary).
THEOREM ServedPaid == BillingSpec => []ServedAsPaid
BY ServedHolds, BillingInvariance, PTL

-----------------------------------------------------------------------------
(* FeatureGating: the inductive invariant *)

Doings == {"idle", "period", "counting", "reading", "adding", "answered"}
CheckState == [at : Doings, what : Gated \cup {"dashboard"}, tier : Plans \cup {Free},
               period : UsagePeriods, used : [Counters -> Nat]]

LimitedTo(r, c) == r.what \in {c, "dashboard"} /\ GetLimitFromTier(r.tier, c) # Unlimited

GateTypeInv ==
  /\ sub \in {NoSub} \cup SubDoc /\ now \in 1..MaxPeriods
  /\ spent \in [Counters -> [UsagePeriods -> Nat]]
  /\ check \in [Checks -> CheckState]
  /\ overtaken \subseteq Checks /\ checkCalls \in 0..MaxChecks
  /\ \A q \in Checks : check[q].at \in {"counting", "adding"} => check[q].what \in Counters

\* What a check has read still stands, unless the subscription moved since.
Fresh(r) ==
  /\ r.at \in {"period", "reading", "answered"} => r.tier = ResolveEntitlement
  /\ r.at = "reading" => r.period = ResolveUsagePeriod
  /\ r.at = "answered" /\ r.what = "dashboard" => r.period = ResolveUsagePeriod
  /\ \A c \in Counters : r.at = "answered" /\ LimitedTo(r, c) =>
       r.period = ResolveUsagePeriod /\ r.used[c] <= spent[c][r.period]
FreshInv == \A q \in Checks \ overtaken : Fresh(check[q])

GatingInv == GateTypeInv /\ FreshInv

-----------------------------------------------------------------------------
(* What a check does *)

LEMMA UsagePeriodTyped == GateTypeInv => ResolveUsagePeriod \in UsagePeriods
BY DEF GateTypeInv, ResolveUsagePeriod, UsagePeriods, Sources, Current, SubDoc, NoSub

LEMMA EntitlementTyped == GateTypeInv => ResolveEntitlement \in Plans \cup {Free}
BY DEF GateTypeInv, ResolveEntitlement, Current, SubDoc

Begun(at, what, tier) == [NoCheck EXCEPT !.at = at, !.what = what, !.tier = tier]

LEMMA NoCheckTyped ==
  /\ NoCheck \in CheckState /\ NoCheck.at = "idle"
  /\ \A at \in Doings, what \in Gated \cup {"dashboard"}, tier \in Plans \cup {Free} :
       /\ Begun(at, what, tier) \in CheckState
       /\ Begun(at, what, tier).at = at
       /\ Begun(at, what, tier).what = what
       /\ Begun(at, what, tier).tier = tier
<1>1. AtNone \in UsagePeriods
  BY BillingAssumption DEF AtNone, UsagePeriods, Sources
<1>2. [c \in Counters |-> 0] \in [Counters -> Nat]
  OBVIOUS
<1>3. NoCheck \in CheckState /\ NoCheck.at = "idle"
  BY <1>1, <1>2 DEF NoCheck, CheckState, Doings, Gated
<1>4. ASSUME NEW at \in Doings, NEW what \in Gated \cup {"dashboard"},
             NEW tier \in Plans \cup {Free}
      PROVE  /\ Begun(at, what, tier) \in CheckState
             /\ Begun(at, what, tier).at = at
             /\ Begun(at, what, tier).what = what
             /\ Begun(at, what, tier).tier = tier
  <2>1. PICK n \in CheckState : n = NoCheck
    BY <1>3
  <2>2. PICK r : r = Begun(at, what, tier)
    OBVIOUS
  <2>3. r = [n EXCEPT !.at = at, !.what = what, !.tier = tier]
    BY <2>1, <2>2 DEF Begun
  <2>4. r \in CheckState /\ r.at = at /\ r.what = what /\ r.tier = tier
    BY <2>1, <2>3 DEF CheckState
  <2> QED
    BY <2>2, <2>4
<1> QED
  BY <1>3, <1>4

\* A step of one check, while the subscription and the period stand still.
LEMMA OneCheck ==
  ASSUME GatingInv, NEW q \in Checks, NEW r \in CheckState, check' = [check EXCEPT ![q] = r],
         r.at \in {"counting", "adding"} => r.what \in Counters,
         q \in overtaken \/ Fresh(r)',
         overtaken \ {q} \subseteq overtaken', overtaken' \subseteq overtaken,
         q \in overtaken => q \in overtaken' \/ Fresh(r)',
         spent' \in [Counters -> [UsagePeriods -> Nat]],
         \A c \in Counters, p \in UsagePeriods : spent[c][p] <= spent'[c][p],
         UNCHANGED <<sub, now>>, checkCalls' \in 0..MaxChecks
  PROVE  GatingInv'
<1> USE DEF GatingInv
<1>1. check'[q] = r /\ \A p \in Checks \ {q} : check'[p] = check[p]
  BY DEF GateTypeInv
<1>2. GateTypeInv'
  BY <1>1 DEF GateTypeInv
<1>3. ResolveEntitlement' = ResolveEntitlement /\ ResolveUsagePeriod' = ResolveUsagePeriod
  BY DEF ResolveEntitlement, ResolveUsagePeriod, Current
<1>4. ASSUME NEW p \in Checks \ overtaken', p # q PROVE Fresh(check[p])'
  <2>1. Fresh(check[p]) /\ check'[p] = check[p]
    BY <1>1, <1>4 DEF FreshInv
  <2>2. PICK s \in CheckState : s = check[p]
    BY <1>4 DEF GateTypeInv
  <2>3. \A c \in Counters : /\ spent[c][s.period] <= spent'[c][s.period]
                            /\ s.used[c] \in Nat /\ spent[c][s.period] \in Nat
                            /\ spent'[c][s.period] \in Nat
    BY DEF CheckState, GateTypeInv
  <2>4. \A c \in Counters : s.used[c] <= spent[c][s.period] => s.used[c] <= spent'[c][s.period]
    BY <2>3
  <2>5. Fresh(s)
    BY <2>1, <2>2
  <2>6. Fresh(s)'
    BY <1>3, <2>4, <2>5 DEF Fresh, LimitedTo
  <2> QED
    BY <2>1, <2>2, <2>6
<1>5. FreshInv'
  BY <1>1, <1>4 DEF FreshInv
<1> QED
  BY <1>2, <1>5

\* A request begins with the tier it reads.
LEMMA Asks ==
  ASSUME GatingInv, NEW q \in Checks, NEW at \in {"period", "counting", "answered"},
         NEW what \in Gated \cup {"dashboard"}, NEW tier \in Plans \cup {Free},
         Ask(q, at, what, tier), UNCHANGED <<sub, now>>,
         at = "counting" => what \in Counters,
         at # "counting" => tier = ResolveEntitlement,
         at = "answered" =>
           what # "dashboard" /\ (what \in Counters => GetLimitFromTier(tier, what) = Unlimited)
  PROVE  GatingInv'
<1> DEFINE r == Begun(at, what, tier)
<1>0. at \in Doings
  BY DEF Doings
<1>1. r \in CheckState /\ r.at = at /\ r.what = what /\ r.tier = tier
  BY <1>0, NoCheckTyped
<1>2. /\ check' = [check EXCEPT ![q] = r]
      /\ spent' = spent /\ overtaken' = overtaken /\ checkCalls' = checkCalls + 1
      /\ checkCalls < MaxChecks
  BY DEF Ask, Begun
<1> HIDE DEF r
<1>3. ResolveEntitlement' = ResolveEntitlement
  BY DEF ResolveEntitlement, Current
<1>4. \A c \in Counters : r.at = "answered" => ~LimitedTo(r, c)
  BY <1>1 DEF LimitedTo, Counters
<1>5. PICK s \in CheckState : s = r
  BY <1>1
<1>6. Fresh(s)'
  BY <1>1, <1>3, <1>4, <1>5 DEF Fresh
<1>7. checkCalls' \in 0..MaxChecks
  BY <1>2, GatingAssumption DEF GatingInv, GateTypeInv
<1>8. spent' \in [Counters -> [UsagePeriods -> Nat]]
      /\ \A c \in Counters, p \in UsagePeriods : spent[c][p] <= spent'[c][p]
  BY <1>2 DEF GatingInv, GateTypeInv
<1> QED
  BY <1>1, <1>2, <1>5, <1>6, <1>7, <1>8, OneCheck

LEMMA ReadsPeriodInv ==
  ASSUME GatingInv, NEW q \in Checks, ReadsPeriod(q), UNCHANGED <<sub, now>>
  PROVE  GatingInv'
<1>1. PICK o : o = check[q]
  OBVIOUS
<1>2. PICK u : u = ResolveUsagePeriod
  OBVIOUS
<1>3. o \in CheckState /\ u \in UsagePeriods
  BY <1>1, <1>2, UsagePeriodTyped DEF GatingInv, GateTypeInv
<1> DEFINE r == [o EXCEPT !.period = u, !.at = IF o.at = "period" THEN "reading" ELSE "adding"]
<1>4. /\ r \in CheckState /\ r.period = u /\ r.what = o.what /\ r.tier = o.tier
      /\ r.at = IF o.at = "period" THEN "reading" ELSE "adding"
  BY <1>3 DEF CheckState, Doings
<1>5. /\ check' = [check EXCEPT ![q] = r] /\ o.at \in {"period", "counting"}
      /\ spent' = spent /\ overtaken' = overtaken /\ checkCalls' = checkCalls
  <2>1. /\ check' = [check EXCEPT ![q] = [check[q] EXCEPT !.period = ResolveUsagePeriod,
                        !.at = IF check[q].at = "period" THEN "reading" ELSE "adding"]]
        /\ check[q].at \in {"period", "counting"}
        /\ spent' = spent /\ overtaken' = overtaken /\ checkCalls' = checkCalls
    BY DEF ReadsPeriod
  <2> QED
    BY <1>1, <1>2, <2>1
<1> HIDE DEF r
<1>6. ResolveEntitlement' = ResolveEntitlement /\ ResolveUsagePeriod' = u
  BY <1>2 DEF ResolveEntitlement, ResolveUsagePeriod, Current
<1>7. q \in overtaken \/ Fresh(o)
  BY <1>1 DEF GatingInv, FreshInv
<1>8. PICK s \in CheckState : s = r
  BY <1>4
<1>9. q \in overtaken \/ Fresh(s)'
  BY <1>4, <1>5, <1>6, <1>7, <1>8 DEF Fresh
<1>10. s.at \in {"counting", "adding"} => s.what \in Counters
  BY <1>1, <1>4, <1>5, <1>8 DEF GatingInv, GateTypeInv
<1>11. /\ spent' \in [Counters -> [UsagePeriods -> Nat]] /\ checkCalls' \in 0..MaxChecks
       /\ \A c \in Counters, p \in UsagePeriods : spent[c][p] <= spent'[c][p]
  BY <1>5 DEF GatingInv, GateTypeInv
<1> QED
  BY <1>5, <1>8, <1>9, <1>10, <1>11, OneCheck

LEMMA ReadsUsageInv ==
  ASSUME GatingInv, NEW q \in Checks, ReadsUsage(q), UNCHANGED <<sub, now>>
  PROVE  GatingInv'
<1>1. PICK o : o = check[q]
  OBVIOUS
<1>2. PICK f : f = [c \in Counters |-> IF o.what \in {c, "dashboard"} THEN spent[c][o.period] ELSE 0]
  OBVIOUS
<1>3. o \in CheckState
  BY <1>1 DEF GatingInv, GateTypeInv
<1>4. f \in [Counters -> Nat]
      /\ \A c \in Counters : o.what \in {c, "dashboard"} => f[c] = spent[c][o.period]
  BY <1>2, <1>3 DEF GatingInv, GateTypeInv, CheckState
<1> DEFINE r == [o EXCEPT !.at = "answered", !.used = f]
<1>5. /\ r \in CheckState /\ r.period = o.period /\ r.what = o.what /\ r.tier = o.tier
      /\ r.at = "answered" /\ r.used = f
  BY <1>3, <1>4 DEF CheckState, Doings
<1>6. /\ check' = [check EXCEPT ![q] = r] /\ o.at = "reading"
      /\ spent' = spent /\ overtaken' = overtaken /\ checkCalls' = checkCalls
  BY <1>1, <1>2 DEF ReadsUsage
<1> HIDE DEF r
<1>7. ResolveEntitlement' = ResolveEntitlement /\ ResolveUsagePeriod' = ResolveUsagePeriod
  BY DEF ResolveEntitlement, ResolveUsagePeriod, Current
<1>8. q \in overtaken \/ (o.tier = ResolveEntitlement /\ o.period = ResolveUsagePeriod)
  BY <1>1, <1>6 DEF GatingInv, FreshInv, Fresh
<1>9. PICK s \in CheckState : s = r
  BY <1>5
<1>10. \A c \in Counters : LimitedTo(s, c) => s.used[c] <= spent'[c][s.period]
  <2> SUFFICES ASSUME NEW c \in Counters, LimitedTo(s, c) PROVE s.used[c] <= spent'[c][s.period]
    OBVIOUS
  <2>1. s.used[c] = spent[c][s.period]
    BY <1>4, <1>5, <1>9 DEF LimitedTo
  <2>2. s.used[c] \in Nat
    BY DEF CheckState
  <2> QED
    BY <1>6, <2>1, <2>2
<1>11. q \in overtaken \/ Fresh(s)'
  BY <1>5, <1>7, <1>8, <1>9, <1>10 DEF Fresh
<1>12. /\ spent' \in [Counters -> [UsagePeriods -> Nat]] /\ checkCalls' \in 0..MaxChecks
       /\ \A c \in Counters, p \in UsagePeriods : spent[c][p] <= spent'[c][p]
  BY <1>6 DEF GatingInv, GateTypeInv
<1>13. s.at \notin {"counting", "adding"}
  BY <1>5, <1>9
<1> QED
  BY <1>6, <1>9, <1>11, <1>12, <1>13, OneCheck

\* Counting, and the end of a request.
LEMMA EndsInv ==
  ASSUME GatingInv, NEW q \in Checks, Adds(q) \/ Answers(q), UNCHANGED <<sub, now>>
  PROVE  GatingInv'
<1>1. check' = [check EXCEPT ![q] = NoCheck] /\ overtaken' = overtaken \ {q}
      /\ checkCalls' = checkCalls
  BY DEF Adds, Answers
<1>2. NoCheck \in CheckState /\ NoCheck.at = "idle"
  BY NoCheckTyped
<1>3. PICK s \in CheckState : s = NoCheck
  BY <1>2
<1>4. Fresh(s)'
  BY <1>2, <1>3 DEF Fresh
<1>5. /\ spent' \in [Counters -> [UsagePeriods -> Nat]]
      /\ \A c \in Counters, p \in UsagePeriods : spent[c][p] <= spent'[c][p]
  <2>1. CASE Answers(q)
    BY <2>1 DEF Answers, GatingInv, GateTypeInv
  <2>2. CASE Adds(q)
    <3>1. PICK c \in Counters, p \in UsagePeriods :
            c = check[q].what /\ p = check[q].period /\ spent' = [spent EXCEPT ![c][p] = @ + 1]
      BY <2>2 DEF Adds, GatingInv, GateTypeInv, CheckState
    <3> QED
      BY <3>1 DEF GatingInv, GateTypeInv
  <2> QED
    BY <2>1, <2>2
<1>6. checkCalls' \in 0..MaxChecks
  BY <1>1 DEF GatingInv, GateTypeInv
<1>7. overtaken \ {q} \subseteq overtaken' /\ overtaken' \subseteq overtaken
  BY <1>1
<1> QED
  BY <1>1, <1>2, <1>3, <1>4, <1>5, <1>6, <1>7, OneCheck

\* When the subscription or the period moves, every request under way is marked.
LEMMA MovesInv ==
  ASSUME GatingInv, SubscriptionMoves
  PROVE  GatingInv'
<1>1. /\ sub' \in {NoSub} \cup SubDoc /\ now' \in 1..MaxPeriods
      /\ overtaken' = Meanwhile /\ UNCHANGED <<spent, check, checkCalls>>
  <2>1. overtaken' = Meanwhile /\ UNCHANGED <<spent, check, checkCalls>>
    BY DEF SubscriptionMoves
  <2>2. sub \in {NoSub} \cup SubDoc /\ now \in 1..MaxPeriods /\ MaxPeriods \in Nat
    BY BillingAssumption DEF GatingInv, GateTypeInv
  <2>3. ASSUME NEW s \in Status, NEW plan \in Plans, NEW p \in 1..now,
               sub' = [status |-> s, tier |-> plan, cancel |-> FALSE, period |-> p]
        PROVE  sub' \in SubDoc
    <3>1. p \in 1..MaxPeriods
      BY <2>2
    <3> QED
      BY <2>3, <3>1 DEF SubDoc
  <2>4. \/ sub' \in SubDoc /\ now' = now
        \/ sub' = sub /\ now < MaxPeriods /\ now' = now + 1
    BY <2>3 DEF SubscriptionMoves
  <2> QED
    BY <2>1, <2>2, <2>4
<1>2. GateTypeInv'
  BY <1>1 DEF GatingInv, GateTypeInv, Meanwhile
<1>3. ASSUME NEW q \in Checks \ overtaken' PROVE Fresh(check[q])'
  <2>1. check'[q] = NoCheck
    BY <1>1 DEF Meanwhile
  <2>2. check'[q].at = "idle"
    BY <2>1, NoCheckTyped
  <2> QED
    BY <2>2 DEF Fresh
<1> QED
  BY <1>2, <1>3 DEF GatingInv, FreshInv

-----------------------------------------------------------------------------
(* What follows for the checks *)

LEMMA GatingStarts == BillingInit /\ GatingInit => GatingInv
<1> SUFFICES ASSUME BillingInit, GatingInit PROVE GatingInv
  OBVIOUS
<1>1. /\ spent = [c \in Counters |-> [p \in UsagePeriods |-> 0]]
      /\ check = [q \in Checks |-> NoCheck] /\ overtaken = {} /\ checkCalls = 0
      /\ sub = NoSub /\ now = 1
  BY DEF GatingInit, BillingInit
<1>2. GateTypeInv
  <2>1. 1 \in 1..MaxPeriods /\ 0 \in 0..MaxChecks
    BY BillingAssumption, GatingAssumption
  <2>2. check \in [Checks -> CheckState] /\ \A q \in Checks : check[q].at = "idle"
    BY <1>1, NoCheckTyped
  <2>3. spent \in [Counters -> [UsagePeriods -> Nat]]
    BY <1>1
  <2> QED
    BY <1>1, <2>1, <2>2, <2>3 DEF GateTypeInv
<1>3. FreshInv
  BY <1>1, NoCheckTyped DEF FreshInv, Fresh
<1> QED
  BY <1>2, <1>3 DEF GatingInv

LEMMA GatingStep == GatingInv /\ [GatingNext]_<<sub, now, gatingVars>> => GatingInv'
<1> SUFFICES ASSUME GatingInv, [GatingNext]_<<sub, now, gatingVars>> PROVE GatingInv'
  OBVIOUS
<1>1. ResolveEntitlement \in Plans \cup {Free} /\ Free \in Plans \cup {Free}
  BY EntitlementTyped DEF GatingInv
<1>2. "research" \in Gated /\ "pages" \in Gated /\ Counters \subseteq Gated
      /\ "research" \notin Counters /\ "pages" \notin Counters
  BY DEF Gated, Counters
<1>3. ASSUME NEW q \in Checks, UNCHANGED <<sub, now>>,
             \/ AssertResearchAccess(q) \/ AssertCompanyPagesAccess(q) \/ GetDashboardUsage(q)
      PROVE  GatingInv'
  BY <1>1, <1>2, <1>3, Asks DEF AssertResearchAccess, AssertCompanyPagesAccess, GetDashboardUsage
<1>4. ASSUME NEW q \in Checks, NEW c \in Counters, UNCHANGED <<sub, now>>,
             AssertHeadroom(q, c) \/ Count(q, c)
      PROVE  GatingInv'
  <2>1. c \in Gated \cup {"dashboard"} /\ c # "dashboard"
    BY <1>2 DEF Counters
  <2>2. CASE Count(q, c)
    BY <1>1, <1>4, <2>1, <2>2, Asks DEF Count
  <2>3. CASE AssertHeadroom(q, c)
    <3>1. CASE GetLimitFromTier(ResolveEntitlement, c) = Unlimited
      BY <1>1, <1>4, <2>1, <2>3, <3>1, Asks DEF AssertHeadroom
    <3>2. CASE GetLimitFromTier(ResolveEntitlement, c) # Unlimited
      BY <1>1, <1>4, <2>1, <2>3, <3>2, Asks DEF AssertHeadroom
    <3> QED
      BY <3>1, <3>2
  <2> QED
    BY <1>4, <2>2, <2>3
<1>5. ASSUME NEW q \in Checks, UNCHANGED <<sub, now>>,
             ReadsPeriod(q) \/ ReadsUsage(q) \/ Adds(q) \/ Answers(q)
      PROVE  GatingInv'
  BY <1>5, ReadsPeriodInv, ReadsUsageInv, EndsInv
<1>6. CASE SubscriptionMoves
  BY <1>6, MovesInv
<1>7. CASE UNCHANGED <<sub, now, gatingVars>>
  BY <1>7 DEF gatingVars, GatingInv, GateTypeInv, FreshInv, Fresh, ResolveEntitlement,
     ResolveUsagePeriod, Current
<1> QED
  BY <1>3, <1>4, <1>5, <1>6, <1>7 DEF GatingNext

\* Whatever webhooks and periods do between the reads of a check, the invariant holds.
THEOREM GatingInvariance == GatingSpec => []GatingInv
BY GatingStarts, GatingStep, PTL DEF GatingSpec

LEMMA GatingTypes == GatingInv => GatingTypeOK
BY DEF GatingInv, GateTypeInv, GatingTypeOK, CheckState, Doings

\* Counters, checks and what they have read are well typed.
THEOREM GatingTyped == GatingSpec => []GatingTypeOK
BY GatingTypes, GatingInvariance, PTL

LEMMA AgreeHolds == GatingInv => AnswersAgree
<1> SUFFICES ASSUME GatingInv, NEW q \in Checks \ overtaken, NEW r, r = check[q],
                    r.at = "answered"
             PROVE  /\ r.tier = GetBillingSummary.tier
                    /\ r.what = "dashboard" => (r.tier = Free) = (r.period.source = "default")
                    /\ \A c \in Counters :
                         r.what \in {c, "dashboard"} /\ GetLimitFromTier(r.tier, c) # Unlimited =>
                         /\ r.period = ResolveUsagePeriod
                         /\ r.used[c] <= spent[c][r.period]
                         /\ HasHeadroom(GetLimitFromTier(r.tier, c), r.used[c])
                              = (Remaining(c, GetLimitFromTier(r.tier, c), r.used[c]) # 0)
  BY DEF AnswersAgree
<1> USE DEF GatingInv
<1>1. r \in CheckState /\ Fresh(r)
  BY DEF GateTypeInv, FreshInv
<1>2. r.tier = ResolveEntitlement
  BY <1>1 DEF Fresh
<1>3. r.tier = GetBillingSummary.tier
  BY <1>2 DEF GetBillingSummary, ResolveEntitlement
<1>4. ASSUME r.what = "dashboard"
      PROVE  (r.tier = Free) = (r.period.source = "default")
  <2>1. r.period = ResolveUsagePeriod
    BY <1>1, <1>4 DEF Fresh
  <2>2. CASE Current
    <3>1. sub.tier \in Plans /\ r.tier = sub.tier
      BY <1>2, <2>2 DEF Current, GateTypeInv, SubDoc, ResolveEntitlement
    <3>2. r.period.source = "subscription"
      BY <2>1, <2>2 DEF ResolveUsagePeriod
    <3> QED
      BY <3>1, <3>2, BillingAssumption
  <2>3. CASE ~Current
    BY <1>2, <2>1, <2>3 DEF ResolveEntitlement, ResolveUsagePeriod
  <2> QED
    BY <2>2, <2>3
<1>5. ASSUME NEW c \in Counters, r.what \in {c, "dashboard"},
             GetLimitFromTier(r.tier, c) # Unlimited
      PROVE  /\ r.period = ResolveUsagePeriod
             /\ r.used[c] <= spent[c][r.period]
             /\ HasHeadroom(GetLimitFromTier(r.tier, c), r.used[c])
                  = (Remaining(c, GetLimitFromTier(r.tier, c), r.used[c]) # 0)
  <2>1. r.period = ResolveUsagePeriod /\ r.used[c] <= spent[c][r.period]
    BY <1>1, <1>5 DEF Fresh, LimitedTo
  <2>2. PICK limit : limit = GetLimitFromTier(r.tier, c)
    OBVIOUS
  <2>3. limit \in Int
    BY <2>2, GatingAssumption DEF GetLimitFromTier, FreeLimits, PaidLimits, Counters, Unlimited
  <2>4. r.used[c] \in Nat
    BY <1>1 DEF CheckState
  <2>5. HasHeadroom(limit, r.used[c]) <=> r.used[c] < limit
    BY <1>5, <2>2 DEF HasHeadroom
  <2>6. Remaining(c, limit, r.used[c]) # 0 <=> r.used[c] < limit
    BY <1>5, <2>2, <2>3, <2>4 DEF Remaining, CalculateRemaining
  <2>7. HasHeadroom(limit, r.used[c]) = (Remaining(c, limit, r.used[c]) # 0)
    <3>1. HasHeadroom(limit, r.used[c]) \in BOOLEAN
      BY DEF HasHeadroom
    <3> QED
      BY <2>5, <2>6, <3>1
  <2> QED
    BY <2>1, <2>2, <2>7
<1> QED
  BY <1>3, <1>4, <1>5

\* A check and the dashboard look at one tier and one period, those of the plan
\* page and of the next debit, unless the subscription moved between the reads
\* (assertBalance, assertScheduledPostQuota, getDashboardUsage, debit).
THEOREM AnswersMatch == GatingSpec => []AnswersAgree
BY AgreeHolds, GatingInvariance, PTL

-----------------------------------------------------------------------------
(* Sums of finite functions *)

Picked(s) == CHOOSE x \in s : TRUE
AddsUp(f, g, s) == IF s = {} THEN 0 ELSE f[Picked(s)] + g[s \ {Picked(s)}]
Unfold(f, S, g) == [s \in SUBSET S |-> AddsUp(f, g, s)]

\* SumFunctionOnSet is the choice of a function that unfolds so.
LEMMA SumIsChosen ==
  ASSUME NEW f, NEW S
  PROVE  SumFunctionOnSet(f, S) = (CHOOSE g : g = Unfold(f, S, g))[S]
BY DEF SumFunctionOnSet, FoldFunctionOnSet, MapThenFoldSet, Picked, Unfold, AddsUp

\* Induction, as the least counterexample: a set of numbers has a least element.
LEMMA LeastNumber ==
  ASSUME NEW T, T \subseteq Nat, T # {}
  PROVE  \E m \in T : \A n \in T : m <= n
<1> DEFINE Less == {p \in Nat \X Nat : p[1] < p[2]}
<1>1. IsWellFoundedOn(Less, Nat)
  BY NatLessThanWellFounded, Zenon DEF OpToRel
<1>2. PICK m \in T : \A n \in T : ~ (<<n, m>> \in Less)
  <2> HIDE DEF Less
  <2> QED BY <1>1, WFMin, Zenon
<1>3. ASSUME NEW n \in T, n < m
      PROVE  FALSE
  <2> DEFINE p == <<n, m>>
  <2>1. p \in Nat \X Nat /\ p[1] < p[2]
    BY <1>3
  <2>2. p \in Less
    BY <2>1
  <2> QED
    BY <2>2, <1>2
<1>4. \A n \in T : m <= n
  BY <1>3
<1> QED
  BY <1>4

LEMMA UnfoldExists ==
  ASSUME NEW f, NEW S, IsFiniteSet(S)
  PROVE  \E g : g = Unfold(f, S, g)
<1> DEFINE Small(n) == {s \in SUBSET S : Cardinality(s) <= n}
           Good(n)  == \E g : \A s \in Small(n) : g[s] = AddsUp(f, g, s)
           Bad      == {n \in Nat : ~Good(n)}
<1>1. \A s \in SUBSET S : IsFiniteSet(s) /\ Cardinality(s) \in Nat
  BY FS_Subset, FS_CardinalityType
<1>2. \A s \in SUBSET S : s # {} =>
        /\ Picked(s) \in s /\ s \ {Picked(s)} \in SUBSET S
        /\ Cardinality(s \ {Picked(s)}) = Cardinality(s) - 1
  BY <1>1, FS_RemoveElement DEF Picked
<1>3. \A s \in SUBSET S : Cardinality(s) = 0 => s = {}
  BY <1>1, FS_EmptySet
<1>4. Bad = {}
  <2> SUFFICES ASSUME Bad # {}
               PROVE  FALSE
    OBVIOUS
  <2>1. PICK m \in Bad : \A n \in Bad : m <= n
    BY LeastNumber
  <2>2. m \in Nat /\ ~Good(m)
    BY <2>1
  <2>3. CASE m = 0
    <3> DEFINE g == [s \in {{}} |-> 0]
    <3>1. \A s \in Small(0) : s = {}
      BY <1>1, <1>3
    <3>2. \A s \in Small(0) : g[s] = AddsUp(f, g, s)
      BY <3>1 DEF AddsUp
    <3> QED
      BY <3>2, <2>2, <2>3
  <2>4. CASE m # 0
    <3>1. m - 1 \in Nat /\ m - 1 \notin Bad
      BY <2>1, <2>2, <2>4
    <3>2. Good(m - 1)
      BY <3>1
    <3>3. PICK g : \A s \in Small(m - 1) : g[s] = AddsUp(f, g, s)
      BY <3>2
    <3> DEFINE h == [s \in SUBSET S |-> IF Cardinality(s) <= m - 1 THEN g[s] ELSE AddsUp(f, g, s)]
    <3>4. \A s \in Small(m) : s # {} => h[s \ {Picked(s)}] = g[s \ {Picked(s)}]
      BY <1>1, <1>2, <2>2
    <3>5. \A s \in Small(m) : AddsUp(f, h, s) = AddsUp(f, g, s)
      BY <3>4 DEF AddsUp
    <3>6. \A s \in Small(m) : h[s] = AddsUp(f, g, s)
      BY <3>3
    <3>7. \A s \in Small(m) : h[s] = AddsUp(f, h, s)
      BY <3>5, <3>6
    <3>8. Good(m)
      <4> HIDE DEF h
      <4> QED BY <3>7
    <3> QED
      BY <3>8, <2>2
  <2> QED
    BY <2>3, <2>4
<1>5. Good(Cardinality(S))
  BY <1>1, <1>4
<1>6. PICK g : \A s \in Small(Cardinality(S)) : g[s] = AddsUp(f, g, s)
  BY <1>5
<1>7. \A s \in SUBSET S : s \in Small(Cardinality(S))
  BY FS_Subset
<1>8. \A s \in SUBSET S : g[s] = AddsUp(f, g, s)
  BY <1>6, <1>7
<1> DEFINE h == [s \in SUBSET S |-> g[s]]
<1>9. \A s \in SUBSET S : AddsUp(f, h, s) = AddsUp(f, g, s)
  BY <1>2 DEF AddsUp
<1>10. h = Unfold(f, S, h)
  BY <1>8, <1>9 DEF Unfold
<1> QED
  BY <1>10

\* How the sum of a finite function unfolds, for all parts of its indices.
UnfoldsTo(f, S, g) ==
  /\ SumFunctionOnSet(f, S) = g[S]
  /\ \A s \in SUBSET S : g[s] = AddsUp(f, g, s)

LEMMA SumUnfolds ==
  ASSUME NEW f, NEW S, IsFiniteSet(S)
  PROVE  \E g : UnfoldsTo(f, S, g)
<1> DEFINE g == CHOOSE g : g = Unfold(f, S, g)
<1>1. g = Unfold(f, S, g)
  BY UnfoldExists
<1>2. SumFunctionOnSet(f, S) = g[S]
  BY SumIsChosen
<1>3. \A s \in SUBSET S : g[s] = AddsUp(f, g, s)
  <2> HIDE DEF g
  <2>1. \A s \in SUBSET S : g[s] = Unfold(f, S, g)[s]
    BY <1>1, Zenon
  <2> QED
    BY <2>1 DEF Unfold
<1> QED
  BY <1>2, <1>3 DEF UnfoldsTo

\* A set of finite sets holds one from which nothing can be taken.
LEMMA LeastSubset ==
  ASSUME NEW S, IsFiniteSet(S), NEW B, B \subseteq SUBSET S, B # {}
  PROVE  \E s \in B : s # {} => s \ {Picked(s)} \in (SUBSET S) \ B
<1> DEFINE T == {Cardinality(s) : s \in B}
<1>1. \A s \in SUBSET S : IsFiniteSet(s) /\ Cardinality(s) \in Nat
  BY FS_Subset, FS_CardinalityType
<1>2. T \subseteq Nat /\ T # {}
  BY <1>1
<1>3. PICK m \in T : \A n \in T : m <= n
  <2> HIDE DEF T
  <2> QED BY <1>2, LeastNumber
<1>4. PICK s \in B : Cardinality(s) = m
  OBVIOUS
<1>5. s # {} => Cardinality(s \ {Picked(s)}) = Cardinality(s) - 1
  BY <1>1, FS_RemoveElement DEF Picked
<1>6. s # {} => s \ {Picked(s)} \notin B
  <2> SUFFICES ASSUME s # {}, s \ {Picked(s)} \in B
               PROVE  FALSE
    OBVIOUS
  <2>1. Cardinality(s \ {Picked(s)}) \in T
    OBVIOUS
  <2> QED
    BY <2>1, <1>1, <1>3, <1>4, <1>5
<1> QED
  BY <1>6

LEMMA SumIsNat ==
  ASSUME NEW S, IsFiniteSet(S), NEW f \in [S -> Nat]
  PROVE  SumFunctionOnSet(f, S) \in Nat
<1>1. PICK g : UnfoldsTo(f, S, g)
  BY SumUnfolds, Zenon
<1> DEFINE B == {s \in SUBSET S : g[s] \notin Nat}
<1>2. B = {}
  <2> SUFFICES ASSUME B # {} PROVE FALSE
    OBVIOUS
  <2>1. PICK s \in B : s # {} => s \ {Picked(s)} \in (SUBSET S) \ B
    <3> HIDE DEF B
    <3>1. B \subseteq SUBSET S
      BY DEF B
    <3> QED BY <3>1, LeastSubset
  <2>2. s # {} => Picked(s) \in s
    BY DEF Picked
  <2>3. g[s] = IF s = {} THEN 0 ELSE f[Picked(s)] + g[s \ {Picked(s)}]
    BY <1>1, <2>1 DEF AddsUp, UnfoldsTo
  <2>4. g[s] \in Nat
    BY <2>1, <2>2, <2>3
  <2> QED
    BY <2>1, <2>4
<1> QED
  BY <1>1, <1>2 DEF UnfoldsTo

\* One summand changes: the sum changes by as much, in whatever order it is taken.
\* One value of the function grows, and the sum by as much.
LEMMA SumAdds ==
  ASSUME NEW S, IsFiniteSet(S), NEW f \in [S -> Nat], NEW c \in S, NEW d \in Nat,
         NEW h \in [S -> Nat], h[c] = f[c] + d, \A x \in S : x # c => h[x] = f[x]
  PROVE  SumFunctionOnSet(h, S) = SumFunctionOnSet(f, S) + d
<1>1. PICK g : UnfoldsTo(f, S, g)
  BY SumUnfolds, Zenon
<1>2. PICK k : UnfoldsTo(h, S, k)
  BY SumUnfolds, Zenon
<1> DEFINE Holds(s) == g[s] \in Nat /\ k[s] = g[s] + (IF c \in s THEN d ELSE 0)
           B == {s \in SUBSET S : ~Holds(s)}
<1>3. B = {}
  <2> SUFFICES ASSUME B # {} PROVE FALSE
    OBVIOUS
  <2>1. PICK s \in B : s # {} => s \ {Picked(s)} \in (SUBSET S) \ B
    <3> HIDE DEF B
    <3>1. B \subseteq SUBSET S
      BY DEF B
    <3> QED BY <3>1, LeastSubset
  <2>2. s # {} => Picked(s) \in s
    BY DEF Picked
  <2>3. CASE s = {}
    <3>1. g[s] = 0 /\ k[s] = 0
      BY <2>1, <2>3, <1>1, <1>2 DEF AddsUp, UnfoldsTo
    <3>2. Holds(s)
      BY <3>1, <2>3
    <3> QED
      BY <3>2, <2>1
  <2>4. CASE s # {}
    <3> DEFINE t == s \ {Picked(s)}
    <3>1. g[s] = f[Picked(s)] + g[t] /\ k[s] = h[Picked(s)] + k[t]
      BY <2>4, <1>1, <1>2, <2>1 DEF AddsUp, UnfoldsTo
    <3>2. g[t] \in Nat /\ k[t] = g[t] + (IF c \in t THEN d ELSE 0)
      BY <2>1, <2>4
    <3>3. f[Picked(s)] \in Nat /\ h[Picked(s)] = f[Picked(s)] + (IF Picked(s) = c THEN d ELSE 0)
      BY <2>1, <2>2, <2>4
    <3>4. (c \in s) <=> (Picked(s) = c \/ c \in t)
      BY <2>2, <2>4
    <3>5. c \notin t \/ Picked(s) # c
      OBVIOUS
    <3> HIDE DEF t
    <3>6. Holds(s)
      BY <3>1, <3>2, <3>3, <3>4, <3>5
    <3> QED
      BY <3>6, <2>1
  <2> QED
    BY <2>3, <2>4
<1>4. Holds(S)
  BY <1>3
<1>5. g[S] \in Nat /\ k[S] = g[S] + d
  BY <1>4
<1> QED
  BY <1>1, <1>2, <1>5 DEF UnfoldsTo

LEMMA SumOfNothing ==
  ASSUME NEW S, IsFiniteSet(S)
  PROVE  SumFunctionOnSet([x \in S |-> 0], S) = 0
<1> DEFINE f == [x \in S |-> 0]
<1>1. PICK g : UnfoldsTo(f, S, g)
  <2> HIDE DEF f
  <2> QED BY SumUnfolds, Zenon
<1> DEFINE B == {s \in SUBSET S : g[s] # 0}
<1>2. B = {}
  <2> SUFFICES ASSUME B # {} PROVE FALSE
    OBVIOUS
  <2>1. PICK s \in B : s # {} => s \ {Picked(s)} \in (SUBSET S) \ B
    <3> HIDE DEF B
    <3>1. B \subseteq SUBSET S
      BY DEF B
    <3> QED BY <3>1, LeastSubset
  <2>2. s # {} => Picked(s) \in s
    BY DEF Picked
  <2>3. g[s] = IF s = {} THEN 0 ELSE f[Picked(s)] + g[s \ {Picked(s)}]
    BY <1>1, <2>1 DEF AddsUp, UnfoldsTo
  <2>4. g[s] = 0
    BY <2>1, <2>2, <2>3
  <2> QED
    BY <2>1, <2>4
<1> QED
  BY <1>1, <1>2 DEF UnfoldsTo

LEMMA MaxOfFinite ==
  ASSUME NEW T, IsFiniteSet(T), T \subseteq Nat, T # {}
  PROVE  Max(T) \in T /\ \A y \in T : y <= Max(T)
<1> DEFINE Top(s, m) == m \in s /\ \A y \in s : y <= m
           B == {s \in SUBSET T : s # {} /\ ~ \E m \in s : Top(s, m)}
<1>1. B = {}
  <2> SUFFICES ASSUME B # {} PROVE FALSE
    OBVIOUS
  <2>1. PICK s \in B : s # {} => s \ {Picked(s)} \in (SUBSET T) \ B
    <3> HIDE DEF B
    <3>1. B \subseteq SUBSET T
      BY DEF B
    <3> QED BY <3>1, LeastSubset
  <2>2. s # {} /\ Picked(s) \in s /\ s \subseteq Nat
    BY <2>1 DEF Picked
  <2> DEFINE t == s \ {Picked(s)}
  <2>3. CASE t = {}
    <3>1. Top(s, Picked(s))
      BY <2>2, <2>3
    <3> QED
      BY <3>1, <2>1, <2>2
  <2>4. CASE t # {}
    <3>1. PICK m \in t : Top(t, m)
      BY <2>1, <2>2, <2>4
    <3>2. CASE m <= Picked(s)
      <4>1. Top(s, Picked(s))
        BY <3>1, <3>2, <2>2
      <4> QED BY <4>1, <2>1, <2>2
    <3>3. CASE ~ (m <= Picked(s))
      <4>1. Top(s, m) /\ m \in s
        BY <3>1, <3>3, <2>2
      <4> QED BY <4>1, <2>1, <2>2
    <3> QED
      BY <3>2, <3>3
  <2> QED
    BY <2>3, <2>4
<1>2. \E m \in T : \A y \in T : y <= m
  BY <1>1
<1>3. \E m \in T : \A y \in T : m >= y
  BY <1>2
<1>4. Max(T) \in T /\ \A y \in T : Max(T) >= y
  BY <1>3, Zenon DEF Max
<1> QED
  BY <1>4

LEMMA ImageIsFinite ==
  ASSUME NEW S, IsFiniteSet(S), NEW f, DOMAIN f = S
  PROVE  IsFiniteSet({f[x] : x \in S})
<1> DEFINE T == {f[x] : x \in S}
           g == [x \in S |-> f[x]]
<1>1. g \in Surjection(S, T)
  BY DEF Surjection
<1> HIDE DEF g, T
<1>2. IsFiniteSet(T)
  BY <1>1, FS_Surjection, Zenon
<1> QED
  BY <1>2 DEF T

LEMMA Priced ==
  /\ \A c \in Costs : LlmCredits(c) \in Nat
  /\ \A u \in Nat : PdfCredits(u) \in Nat
  /\ PdfCredits(0) = 0
  /\ Max({LlmCredits(c) : c \in Costs}) \in Nat
  /\ \A c \in Costs : LlmCredits(c) <= Max({LlmCredits(c1) : c1 \in Costs})
  /\ Max({PdfCredits(u) : u \in RenderUnits}) \in Nat
  /\ \A u \in RenderUnits : PdfCredits(u) <= Max({PdfCredits(v) : v \in RenderUnits})
<1> USE AgentAssumption
<1>1. \A c \in Costs : LlmCredits(c) \in Nat
  BY DEF LlmCredits, ToWholeCredits
<1>2. \A u \in Nat : PdfCredits(u) \in Nat
  BY DEF PdfCredits
<1>3. PdfCredits(0) = 0
  BY DEF PdfCredits
<1>4. IsFiniteSet({LlmCredits(c) : c \in Costs})
  <2> DEFINE f == [c \in Costs |-> LlmCredits(c)]
  <2>1. IsFiniteSet({f[c] : c \in Costs})
    <3>1. DOMAIN f = Costs
      OBVIOUS
    <3> HIDE DEF f
    <3> QED BY <3>1, ImageIsFinite
  <2>2. {f[c] : c \in Costs} = {LlmCredits(c) : c \in Costs}
    OBVIOUS
  <2> QED BY <2>1, <2>2
<1>5. IsFiniteSet({PdfCredits(u) : u \in RenderUnits})
  <2> DEFINE f == [u \in RenderUnits |-> PdfCredits(u)]
  <2>1. IsFiniteSet({f[u] : u \in RenderUnits})
    <3>1. DOMAIN f = RenderUnits
      OBVIOUS
    <3> HIDE DEF f
    <3> QED BY <3>1, ImageIsFinite
  <2>2. {f[u] : u \in RenderUnits} = {PdfCredits(u) : u \in RenderUnits}
    OBVIOUS
  <2> QED BY <2>1, <2>2
<1>6. /\ {LlmCredits(c) : c \in Costs} \subseteq Nat /\ {LlmCredits(c) : c \in Costs} # {}
      /\ {PdfCredits(u) : u \in RenderUnits} \subseteq Nat
      /\ {PdfCredits(u) : u \in RenderUnits} # {}
  BY <1>1, <1>2
<1>7. /\ Max({LlmCredits(c) : c \in Costs}) \in {LlmCredits(c) : c \in Costs}
      /\ \A y \in {LlmCredits(c) : c \in Costs} : y <= Max({LlmCredits(c) : c \in Costs})
  BY <1>4, <1>6, MaxOfFinite
<1>8. /\ Max({PdfCredits(u) : u \in RenderUnits}) \in {PdfCredits(u) : u \in RenderUnits}
      /\ \A y \in {PdfCredits(u) : u \in RenderUnits} : y <= Max({PdfCredits(u) : u \in RenderUnits})
  BY <1>5, <1>6, MaxOfFinite
<1> QED
  BY <1>1, <1>2, <1>3, <1>6, <1>7, <1>8

-----------------------------------------------------------------------------
(* Prices, and the turns that are billed *)

\* The dearest turn and the dearest deck; what turns and searches cost at most.
TurnPrice == Max({LlmCredits(c) : c \in Costs})
DeckPrice == Max({PdfCredits(u) : u \in RenderUnits})

Spent(turns, searches) == turns * TurnPrice + searches * SearchCredits

LEMMA SpentGrows ==
  ASSUME NEW a \in Nat, NEW b \in Nat
  PROVE  /\ Spent(a, b) \in Nat
         /\ Spent(a + 1, b) = Spent(a, b) + TurnPrice
         /\ Spent(a, b + 1) = Spent(a, b) + SearchCredits
         /\ \A x \in Nat, y \in Nat : a <= x /\ b <= y => Spent(a, b) <= Spent(x, y)
<1>1. TurnPrice \in Nat /\ SearchCredits \in Nat
  BY Priced, AgentAssumption DEF TurnPrice
<1> HIDE DEF TurnPrice
<1>2. \A x \in Nat, y \in Nat, p \in Nat : x * p \in Nat /\ (x <= y => x * p <= y * p)
                                             /\ (x + 1) * p = x * p + p
  OBVIOUS
<1>3. /\ a * TurnPrice \in Nat /\ b * SearchCredits \in Nat
      /\ (a + 1) * TurnPrice = a * TurnPrice + TurnPrice
      /\ (b + 1) * SearchCredits = b * SearchCredits + SearchCredits
  BY <1>1, <1>2
<1>4. ASSUME NEW x \in Nat, NEW y \in Nat, a <= x, b <= y
      PROVE  Spent(a, b) <= Spent(x, y)
  <2>1. /\ a * TurnPrice <= x * TurnPrice /\ b * SearchCredits <= y * SearchCredits
        /\ x * TurnPrice \in Nat /\ y * SearchCredits \in Nat
    BY <1>1, <1>2, <1>4
  <2> QED
    BY <2>1, <1>3 DEF Spent
<1> QED
  BY <1>1, <1>3, <1>4 DEF Spent

\* The part of BilledAsUsed that is about turns.
TurnsBill(turns) == SumFunction([c \in Costs |-> turns[c] * LlmCredits(c)])

LEMMA TurnBilled ==
  ASSUME NEW t \in [Costs -> Nat], NEW c \in Costs
  PROVE  /\ TurnsBill(t) \in Nat
         /\ TurnsBill([t EXCEPT ![c] = t[c] + 1]) = TurnsBill(t) + LlmCredits(c)
<1> DEFINE u == [t EXCEPT ![c] = t[c] + 1]
           f == [x \in Costs |-> t[x] * LlmCredits(x)]
           h == [x \in Costs |-> u[x] * LlmCredits(x)]
<1>1. IsFiniteSet(Costs) /\ \A x \in Costs : LlmCredits(x) \in Nat
  BY AgentAssumption, Priced
<1>2. \A x \in Nat, p \in Nat : x * p \in Nat /\ (x + 1) * p = x * p + p
  OBVIOUS
<1>3. f \in [Costs -> Nat]
  BY <1>1, <1>2
<1>4. u \in [Costs -> Nat] /\ u[c] = t[c] + 1 /\ \A x \in Costs : x # c => u[x] = t[x]
  OBVIOUS
<1> HIDE DEF u
<1>5. h \in [Costs -> Nat]
  BY <1>1, <1>2, <1>4
<1>6. h[c] = f[c] + LlmCredits(c)
  BY <1>1, <1>2, <1>4
<1>7. \A x \in Costs : x # c => h[x] = f[x]
  BY <1>4
<1>8. TurnsBill(t) = SumFunctionOnSet(f, Costs) /\ TurnsBill(u) = SumFunctionOnSet(h, Costs)
  BY DEF TurnsBill, SumFunction
<1> HIDE DEF f, h
<1>9. SumFunctionOnSet(f, Costs) \in Nat
  BY <1>1, <1>3, SumIsNat
<1>10. SumFunctionOnSet(h, Costs) = SumFunctionOnSet(f, Costs) + LlmCredits(c)
  BY <1>1, <1>3, <1>5, <1>6, <1>7, SumAdds
<1> QED
  BY <1>8, <1>9, <1>10 DEF u

LEMMA NothingBilled ==
  TurnsBill([c \in Costs |-> 0]) = 0
<1> DEFINE t == [c \in Costs |-> 0]
<1>1. \A c \in Costs : t[c] * LlmCredits(c) = 0
  BY Priced
<1>2. [c \in Costs |-> t[c] * LlmCredits(c)] = [c \in Costs |-> 0]
  BY <1>1
<1>3. TurnsBill(t) = SumFunctionOnSet([c \in Costs |-> 0], Costs)
  BY <1>2 DEF TurnsBill, SumFunction
<1> QED
  BY <1>3, SumOfNothing, AgentAssumption
-----------------------------------------------------------------------------
(* The invariant of a run *)

JobsOK  == [at : {"none", "queued"} \cup Phases, plan : Plan, tries : Nat, loop : Locals]
GotOK   == [turns : [Costs -> Nat], searches : Nat, units : RenderUnits \cup {0}]

\* The research loop of job j stays within its caps.
LoopFits(j) ==
  /\ j.at \in {"turn", "tools"} => j.loop.step < MaxSteps /\ j.loop.found <= SearchCap
  /\ j.at = "turn" => j.loop.flying = 0 /\ j.loop.won = 0
  /\ j.at = "tools" =>
       /\ j.loop.found + j.loop.won + j.loop.flying <= SearchCap
       /\ j.loop.flying = 0 => j.loop.won = 0

\* What its meter can show by then.
MeterFits(j, n) ==
  /\ j.at = "turn"   => n <= Spent(j.loop.step, j.loop.found)
  /\ j.at = "tools"  => n <= Spent(j.loop.step + 1, j.loop.found + j.loop.won)
  /\ j.at = "final"  => n <= Spent(MaxSteps, SearchCap)
  /\ j.at = "draft"  => n <= Spent(MaxSteps + 1, SearchCap)
  /\ j.at = "repair" => n <= Spent(MaxSteps + 2, SearchCap)
  /\ j.at = "render" => n <= Spent(MaxSteps + 3, SearchCap)
  /\ j.at = "commit" => n <= Spent(MaxSteps + 3, SearchCap) + DeckPrice

\* And what it does show.
Billed(j, n, g) ==
  /\ j.at \in Phases =>
       n = TurnsBill(g.turns) + g.searches * SearchCredits + PdfCredits(g.units)
  /\ j.at \in Phases \ {"commit"} => g.units = 0

\* Of one run: job j, history n of credits and g of what providers gave.
RunInv(j, n, g) ==
  /\ j \in JobsOK /\ n \in Nat /\ g \in GotOK
  /\ LoopFits(j) /\ MeterFits(j, n) /\ Billed(j, n, g)

\* The inductive invariant.
AgentInv ==
  /\ AgentTypeOK
  /\ \A r \in Runs : RunInv(job[r], credits[r], got[r])
  /\ OvershootBounded

MovedTo(j, at, loop) == [j EXCEPT !.at = at, !.loop = loop]

LEMMA MovedFields ==
  ASSUME NEW j \in JobsOK, NEW at \in {"none", "queued"} \cup Phases, NEW loop \in Locals
  PROVE  /\ MovedTo(j, at, loop) \in JobsOK
         /\ MovedTo(j, at, loop).at = at /\ MovedTo(j, at, loop).loop = loop
BY DEF MovedTo, JobsOK

LEMMA Places ==
  /\ "turn" \in Phases /\ "tools" \in Phases /\ "final" \in Phases /\ "draft" \in Phases
  /\ "repair" \in Phases /\ "render" \in Phases /\ "commit" \in Phases
BY DEF Phases

LEMMA MovedOn ==
  ASSUME NEW j \in JobsOK, NEW at \in Phases, NEW loop \in Locals
  PROVE  /\ MovedTo(j, at, loop) \in JobsOK
         /\ MovedTo(j, at, loop).at = at /\ MovedTo(j, at, loop).loop = loop
BY DEF MovedTo, JobsOK

\* One run moves.
OneRun(r, j, n, g) ==
  /\ job' = [job EXCEPT ![r] = j]
  /\ credits' = [credits EXCEPT ![r] = n]
  /\ got' = [got EXCEPT ![r] = g]

\* What a call of a provider adds to the history.
Answered(g, c) == [g EXCEPT !.turns = [g.turns EXCEPT ![c] = g.turns[c] + 1]]
Searched(g, n) == [g EXCEPT !.searches = g.searches + n]
Rendered(g, u) == [g EXCEPT !.units = u]

LEMMA GotFields ==
  ASSUME NEW g \in GotOK
  PROVE  /\ \A c \in Costs :
              /\ Answered(g, c) \in GotOK
              /\ Answered(g, c).turns = [g.turns EXCEPT ![c] = g.turns[c] + 1]
              /\ Answered(g, c).searches = g.searches /\ Answered(g, c).units = g.units
         /\ \A n \in Nat :
              /\ Searched(g, n) \in GotOK
              /\ Searched(g, n).turns = g.turns /\ Searched(g, n).searches = g.searches + n
              /\ Searched(g, n).units = g.units
         /\ \A u \in RenderUnits :
              /\ Rendered(g, u) \in GotOK
              /\ Rendered(g, u).turns = g.turns /\ Rendered(g, u).searches = g.searches
              /\ Rendered(g, u).units = u
BY DEF Answered, Searched, Rendered, GotOK

LEMMA Nowhere ==
  /\ NoJob \in JobsOK /\ NoJob.at = "none" /\ NoCalls \in Locals
  /\ NotYet \in GotOK /\ NotYet.units = 0 /\ NotYet.searches = 0
  /\ NotYet.turns = [c \in Costs |-> 0]
  /\ RunInv(NoJob, 0, NotYet)
<1>1. /\ NoJob \in JobsOK /\ NoJob.at = "none" /\ NoCalls \in Locals
  BY DEF NoJob, JobsOK, NoCalls, Locals, Plan
<1>2. /\ NotYet \in GotOK /\ NotYet.units = 0 /\ NotYet.searches = 0
      /\ NotYet.turns = [c \in Costs |-> 0]
  BY DEF NotYet, GotOK
<1>3. RunInv(NoJob, 0, NotYet)
  BY <1>1, <1>2 DEF RunInv, LoopFits, MeterFits, Billed, Phases
<1> QED
  BY <1>1, <1>2, <1>3

-----------------------------------------------------------------------------
(* Steps of one run *)

\* A step moves run r and keeps what is invariant of it; it is on its way only
\* if it was, or if the balance allowed it.
Steps(r) ==
  \E j, n, g :
    /\ OneRun(r, j, n, g) /\ RunInv(j, n, g)
    /\ j.at \in Phases => job[r].at \in Phases \/ usage < Limit

LEMMA Typed ==
  ASSUME AgentTypeOK
  PROVE  /\ job \in [Runs -> JobsOK] /\ credits \in [Runs -> Nat] /\ got \in [Runs -> GotOK]
         /\ usage \in Nat /\ agentFaults \in Nat
BY DEF AgentTypeOK, JobsOK, GotOK

LEMMA Forms ==
  ASSUME AgentTypeOK, NEW r \in Runs
  PROVE  /\ \A at, loop : MoveTo(r, at, loop) => job' = [job EXCEPT ![r] = MovedTo(job[r], at, loop)]
         /\ \A at : Goto(r, at) => job' = [job EXCEPT ![r] = MovedTo(job[r], at, job[r].loop)]
         /\ \A n : Record(r, n) => credits' = [credits EXCEPT ![r] = credits[r] + n]
         /\ UNCHANGED credits => credits' = [credits EXCEPT ![r] = credits[r]]
         /\ UNCHANGED got => got' = [got EXCEPT ![r] = got[r]]
         /\ \A c \in Costs : Completion(r, c) =>
              /\ credits' = [credits EXCEPT ![r] = credits[r] + LlmCredits(c)]
              /\ got' = [got EXCEPT ![r] = Answered(got[r], c)]
         /\ Finish(r) => OneRun(r, NoJob, 0, NotYet)
<1>1. \A at, loop : MoveTo(r, at, loop) => job' = [job EXCEPT ![r] = MovedTo(job[r], at, loop)]
  BY DEF MoveTo, MovedTo
<1>2. \A at : Goto(r, at) => job' = [job EXCEPT ![r] = MovedTo(job[r], at, job[r].loop)]
  BY <1>1 DEF Goto
<1>3. \A n : Record(r, n) => credits' = [credits EXCEPT ![r] = credits[r] + n]
  BY Typed DEF Record
<1>4. /\ UNCHANGED credits => credits' = [credits EXCEPT ![r] = credits[r]]
      /\ UNCHANGED got => got' = [got EXCEPT ![r] = got[r]]
  BY Typed
<1>5. ASSUME NEW c \in Costs, Completion(r, c)
      PROVE  /\ credits' = [credits EXCEPT ![r] = credits[r] + LlmCredits(c)]
             /\ got' = [got EXCEPT ![r] = Answered(got[r], c)]
  <2>1. credits' = [credits EXCEPT ![r] = credits[r] + LlmCredits(c)]
    BY <1>3, <1>5 DEF Completion
  <2>2. got' = [got EXCEPT ![r] = Answered(got[r], c)]
    BY <1>5, Typed DEF Completion, Answered, GotOK
  <2> QED BY <2>1, <2>2
<1>6. Finish(r) => OneRun(r, NoJob, 0, NotYet)
  BY DEF Finish, OneRun
<1> QED
  BY <1>1, <1>2, <1>3, <1>4, <1>5, <1>6

\* A completion pays for one turn and adds it to the bill.
LEMMA CompletionPays ==
  ASSUME NEW j \in JobsOK, NEW n \in Nat, NEW g \in GotOK, Billed(j, n, g),
         j.at \in Phases \ {"commit"}, NEW c \in Costs, NEW k \in JobsOK
  PROVE  /\ n + LlmCredits(c) \in Nat /\ n + LlmCredits(c) <= n + TurnPrice
         /\ Answered(g, c) \in GotOK
         /\ Billed(k, n + LlmCredits(c), Answered(g, c))
<1>1. LlmCredits(c) \in Nat /\ TurnPrice \in Nat /\ LlmCredits(c) <= TurnPrice
  BY Priced DEF TurnPrice
<1>2. /\ Answered(g, c) \in GotOK /\ Answered(g, c).searches = g.searches
      /\ Answered(g, c).units = g.units
      /\ Answered(g, c).turns = [g.turns EXCEPT ![c] = g.turns[c] + 1]
  BY GotFields
<1>3. g.turns \in [Costs -> Nat] /\ g.searches \in Nat /\ g.units = 0
  BY DEF GotOK, Billed
<1>4. /\ TurnsBill(g.turns) \in Nat
      /\ TurnsBill(Answered(g, c).turns) = TurnsBill(g.turns) + LlmCredits(c)
  BY <1>2, <1>3, TurnBilled
<1>5. g.searches * SearchCredits \in Nat /\ PdfCredits(g.units) \in Nat
  <2>1. SearchCredits \in Nat /\ \A x \in Nat, y \in Nat : x * y \in Nat
    BY AgentAssumption
  <2> QED BY <2>1, <1>3, Priced
<1>6. n = TurnsBill(g.turns) + g.searches * SearchCredits + PdfCredits(g.units)
  BY DEF Billed
<1>7. n + LlmCredits(c) = TurnsBill(Answered(g, c).turns)
                            + Answered(g, c).searches * SearchCredits + PdfCredits(Answered(g, c).units)
  <2> DEFINE s == g.searches * SearchCredits
             p == PdfCredits(g.units)
             t == TurnsBill(g.turns)
             l == LlmCredits(c)
  <2>1. s \in Nat /\ p \in Nat /\ t \in Nat /\ l \in Nat
    BY <1>1, <1>4, <1>5
  <2>2. n = t + s + p /\ TurnsBill(Answered(g, c).turns) = t + l
    BY <1>4, <1>6
  <2>3. Answered(g, c).searches * SearchCredits = s /\ PdfCredits(Answered(g, c).units) = p
    BY <1>2
  <2> HIDE DEF s, p, t, l
  <2>4. n + l = (t + l) + s + p
    BY <2>1, <2>2
  <2> QED
    BY <2>2, <2>3, <2>4 DEF l
<1> QED
  BY <1>1, <1>2, <1>3, <1>7 DEF Billed

\* A run that moves and is given nothing.
LEMMA BilledBefore ==
  ASSUME NEW j, NEW n, NEW g, NEW k, Billed(j, n, g),
         k.at \in Phases => j.at \in Phases, k.at \in Phases \ {"commit"} => j.at # "commit"
  PROVE  Billed(k, n, g)
BY DEF Billed

-----------------------------------------------------------------------------
(* The actions of a run *)

LEMMA Held ==
  ASSUME NEW j \in JobsOK, NEW n \in Nat, NEW g \in GotOK, j.at \notin Phases
  PROVE  RunInv(j, n, g)
BY DEF RunInv, LoopFits, MeterFits, Billed, Phases

LEMMA InvParts ==
  ASSUME NEW j, NEW n, NEW g, RunInv(j, n, g)
  PROVE  /\ j \in JobsOK /\ n \in Nat /\ g \in GotOK
         /\ j.loop \in Locals /\ j.plan \in Plan /\ j.at \in {"none", "queued"} \cup Phases
         /\ LoopFits(j) /\ MeterFits(j, n) /\ Billed(j, n, g)
BY DEF RunInv, JobsOK

LEMMA StepLaunch ==
  ASSUME AgentInv, NEW r \in Runs, NEW plan \in Plan, Launch(r, plan)
  PROVE  Steps(r)
<1> DEFINE j == [NoJob EXCEPT !.at = "queued", !.plan = plan]
<1>1. j \in JobsOK /\ j.at = "queued"
  BY Nowhere DEF JobsOK
<1>2. RunInv(j, credits[r], got[r])
  BY <1>1, Held, InvParts DEF AgentInv, Phases
<1>3. OneRun(r, j, credits[r], got[r])
  BY Forms DEF AgentInv, Launch, OneRun
<1> QED
  BY <1>1, <1>2, <1>3 DEF Steps, Phases

LEMMA StepFinish ==
  ASSUME AgentInv, NEW r \in Runs, Finish(r)
  PROVE  Steps(r)
<1>1. OneRun(r, NoJob, 0, NotYet)
  BY Forms DEF AgentInv
<1>2. RunInv(NoJob, 0, NotYet) /\ NoJob.at = "none"
  BY Nowhere
<1> QED
  BY <1>1, <1>2 DEF Steps, Phases

LEMMA StepStart ==
  ASSUME AgentInv, NEW r \in Runs, StartRun(r)
  PROVE  Steps(r)
<1> DEFINE j == job[r]
           at == IF j.plan.research THEN "turn" ELSE "draft"
           k == MovedTo(j, at, NoCalls)
<1>1. CASE ~HasBalance
  BY <1>1, StepFinish DEF StartRun
<1>2. CASE HasBalance
  <2>1. OneRun(r, k, 0, NotYet)
    BY <1>2, Forms DEF StartRun, MeterAtStart, AgentInv, OneRun
  <2>2. j \in JobsOK /\ NoCalls \in Locals /\ at \in {"turn", "draft"} /\ at \in Phases
    BY InvParts, Nowhere DEF AgentInv, Phases
  <2>3. k \in JobsOK /\ k.at = at /\ k.loop = NoCalls
    <3> HIDE DEF at, j
    <3> QED BY <2>2, MovedFields
  <2> HIDE DEF k, at, j
  <2>4. LoopFits(k)
    BY <2>2, <2>3, AgentAssumption DEF LoopFits, NoCalls
  <2>5. MeterFits(k, 0)
    <3>1. Spent(0, 0) \in Nat /\ Spent(MaxSteps + 1, SearchCap) \in Nat
      BY SpentGrows, AgentAssumption
    <3> QED
      BY <2>2, <2>3, <3>1 DEF MeterFits, NoCalls
  <2>6. Billed(k, 0, NotYet)
    <3>1. SearchCredits \in Nat /\ 0 * SearchCredits = 0
      BY AgentAssumption
    <3> QED
      BY Nowhere, NothingBilled, Priced, <3>1 DEF Billed
  <2>7. RunInv(k, 0, NotYet)
    BY <2>3, <2>4, <2>5, <2>6, Nowhere DEF RunInv
  <2> QED
    BY <2>1, <2>7, <1>2 DEF Steps, HasBalance
<1> QED
  BY <1>1, <1>2

LEMMA StepFails ==
  ASSUME AgentInv, NEW r \in Runs, NEW f, AttemptFails(r, f)
  PROVE  Steps(r)
<1> DEFINE j == [job[r] EXCEPT !.at = "queued", !.tries = job[r].tries + 1]
<1>1. CASE Finish(r)
  BY <1>1, StepFinish
<1>2. CASE job' = [job EXCEPT ![r] = j] /\ UNCHANGED <<credits, got>>
  <2>1. job[r] \in JobsOK /\ credits[r] \in Nat /\ got[r] \in GotOK
    BY InvParts DEF AgentInv
  <2>2. j \in JobsOK /\ j.at = "queued"
    <3> DEFINE k == job[r]
    <3>1. k.tries + 1 \in Nat
      BY <2>1 DEF JobsOK
    <3>2. \A n \in Nat : [k EXCEPT !.at = "queued", !.tries = n] \in JobsOK
      BY <2>1 DEF JobsOK
    <3>3. [k EXCEPT !.at = "queued", !.tries = k.tries + 1].at = "queued"
      BY <2>1 DEF JobsOK
    <3> QED BY <3>1, <3>2, <3>3
  <2>3. RunInv(j, credits[r], got[r])
    BY <2>1, <2>2, Held DEF Phases
  <2>4. OneRun(r, j, credits[r], got[r])
    BY <1>2, Forms DEF AgentInv, OneRun
  <2> QED
    BY <2>2, <2>3, <2>4 DEF Steps, Phases
<1> QED
  BY <1>1, <1>2 DEF AttemptFails

LEMMA StepDies ==
  ASSUME AgentInv, NEW r \in Runs, Goto(r, "queued"), UNCHANGED <<credits, got>>
  PROVE  Steps(r)
<1> DEFINE j == MovedTo(job[r], "queued", job[r].loop)
<1>1. job[r] \in JobsOK /\ credits[r] \in Nat /\ got[r] \in GotOK /\ job[r].loop \in Locals
  BY InvParts DEF AgentInv
<1>2. j \in JobsOK /\ j.at = "queued"
  BY <1>1, MovedFields
<1>3. RunInv(j, credits[r], got[r])
  BY <1>1, <1>2, Held DEF Phases
<1>4. OneRun(r, j, credits[r], got[r])
  BY Forms DEF AgentInv, OneRun
<1> QED
  BY <1>2, <1>3, <1>4 DEF Steps, Phases

\* A completion moves its run to where the meter may show it.
LEMMA StepCompletion ==
  ASSUME AgentInv, NEW r \in Runs, NEW c \in Costs, Completion(r, c),
         job[r].at \in Phases \ {"commit"}, NEW at \in Phases, NEW loop \in Locals,
         MoveTo(r, at, loop), LoopFits(MovedTo(job[r], at, loop)),
         MeterFits(MovedTo(job[r], at, loop), credits[r] + LlmCredits(c))
  PROVE  Steps(r)
<1> DEFINE j == job[r]
           k == MovedTo(j, at, loop)
           n == credits[r] + LlmCredits(c)
           g == Answered(got[r], c)
<1>1. /\ j \in JobsOK /\ credits[r] \in Nat /\ got[r] \in GotOK /\ Billed(j, credits[r], got[r])
  BY InvParts DEF AgentInv
<1>2. k \in JobsOK /\ k.at = at
  BY <1>1, MovedOn
<1>3. n \in Nat /\ g \in GotOK /\ Billed(k, n, g)
  BY <1>1, <1>2, CompletionPays
<1>4. OneRun(r, k, n, g)
  BY Forms DEF AgentInv, OneRun
<1>5. RunInv(k, n, g)
  BY <1>2, <1>3 DEF RunInv
<1> QED
  BY <1>4, <1>5 DEF Steps

LEMMA StepTurn ==
  ASSUME AgentInv, NEW r \in Runs, NEW c \in Costs, NEW calls \in Nat, TakeTurn(r, c, calls)
  PROVE  Steps(r)
<1> DEFINE j == job[r]
           l == j.loop
           n == credits[r] + LlmCredits(c)
<1>1. /\ j \in JobsOK /\ l \in Locals /\ credits[r] \in Nat /\ LoopFits(j) /\ MeterFits(j, credits[r])
      /\ j.at = "turn" /\ Completion(r, c)
  BY InvParts DEF AgentInv, TakeTurn
<1>2. /\ l.step \in Nat /\ l.found \in Nat /\ l.won = 0 /\ l.flying = 0
      /\ l.step < MaxSteps /\ l.found <= SearchCap
  BY <1>1 DEF LoopFits, Locals
<1>3. LlmCredits(c) \in Nat /\ TurnPrice \in Nat /\ LlmCredits(c) <= TurnPrice
  BY Priced DEF TurnPrice
<1>4. /\ Spent(l.step, l.found) \in Nat
      /\ Spent(l.step + 1, l.found) = Spent(l.step, l.found) + TurnPrice
  BY <1>2, SpentGrows
<1>5. n \in Nat /\ n <= Spent(l.step + 1, l.found)
  BY <1>1, <1>3, <1>4 DEF MeterFits
<1>6. CASE calls = 0
  <2> DEFINE k == MovedTo(j, "draft", l)
  <2>1. MoveTo(r, "draft", l)
    BY <1>6 DEF TakeTurn, Goto
  <2>2. k.at = "draft" /\ k.loop = l
    <3>1. "draft" \in Phases
      BY Places
    <3> HIDE DEF j, l
    <3> QED BY <3>1, <1>1, MovedOn
  <2>3. Spent(l.step + 1, l.found) <= Spent(MaxSteps + 1, SearchCap)
        /\ Spent(l.step + 1, l.found) \in Nat /\ Spent(MaxSteps + 1, SearchCap) \in Nat
    <3>1. /\ l.step + 1 \in Nat /\ MaxSteps + 1 \in Nat /\ SearchCap \in Nat
          /\ l.step + 1 <= MaxSteps + 1 /\ l.found <= SearchCap /\ l.found \in Nat
      BY <1>2, AgentAssumption
    <3> HIDE DEF l
    <3> QED BY <3>1, SpentGrows
  <2> HIDE DEF k, n, l, j
  <2>4. LoopFits(k) /\ MeterFits(k, n)
    BY <2>2, <2>3, <1>5 DEF LoopFits, MeterFits
  <2> QED
    BY <2>1, <2>4, <1>1, StepCompletion DEF k, n, l, j, Phases
<1>7. CASE calls # 0
  <2> DEFINE m == [l EXCEPT !.pending = calls]
             k == MovedTo(j, "tools", m)
  <2>1. MoveTo(r, "tools", m)
    BY <1>7 DEF TakeTurn
  <2>2. /\ m \in Locals /\ m.step = l.step /\ m.found = l.found /\ m.won = 0 /\ m.flying = 0
    BY <1>1, <1>2 DEF Locals
  <2> HIDE DEF m
  <2>3. k.at = "tools" /\ k.loop = m
    BY <1>1, <2>2, MovedOn, Places
  <2> HIDE DEF k, n, l, j
  <2>4. LoopFits(k)
    BY <2>2, <2>3, <1>2, AgentAssumption DEF LoopFits
  <2>5. MeterFits(k, n)
    BY <2>2, <2>3, <1>2, <1>5 DEF MeterFits
  <2> QED
    BY <2>1, <2>2, <2>4, <2>5, <1>1, StepCompletion DEF k, n, l, j, Phases
<1> QED
  BY <1>6, <1>7

LEMMA StepFinal ==
  ASSUME AgentInv, NEW r \in Runs, NEW c \in Costs, FinalTurn(r, c)
  PROVE  Steps(r)
<1> DEFINE j == job[r]
           l == j.loop
           n == credits[r] + LlmCredits(c)
           k == MovedTo(j, "draft", l)
<1>1. /\ j \in JobsOK /\ l \in Locals /\ credits[r] \in Nat /\ MeterFits(j, credits[r])
      /\ j.at = "final" /\ Completion(r, c) /\ MoveTo(r, "draft", l)
  BY InvParts DEF AgentInv, FinalTurn, Goto
<1>2. LlmCredits(c) \in Nat /\ TurnPrice \in Nat /\ LlmCredits(c) <= TurnPrice
  BY Priced DEF TurnPrice
<1>3. /\ Spent(MaxSteps, SearchCap) \in Nat
      /\ Spent(MaxSteps + 1, SearchCap) = Spent(MaxSteps, SearchCap) + TurnPrice
  BY SpentGrows, AgentAssumption
<1>4. n \in Nat /\ n <= Spent(MaxSteps + 1, SearchCap)
  BY <1>1, <1>2, <1>3 DEF MeterFits
<1>5. k.at = "draft" /\ k.loop = l
  <2>1. "draft" \in Phases
    BY Places
  <2> HIDE DEF j, l
  <2> QED BY <2>1, <1>1, MovedOn
<1> HIDE DEF k, n, l, j
<1>6. LoopFits(k) /\ MeterFits(k, n)
  BY <1>4, <1>5 DEF LoopFits, MeterFits
<1> QED
  BY <1>1, <1>6, StepCompletion DEF k, n, l, j, Phases

\* Draft and repair: a turn more than the place before, in a place that allows it.
LEMMA StepText ==
  ASSUME AgentInv, NEW r \in Runs, NEW c \in Costs, Completion(r, c),
         NEW at \in {"repair", "render", "commit"}, MoveTo(r, at, job[r].loop),
         \/ job[r].at = "draft"
         \/ job[r].at = "repair" /\ at # "repair"
  PROVE  Steps(r)
<1> DEFINE j == job[r]
           l == j.loop
           n == credits[r] + LlmCredits(c)
           k == MovedTo(j, at, l)
<1>1. /\ j \in JobsOK /\ l \in Locals /\ credits[r] \in Nat /\ MeterFits(j, credits[r])
  BY InvParts DEF AgentInv
<1>2. LlmCredits(c) \in Nat /\ TurnPrice \in Nat /\ LlmCredits(c) <= TurnPrice /\ DeckPrice \in Nat
  BY Priced DEF TurnPrice, DeckPrice
<1>3. /\ Spent(MaxSteps + 1, SearchCap) \in Nat
      /\ Spent(MaxSteps + 2, SearchCap) = Spent(MaxSteps + 1, SearchCap) + TurnPrice
      /\ Spent(MaxSteps + 3, SearchCap) = Spent(MaxSteps + 2, SearchCap) + TurnPrice
  <2>1. /\ MaxSteps + 1 \in Nat /\ MaxSteps + 2 \in Nat /\ SearchCap \in Nat
        /\ (MaxSteps + 1) + 1 = MaxSteps + 2 /\ (MaxSteps + 2) + 1 = MaxSteps + 3
    BY AgentAssumption
  <2>2. /\ Spent(MaxSteps + 1, SearchCap) \in Nat
        /\ Spent((MaxSteps + 1) + 1, SearchCap) = Spent(MaxSteps + 1, SearchCap) + TurnPrice
        /\ Spent((MaxSteps + 2) + 1, SearchCap) = Spent(MaxSteps + 2, SearchCap) + TurnPrice
    BY <2>1, SpentGrows
  <2> QED BY <2>1, <2>2
<1>4. k.at = at /\ k.loop = l
  <2>1. at \in Phases
    BY DEF Phases
  <2> QED BY <2>1, <1>1, MovedOn
<1>5. MeterFits(k, n)
  <2> DEFINE one == Spent(MaxSteps + 1, SearchCap)
             two == Spent(MaxSteps + 2, SearchCap)
             three == Spent(MaxSteps + 3, SearchCap)
  <2>1. /\ j.at = "draft" => credits[r] <= one
        /\ j.at = "repair" => credits[r] <= two
    BY <1>1 DEF MeterFits
  <2> HIDE DEF n, k, j, one, two, three
  <2>2. at = "repair" => n <= two
    BY <1>1, <1>2, <1>3, <2>1 DEF n, one, two, three, j
  <2>3. n <= three /\ n <= three + DeckPrice
    BY <1>1, <1>2, <1>3, <2>1 DEF n, one, two, three, j
  <2> QED
    BY <1>4, <2>2, <2>3 DEF MeterFits, two, three
<1> HIDE DEF k, n, l, j
<1>6. LoopFits(k)
  BY <1>4 DEF LoopFits
<1> QED
  BY <1>1, <1>5, <1>6, StepCompletion DEF k, n, l, j, Phases

LEMMA StepDraft ==
  ASSUME AgentInv, NEW r \in Runs, NEW c \in Costs, NEW valid \in BOOLEAN, Draft(r, c, valid)
  PROVE  Steps(r)
<1> DEFINE at == IF valid THEN NextStep(r) ELSE "repair"
<1>1. at \in {"repair", "render", "commit"}
  BY DEF NextStep
<1>2. job[r].at = "draft" /\ Completion(r, c) /\ MoveTo(r, at, job[r].loop)
  BY DEF Draft, Goto
<1> HIDE DEF at
<1> QED
  BY <1>1, <1>2, StepText

LEMMA StepRepair ==
  ASSUME AgentInv, NEW r \in Runs, NEW c \in Costs, NEW valid \in BOOLEAN, Repair(r, c, valid)
  PROVE  Steps(r)
<1>1. CASE ~valid
  BY <1>1, StepFinish DEF Repair
<1>2. CASE valid
  <2> DEFINE at == NextStep(r)
  <2>1. at \in {"repair", "render", "commit"} /\ at # "repair"
    BY DEF NextStep
  <2>2. job[r].at = "repair" /\ Completion(r, c) /\ MoveTo(r, at, job[r].loop)
    BY <1>2 DEF Repair, Goto
  <2> HIDE DEF at
  <2> QED
    BY <2>1, <2>2, StepText
<1> QED
  BY <1>1, <1>2

\* A wave begins or a turn ends: nothing is billed.
LEMMA StepFree ==
  ASSUME AgentInv, NEW r \in Runs, NEW at \in Phases \ {"commit"}, NEW loop \in Locals,
         job[r].at \in Phases \ {"commit"},
         MoveTo(r, at, loop), LoopFits(MovedTo(job[r], at, loop)),
         MeterFits(MovedTo(job[r], at, loop), credits[r]), UNCHANGED <<credits, got>>
  PROVE  Steps(r)
<1> DEFINE k == MovedTo(job[r], at, loop)
<1>1. /\ job[r] \in JobsOK /\ credits[r] \in Nat /\ got[r] \in GotOK
      /\ Billed(job[r], credits[r], got[r])
  BY InvParts DEF AgentInv
<1>2. k \in JobsOK /\ k.at = at
  BY <1>1, MovedOn
<1>3. OneRun(r, k, credits[r], got[r])
  BY Forms DEF AgentInv, OneRun
<1>4. Billed(k, credits[r], got[r])
  BY <1>1, <1>2, BilledBefore
<1>5. RunInv(k, credits[r], got[r])
  BY <1>1, <1>2, <1>4 DEF RunInv
<1> QED
  BY <1>3, <1>5 DEF Steps

LEMMA StepWave ==
  ASSUME AgentInv, NEW r \in Runs, RunWave(r)
  PROVE  Steps(r)
<1> DEFINE j == job[r]
           l == j.loop
           m == [l EXCEPT !.flying = BatchSize(l), !.pending = l.pending - BatchSize(l)]
           k == MovedTo(j, "tools", m)
<1>1. /\ j \in JobsOK /\ l \in Locals /\ credits[r] \in Nat /\ LoopFits(j) /\ MeterFits(j, credits[r])
      /\ j.at = "tools" /\ l.flying = 0 /\ l.pending > 0 /\ l.found < SearchCap
      /\ MoveTo(r, "tools", m) /\ UNCHANGED <<credits, got>>
  BY InvParts DEF AgentInv, RunWave
<1>2. l.found \in Nat /\ l.pending \in Nat /\ l.won = 0 /\ l.step \in Nat /\ l.step < MaxSteps
  BY <1>1 DEF Locals, LoopFits
<1>3. /\ BatchSize(l) \in Nat /\ l.pending - BatchSize(l) \in Nat
      /\ l.found + BatchSize(l) <= SearchCap
  BY <1>1, <1>2, AgentAssumption DEF BatchSize
<1>4. /\ m \in Locals /\ m.step = l.step /\ m.found = l.found /\ m.won = l.won
      /\ m.flying = BatchSize(l)
  <2> HIDE DEF l
  <2> QED BY <1>1, <1>3 DEF Locals
<1> HIDE DEF m
<1>5. k.at = "tools" /\ k.loop = m
  BY <1>1, <1>4, MovedOn, Places
<1> HIDE DEF k, l, j
<1>6. LoopFits(k)
  BY <1>2, <1>3, <1>4, <1>5, <1>1, AgentAssumption DEF LoopFits
<1>7. MeterFits(k, credits[r])
  BY <1>1, <1>2, <1>4, <1>5 DEF MeterFits, l
<1> QED
  BY <1>1, <1>4, <1>6, <1>7, StepFree DEF k, l, j, Phases

LEMMA StepEndTurn ==
  ASSUME AgentInv, NEW r \in Runs, EndTurn(r)
  PROVE  Steps(r)
<1> DEFINE j == job[r]
           l == j.loop
           step == l.step + 1
           at == IF LastStep(step) THEN "final" ELSE "turn"
           m == [l EXCEPT !.step = step, !.pending = 0]
           k == MovedTo(j, at, m)
<1>1. /\ j \in JobsOK /\ l \in Locals /\ credits[r] \in Nat /\ LoopFits(j) /\ MeterFits(j, credits[r])
      /\ j.at = "tools" /\ l.flying = 0
      /\ MoveTo(r, at, m) /\ UNCHANGED <<credits, got>>
  BY InvParts DEF AgentInv, EndTurn
<1>2. /\ l.found \in Nat /\ l.won = 0 /\ l.step \in Nat /\ l.step < MaxSteps
      /\ l.found <= SearchCap /\ step \in Nat /\ step <= MaxSteps
  BY <1>1, AgentAssumption DEF Locals, LoopFits
<1>3. /\ m \in Locals /\ m.step = step /\ m.found = l.found /\ m.won = 0 /\ m.flying = 0
  BY <1>1, <1>2 DEF Locals
<1>4. at \in {"final", "turn"} /\ at \in Phases \ {"commit"}
  BY DEF Phases
<1>5. at = "turn" => step < MaxSteps
  BY <1>2, AgentAssumption DEF LastStep
<1>6. credits[r] <= Spent(step, l.found) /\ Spent(step, l.found) <= Spent(MaxSteps, SearchCap)
  <2>1. credits[r] <= Spent(step, l.found)
    BY <1>1, <1>2 DEF MeterFits
  <2>2. Spent(step, l.found) <= Spent(MaxSteps, SearchCap)
    <3>1. step \in Nat /\ l.found \in Nat /\ MaxSteps \in Nat /\ SearchCap \in Nat
      BY <1>2, AgentAssumption
    <3> HIDE DEF step, l
    <3> QED BY <1>2, <3>1, SpentGrows
  <2> QED BY <2>1, <2>2
<1>7. Spent(step, l.found) \in Nat /\ Spent(MaxSteps, SearchCap) \in Nat
  BY <1>2, SpentGrows, AgentAssumption
<1> HIDE DEF m, at
<1>8. k.at = at /\ k.loop = m
  BY <1>1, <1>3, <1>4, MovedOn
<1> HIDE DEF k, l, j, step
<1>9. LoopFits(k)
  BY <1>2, <1>3, <1>4, <1>5, <1>8 DEF LoopFits
<1>10. MeterFits(k, credits[r])
  BY <1>1, <1>3, <1>4, <1>6, <1>7, <1>8 DEF MeterFits
<1> QED
  BY <1>1, <1>3, <1>4, <1>9, <1>10, StepFree DEF k, l, j, step, Phases

\* A search that comes back takes a success of the wave, or none.
LEMMA StepSearch ==
  ASSUME AgentInv, NEW r \in Runs, NEW ok \in BOOLEAN, SearchReturns(r, ok)
  PROVE  Steps(r)
<1> DEFINE j == job[r]
           l == j.loop
           one == IF ok THEN 1 ELSE 0
           won == l.won + one
           more == [l EXCEPT !.flying = l.flying - 1, !.won = won]
           last == [l EXCEPT !.flying = 0, !.won = 0, !.found = l.found + won]
           m == IF l.flying > 1 THEN more ELSE last
           k == MovedTo(j, "tools", m)
           n == credits[r] + SurchargeOf(ok)
           g == Searched(got[r], one)
<1>1. /\ j \in JobsOK /\ l \in Locals /\ credits[r] \in Nat /\ got[r] \in GotOK
      /\ LoopFits(j) /\ MeterFits(j, credits[r]) /\ Billed(j, credits[r], got[r])
  BY InvParts DEF AgentInv
<1>2. /\ j.at = "tools" /\ l.flying > 0 /\ MoveTo(r, "tools", m)
      /\ Record(r, SurchargeOf(ok))
      /\ got' = [got EXCEPT ![r].searches = got[r].searches + one]
  BY Typed DEF SearchReturns, AgentInv
<1>3. /\ l.found \in Nat /\ l.won \in Nat /\ l.flying \in Nat /\ l.step \in Nat /\ l.step < MaxSteps
      /\ l.found + l.won + l.flying <= SearchCap /\ SearchCap \in Nat
  BY <1>1, <1>2, AgentAssumption DEF Locals, LoopFits
<1>4. one \in {0, 1} /\ won \in Nat /\ won = l.won + one /\ l.flying - 1 \in Nat
      /\ l.found + won \in Nat
  BY <1>2, <1>3
<1>5. /\ more \in Locals /\ more.step = l.step /\ more.flying = l.flying - 1
      /\ more.won = won /\ more.found = l.found
  <2> HIDE DEF won, l
  <2> QED BY <1>1, <1>4 DEF Locals
<1>6. /\ last \in Locals /\ last.step = l.step /\ last.flying = 0
      /\ last.won = 0 /\ last.found = l.found + won
  <2> HIDE DEF won, l
  <2> QED BY <1>1, <1>4 DEF Locals
<1> HIDE DEF more, last
<1>7. /\ m \in Locals /\ m.step = l.step /\ m.flying = l.flying - 1
      /\ m.flying = 0 => m.won = 0
      /\ m.won \in Nat /\ m.found \in Nat /\ m.found + m.won = l.found + won
  BY <1>2, <1>3, <1>4, <1>5, <1>6
<1> HIDE DEF m
<1>8. k \in JobsOK /\ k.at = "tools" /\ k.loop = m
  BY <1>1, <1>7, MovedOn, Places
<1>9. OneRun(r, k, n, g)
  <2>0. AgentTypeOK
    BY DEF AgentInv
  <2>1. job' = [job EXCEPT ![r] = k]
    <3> HIDE DEF j
    <3> QED BY <2>0, <1>2, Forms DEF j
  <2>2. credits' = [credits EXCEPT ![r] = n]
    BY <1>2, Forms DEF AgentInv
  <2>3. got' = [got EXCEPT ![r] = g]
    BY <1>2, Typed DEF AgentInv, Searched, GotOK
  <2> QED
    BY <2>1, <2>2, <2>3 DEF OneRun
<1> HIDE DEF k
<1>10. LoopFits(k)
  <2>1. m.found + m.won + m.flying <= SearchCap /\ m.found <= SearchCap
    <3> HIDE DEF one, won, l
    <3> QED BY <1>2, <1>3, <1>4, <1>7
  <2> QED
    BY <2>1, <1>3, <1>7, <1>8 DEF LoopFits
<1>11. n \in Nat /\ n <= Spent(m.step + 1, m.found + m.won)
  <2>1. credits[r] <= Spent(l.step + 1, l.found + l.won)
    BY <1>1, <1>2 DEF MeterFits
  <2>2. /\ l.step + 1 \in Nat /\ l.found + l.won \in Nat
        /\ l.found + won = IF ok THEN (l.found + l.won) + 1 ELSE l.found + l.won
    BY <1>3
  <2>3. /\ Spent(l.step + 1, l.found + l.won) \in Nat
        /\ Spent(l.step + 1, (l.found + l.won) + 1)
             = Spent(l.step + 1, l.found + l.won) + SearchCredits
    <3> HIDE DEF l
    <3> QED BY <2>2, SpentGrows
  <2>4. SurchargeOf(ok) = IF ok THEN SearchCredits ELSE 0
    BY DEF SurchargeOf
  <2>5. Spent(m.step + 1, m.found + m.won) = Spent(l.step + 1, l.found + won)
    BY <1>7
  <2>6. SearchCredits \in Nat
    BY AgentAssumption
  <2> DEFINE a == Spent(l.step + 1, l.found + l.won)
  <2>7. Spent(l.step + 1, l.found + won) = IF ok THEN a + SearchCredits ELSE a
    BY <2>2, <2>3
  <2> HIDE DEF l, won, m
  <2> QED
    BY <2>1, <2>3, <2>4, <2>5, <2>6, <2>7, <1>1
<1>12. MeterFits(k, n)
  BY <1>8, <1>11 DEF MeterFits
<1>13. g \in GotOK /\ g.turns = got[r].turns /\ g.searches = got[r].searches + one
       /\ g.units = got[r].units
  <2>1. one \in Nat
    BY <1>4
  <2> HIDE DEF one
  <2> QED BY <1>1, <2>1, GotFields
<1>14. Billed(k, n, g)
  <2> DEFINE t == TurnsBill(got[r].turns)
             p == PdfCredits(got[r].units)
             s == got[r].searches
  <2>1. got[r].turns \in [Costs -> Nat] /\ s \in Nat /\ got[r].units = 0
    BY <1>1, <1>2 DEF GotOK, Billed, Phases
  <2>2. t \in Nat /\ p \in Nat
    <3>1. \E c \in Costs : TRUE
      BY AgentAssumption
    <3>2. t \in Nat
      BY <2>1, <3>1, TurnBilled
    <3>3. p \in Nat
      BY <2>1, Priced
    <3> QED BY <3>2, <3>3
  <2>3. credits[r] = t + s * SearchCredits + p
    BY <1>1, <1>2, Places DEF Billed
  <2>4. SearchCredits \in Nat
    BY AgentAssumption
  <2>5. \A x \in Nat, y \in Nat : (x + 1) * y = x * y + y /\ x * y \in Nat
    OBVIOUS
  <2>6. SurchargeOf(ok) = IF ok THEN SearchCredits ELSE 0
    BY DEF SurchargeOf
  <2>7. g.searches * SearchCredits = s * SearchCredits + SurchargeOf(ok)
    <3>1. (s + 1) * SearchCredits = s * SearchCredits + SearchCredits /\ s * SearchCredits \in Nat
      BY <2>1, <2>4, <2>5
    <3>2. s + 0 = s
      BY <2>1
    <3> HIDE DEF s
    <3> QED BY <3>1, <3>2, <1>13, <2>4, <2>6 DEF s
  <2>8. s * SearchCredits \in Nat /\ SurchargeOf(ok) \in Nat
    BY <2>1, <2>4, <2>5, <2>6
  <2>9. n = TurnsBill(g.turns) + g.searches * SearchCredits + PdfCredits(g.units)
    <3> DEFINE sp == s * SearchCredits
               su == SurchargeOf(ok)
    <3>1. TurnsBill(g.turns) = t /\ PdfCredits(g.units) = p /\ g.searches * SearchCredits = sp + su
      BY <1>13, <2>7
    <3>2. n = credits[r] + su /\ credits[r] = t + sp + p
      BY <2>3
    <3>3. t \in Nat /\ sp \in Nat /\ su \in Nat /\ p \in Nat
      BY <2>2, <2>8
    <3> HIDE DEF t, sp, su, p, n, g
    <3> QED BY <3>1, <3>2, <3>3
  <2> HIDE DEF n, g
  <2> QED
    BY <2>9, <2>1, <1>8, <1>13 DEF Billed
<1>15. RunInv(k, n, g)
  BY <1>8, <1>10, <1>11, <1>12, <1>13, <1>14 DEF RunInv
<1> QED
  BY <1>2, <1>9, <1>15, Places DEF Steps

LEMMA StepRender ==
  ASSUME AgentInv, NEW r \in Runs, NEW units \in RenderUnits, RenderPdf(r, units)
  PROVE  Steps(r)
<1> DEFINE j == job[r]
           k == MovedTo(j, "commit", j.loop)
           n == credits[r] + PdfCredits(units)
           g == Rendered(got[r], units)
<1>1. /\ j \in JobsOK /\ j.loop \in Locals /\ credits[r] \in Nat /\ got[r] \in GotOK
      /\ MeterFits(j, credits[r]) /\ Billed(j, credits[r], got[r])
  BY InvParts DEF AgentInv
<1>2. j.at = "render" /\ Goto(r, "commit") /\ Record(r, PdfCredits(units))
      /\ got' = [got EXCEPT ![r].units = units]
  BY DEF RenderPdf
<1>3. OneRun(r, k, n, g)
  <2>0. AgentTypeOK
    BY DEF AgentInv
  <2>1. job' = [job EXCEPT ![r] = k]
    <3> HIDE DEF j
    <3> QED BY <2>0, <1>2, Forms DEF j
  <2>2. credits' = [credits EXCEPT ![r] = n]
    BY <1>2, Forms DEF AgentInv
  <2>3. got' = [got EXCEPT ![r] = g]
    BY <1>2, Typed DEF AgentInv, Rendered, GotOK
  <2> QED
    BY <2>1, <2>2, <2>3 DEF OneRun
<1>4. k \in JobsOK /\ k.at = "commit"
  <2>1. "commit" \in Phases
    BY Places
  <2> HIDE DEF j
  <2> QED BY <2>1, <1>1, MovedOn
<1>5. PdfCredits(units) \in Nat /\ PdfCredits(0) = 0 /\ PdfCredits(units) <= DeckPrice /\ DeckPrice \in Nat
  BY Priced, AgentAssumption DEF DeckPrice
<1>6. Spent(MaxSteps + 3, SearchCap) \in Nat
  <2>1. MaxSteps + 3 \in Nat /\ SearchCap \in Nat
    BY AgentAssumption
  <2> QED BY <2>1, SpentGrows
<1>7. n \in Nat /\ MeterFits(k, n)
  <2>1. credits[r] <= Spent(MaxSteps + 3, SearchCap)
    BY <1>1, <1>2 DEF MeterFits
  <2>2. n \in Nat /\ n <= Spent(MaxSteps + 3, SearchCap) + DeckPrice
    BY <2>1, <1>1, <1>5, <1>6
  <2> HIDE DEF k, n
  <2> QED BY <2>2, <1>4 DEF MeterFits
<1>8. g \in GotOK /\ g.turns = got[r].turns /\ g.searches = got[r].searches /\ g.units = units
  BY <1>1, GotFields
<1>9. Billed(k, n, g)
  <2> DEFINE t == TurnsBill(got[r].turns)
             s == got[r].searches * SearchCredits
             p == PdfCredits(units)
  <2>1. got[r].turns \in [Costs -> Nat] /\ got[r].searches \in Nat /\ got[r].units = 0
    BY <1>1, <1>2 DEF GotOK, Billed, Phases
  <2>2. t \in Nat /\ s \in Nat /\ p \in Nat
    <3>1. \E c \in Costs : TRUE
      BY AgentAssumption
    <3>2. SearchCredits \in Nat /\ \A x \in Nat, y \in Nat : x * y \in Nat
      BY AgentAssumption
    <3>3. t \in Nat
      BY <2>1, <3>1, TurnBilled
    <3> QED BY <2>1, <3>2, <3>3, <1>5
  <2>3. credits[r] = t + s + 0
    BY <1>1, <1>2, <1>5, <2>1, Places DEF Billed
  <2>4. TurnsBill(g.turns) = t /\ g.searches * SearchCredits = s /\ PdfCredits(g.units) = p
    BY <1>8
  <2> HIDE DEF t, s
  <2>5. n = t + s + p
    BY <2>2, <2>3
  <2> HIDE DEF n, g, k, p
  <2> QED
    BY <2>4, <2>5, <1>4 DEF Billed
<1>10. RunInv(k, n, g)
  <2>1. LoopFits(k)
    BY <1>4 DEF LoopFits
  <2> HIDE DEF k, n, g
  <2> QED BY <2>1, <1>4, <1>7, <1>8, <1>9 DEF RunInv
<1> QED
  BY <1>2, <1>3, <1>10, Places DEF Steps

-----------------------------------------------------------------------------
(* All runs *)

LEMMA OthersKept ==
  ASSUME AgentInv, NEW r \in Runs, NEW j, NEW n, NEW g, OneRun(r, j, n, g), RunInv(j, n, g),
         usage' \in Nat, agentFaults' \in Nat
  PROVE  /\ AgentTypeOK'
         /\ \A q \in Runs : RunInv(job'[q], credits'[q], got'[q])
         /\ job'[r] = j /\ \A q \in Runs : q # r => job'[q] = job[q]
<1>1. /\ job \in [Runs -> JobsOK] /\ credits \in [Runs -> Nat] /\ got \in [Runs -> GotOK]
      /\ j \in JobsOK /\ n \in Nat /\ g \in GotOK
  BY Typed, InvParts DEF AgentInv
<1>2. /\ job' \in [Runs -> JobsOK] /\ credits' \in [Runs -> Nat] /\ got' \in [Runs -> GotOK]
  BY <1>1 DEF OneRun
<1>3. /\ job'[r] = j /\ credits'[r] = n /\ got'[r] = g
      /\ \A q \in Runs : q # r => job'[q] = job[q] /\ credits'[q] = credits[q] /\ got'[q] = got[q]
  BY <1>1 DEF OneRun
<1>4. \A q \in Runs : RunInv(job'[q], credits'[q], got'[q])
  <2> SUFFICES ASSUME NEW q \in Runs
               PROVE  RunInv(job'[q], credits'[q], got'[q])
    OBVIOUS
  <2>1. CASE q = r
    BY <2>1, <1>3
  <2>2. CASE q # r
    <3>1. RunInv(job[q], credits[q], got[q])
      BY DEF AgentInv
    <3> QED BY <2>2, <3>1, <1>3
  <2> QED BY <2>1, <2>2
<1>5. AgentTypeOK'
  BY <1>2 DEF AgentTypeOK, JobsOK, GotOK
<1> QED
  BY <1>3, <1>4, <1>5

\* The runs that cannot add to the usage but by a new attempt.
Resting(jobs) == {r \in Runs : jobs[r].at \notin Phases}

LEMMA RestingCounted ==
  ASSUME NEW jobs, NEW after
  PROVE  /\ Cardinality(Resting(jobs)) \in Nat
         /\ Resting(jobs) \subseteq Resting(after) =>
              Cardinality(Resting(jobs)) <= Cardinality(Resting(after))
         /\ \A r \in Runs : Resting(jobs) \subseteq Resting(after) /\ r \notin Resting(jobs)
                              /\ r \in Resting(after) =>
              Cardinality(Resting(jobs)) + 1 <= Cardinality(Resting(after))
<1>1. IsFiniteSet(Resting(jobs)) /\ IsFiniteSet(Resting(after))
  BY FS_Subset, AgentAssumption DEF Resting
<1>2. Cardinality(Resting(jobs)) \in Nat /\ Cardinality(Resting(after)) \in Nat
  BY <1>1, FS_CardinalityType
<1>3. Resting(jobs) \subseteq Resting(after) =>
        Cardinality(Resting(jobs)) <= Cardinality(Resting(after))
  BY <1>1, FS_Subset
<1>4. ASSUME NEW r \in Runs, Resting(jobs) \subseteq Resting(after), r \notin Resting(jobs),
             r \in Resting(after)
      PROVE  Cardinality(Resting(jobs)) + 1 <= Cardinality(Resting(after))
  <2>1. Cardinality(Resting(jobs) \cup {r}) = Cardinality(Resting(jobs)) + 1
    BY <1>1, <1>4, FS_AddElement
  <2>2. Resting(jobs) \cup {r} \in SUBSET Resting(after)
    BY <1>4
  <2>3. Cardinality(Resting(jobs) \cup {r}) <= Cardinality(Resting(after))
    BY <1>1, <2>2, FS_Subset
  <2> QED BY <2>1, <2>3
<1> QED
  BY <1>2, <1>3, <1>4

LEMMA RunPrice ==
  /\ MaxRunCredits = Spent(MaxSteps + 3, SearchCap) + DeckPrice
  /\ MaxRunCredits \in Nat
<1>1. MaxRunCredits = Spent(MaxSteps + 3, SearchCap) + DeckPrice
  BY DEF MaxRunCredits, Spent, TurnPrice, DeckPrice
<1>2. MaxSteps + 3 \in Nat /\ SearchCap \in Nat
  BY AgentAssumption
<1>3. Spent(MaxSteps + 3, SearchCap) \in Nat /\ DeckPrice \in Nat
  BY <1>2, SpentGrows, Priced DEF DeckPrice
<1> QED
  BY <1>1, <1>3

\* OvershootBounded, with the runs that are under way held against the limit.
Within(u, jobs) == u < Limit + Cardinality(Resting(jobs)) * MaxRunCredits

LEMMA WithinGrows ==
  ASSUME NEW u \in Nat, NEW jobs, NEW after
  PROVE  /\ u < Limit => Within(u, after)
         /\ Within(u, jobs) /\ Resting(jobs) \subseteq Resting(after) => Within(u, after)
         /\ \A r \in Runs, n \in Nat :
              Within(u, jobs) /\ Resting(jobs) \subseteq Resting(after) /\ r \notin Resting(jobs)
                /\ r \in Resting(after) /\ n <= MaxRunCredits => Within(u + n, after)
<1> DEFINE a == Cardinality(Resting(jobs))
           b == Cardinality(Resting(after))
           p == MaxRunCredits
<1>1. a \in Nat /\ b \in Nat /\ p \in Nat /\ Limit \in Nat
  BY RestingCounted, RunPrice, AgentAssumption
<1>2. \A x \in Nat, y \in Nat, z \in Nat : x * z \in Nat /\ (x <= y => x * z <= y * z)
                                             /\ (x + 1) * z = x * z + z
  OBVIOUS
<1>3. a * p \in Nat /\ b * p \in Nat /\ (a + 1) * p = a * p + p
  BY <1>1, <1>2
<1>4. u < Limit => Within(u, after)
  <2> HIDE DEF a, b, p
  <2> QED BY <1>1, <1>3 DEF Within, b, p
<1>5. Resting(jobs) \subseteq Resting(after) => a * p <= b * p
  BY <1>1, <1>2, RestingCounted
<1>6. ASSUME NEW r \in Runs, Resting(jobs) \subseteq Resting(after), r \notin Resting(jobs),
             r \in Resting(after)
      PROVE  a * p + p <= b * p
  <2>1. a + 1 <= b /\ a + 1 \in Nat
    BY <1>1, <1>6, RestingCounted
  <2>2. (a + 1) * p <= b * p
    BY <2>1, <1>1, <1>2
  <2> QED BY <2>2, <1>3
<1>7. Within(u, jobs) <=> u < Limit + a * p
  BY DEF Within
<1>8. \A n : Within(n, after) <=> n < Limit + b * p
  BY DEF Within
<1> HIDE DEF a, b, p
<1>9. Within(u, jobs) /\ Resting(jobs) \subseteq Resting(after) => Within(u, after)
  BY <1>1, <1>3, <1>5, <1>7, <1>8
<1>10. ASSUME NEW r \in Runs, NEW n \in Nat, Within(u, jobs), Resting(jobs) \subseteq Resting(after),
              r \notin Resting(jobs), r \in Resting(after), n <= MaxRunCredits
       PROVE  Within(u + n, after)
  <2>1. a * p + p <= b * p
    BY <1>6, <1>10
  <2>2. u < Limit + a * p /\ n <= p
    BY <1>7, <1>10 DEF p
  <2>3. u + n < Limit + b * p
    <3> DEFINE x == a * p
               y == b * p
    <3>1. x \in Nat /\ y \in Nat /\ x + p <= y /\ u < Limit + x
      BY <1>3, <2>1, <2>2
    <3> HIDE DEF x, y
    <3>2. u + n < Limit + y
      BY <3>1, <2>2, <1>1
    <3> QED BY <3>2 DEF y
  <2> QED BY <2>3, <1>8
<1> QED
  BY <1>4, <1>9, <1>10

LEMMA OvershootIs ==
  /\ OvershootBounded <=> Within(usage, job)
  /\ OvershootBounded' <=> Within(usage', job')
BY DEF OvershootBounded, Within, Resting

LEMMA StepKeeps ==
  ASSUME AgentInv, NEW r \in Runs, Steps(r), usage' = usage, agentFaults' \in Nat
  PROVE  AgentInv'
<1>1. PICK j, n, g :
        /\ OneRun(r, j, n, g) /\ RunInv(j, n, g)
        /\ j.at \in Phases => job[r].at \in Phases \/ usage < Limit
  BY DEF Steps
<1>2. usage \in Nat /\ usage' \in Nat
  BY Typed DEF AgentInv
<1>3. /\ AgentTypeOK' /\ \A q \in Runs : RunInv(job'[q], credits'[q], got'[q])
      /\ job'[r] = j /\ \A q \in Runs : q # r => job'[q] = job[q]
  BY <1>1, <1>2, OthersKept
<1>4. usage < Limit \/ Resting(job) \subseteq Resting(job')
  BY <1>1, <1>3 DEF Resting
<1>5. Within(usage', job')
  BY <1>2, <1>4, WithinGrows, OvershootIs DEF AgentInv
<1> QED
  BY <1>3, <1>5, OvershootIs DEF AgentInv

\* The debit takes the user no further than one run can.
LEMMA DebitKeeps ==
  ASSUME AgentInv, NEW r \in Runs, Steps(r), job[r].at = "commit", job'[r].at \notin Phases,
         usage' = usage + credits[r], agentFaults' \in Nat
  PROVE  AgentInv'
<1>1. PICK j, n, g : OneRun(r, j, n, g) /\ RunInv(j, n, g)
  BY DEF Steps
<1>2. usage \in Nat /\ credits[r] \in Nat /\ usage' \in Nat
  BY Typed DEF AgentInv
<1>3. /\ AgentTypeOK' /\ \A q \in Runs : RunInv(job'[q], credits'[q], got'[q])
      /\ job'[r] = j /\ \A q \in Runs : q # r => job'[q] = job[q]
  BY <1>1, <1>2, OthersKept
<1>4. Resting(job) \subseteq Resting(job') /\ r \notin Resting(job) /\ r \in Resting(job')
  BY <1>3, Places DEF Resting
<1>5. credits[r] <= MaxRunCredits
  BY InvParts, RunPrice DEF AgentInv, MeterFits
<1>6. Within(usage + credits[r], job')
  BY <1>2, <1>4, <1>5, WithinGrows, OvershootIs DEF AgentInv
<1> QED
  BY <1>3, <1>6, OvershootIs DEF AgentInv

LEMMA FaultTyped ==
  ASSUME AgentInv, AgentFault \/ UNCHANGED agentFaults
  PROVE  agentFaults' \in Nat
BY Typed DEF AgentInv, AgentFault

LEMMA StepCommit ==
  ASSUME AgentInv, NEW r \in Runs, CommitRun(r)
  PROVE  AgentInv'
<1>1. job[r].at = "commit"
  BY DEF CommitRun
<1>2. agentFaults' \in Nat
  BY FaultTyped DEF CommitRun
<1>3. Finish(r) => Steps(r) /\ job'[r].at \notin Phases
  <2>1. Finish(r) => job'[r] = NoJob
    BY Typed DEF Finish, AgentInv
  <2> QED BY <2>1, StepFinish, Nowhere DEF Phases
<1>4. Goto(r, "queued") /\ UNCHANGED <<credits, got>> => Steps(r) /\ job'[r].at \notin Phases
  <2> SUFFICES ASSUME Goto(r, "queued"), UNCHANGED <<credits, got>>
               PROVE  Steps(r) /\ job'[r].at \notin Phases
    OBVIOUS
  <2>1. Steps(r)
    BY StepDies
  <2>2. job'[r].at = "queued"
    BY Typed DEF Goto, MoveTo, AgentInv, JobsOK
  <2> QED BY <2>1, <2>2 DEF Phases
<1>5. CASE usage' = usage + credits[r] /\ Finish(r)
  BY <1>1, <1>2, <1>3, <1>5, DebitKeeps
<1>6. CASE Finish(r) /\ UNCHANGED usage
  BY <1>2, <1>3, <1>6, StepKeeps
<1>7. CASE Goto(r, "queued") /\ usage' = usage + credits[r] /\ UNCHANGED <<credits, got>>
  BY <1>1, <1>2, <1>4, <1>7, DebitKeeps
<1> QED
  BY <1>5, <1>6, <1>7 DEF CommitRun

LEMMA StepRenew ==
  ASSUME AgentInv, Renew
  PROVE  AgentInv'
<1>1. usage' = 0 /\ UNCHANGED <<job, credits, got>> /\ agentFaults' \in Nat
  BY FaultTyped DEF Renew
<1>2. Within(usage', job')
  BY <1>1, WithinGrows, AgentAssumption
<1>3. AgentTypeOK'
  BY <1>1 DEF AgentInv, AgentTypeOK
<1>4. \A r \in Runs : RunInv(job'[r], credits'[r], got'[r])
  BY <1>1 DEF AgentInv
<1> QED
  BY <1>2, <1>3, <1>4, OvershootIs DEF AgentInv

LEMMA StepStutters ==
  ASSUME AgentInv, UNCHANGED agentVars
  PROVE  AgentInv'
<1>1. UNCHANGED <<job, credits, usage, got, agentFaults>>
  BY DEF agentVars
<1>2. AgentTypeOK' /\ OvershootBounded'
  BY <1>1, OvershootIs DEF AgentInv, AgentTypeOK
<1>3. \A r \in Runs : RunInv(job'[r], credits'[r], got'[r])
  BY <1>1 DEF AgentInv
<1> QED
  BY <1>2, <1>3 DEF AgentInv

LEMMA RunMoves ==
  ASSUME AgentInv, NEW r \in Runs
  PROVE  /\ \A plan \in Plan : Launch(r, plan) => AgentInv'
         /\ StartRun(r) => AgentInv'
         /\ AgentDies(r) => AgentInv'
         /\ \A f : AttemptFails(r, f) => AgentInv'
         /\ RunWave(r) => AgentInv'
         /\ EndTurn(r) => AgentInv'
         /\ \A ok \in BOOLEAN : SearchReturns(r, ok) => AgentInv'
         /\ \A units \in RenderUnits : RenderPdf(r, units) => AgentInv'
<1>1. ASSUME NEW plan \in Plan, Launch(r, plan) PROVE AgentInv'
  <2>1. UNCHANGED <<usage, agentFaults>>
    BY <1>1 DEF Launch
  <2> QED BY <1>1, <2>1, StepLaunch, StepKeeps, FaultTyped
<1>2. ASSUME StartRun(r) PROVE AgentInv'
  <2>1. UNCHANGED <<usage, agentFaults>>
    BY <1>2 DEF StartRun
  <2> QED BY <1>2, <2>1, StepStart, StepKeeps, FaultTyped
<1>3. ASSUME AgentDies(r) PROVE AgentInv'
  <2>1. Goto(r, "queued") /\ UNCHANGED <<credits, got>> /\ UNCHANGED usage /\ AgentFault
    BY <1>3 DEF AgentDies
  <2> QED BY <2>1, StepDies, StepKeeps, FaultTyped
<1>4. ASSUME NEW f, AttemptFails(r, f) PROVE AgentInv'
  <2>1. UNCHANGED usage /\ AgentFault
    BY <1>4 DEF AttemptFails
  <2> QED BY <1>4, <2>1, StepFails, StepKeeps, FaultTyped
<1>5. ASSUME RunWave(r) PROVE AgentInv'
  <2>1. UNCHANGED <<usage, agentFaults>>
    BY <1>5 DEF RunWave
  <2> QED BY <1>5, <2>1, StepWave, StepKeeps, FaultTyped
<1>6. ASSUME EndTurn(r) PROVE AgentInv'
  <2>1. UNCHANGED <<usage, agentFaults>>
    BY <1>6 DEF EndTurn
  <2> QED BY <1>6, <2>1, StepEndTurn, StepKeeps, FaultTyped
<1>7. ASSUME NEW ok \in BOOLEAN, SearchReturns(r, ok) PROVE AgentInv'
  <2>1. UNCHANGED <<usage, agentFaults>>
    BY <1>7 DEF SearchReturns
  <2> QED BY <1>7, <2>1, StepSearch, StepKeeps, FaultTyped
<1>8. ASSUME NEW units \in RenderUnits, RenderPdf(r, units) PROVE AgentInv'
  <2>1. UNCHANGED <<usage, agentFaults>>
    BY <1>8 DEF RenderPdf
  <2> QED BY <1>8, <2>1, StepRender, StepKeeps, FaultTyped
<1> QED
  BY <1>1, <1>2, <1>3, <1>4, <1>5, <1>6, <1>7, <1>8

LEMMA RunCompletes ==
  ASSUME AgentInv, NEW r \in Runs, NEW c \in Costs
  PROVE  /\ \A n \in 0..MaxCallsPerTurn : TakeTurn(r, c, n) => AgentInv'
         /\ FinalTurn(r, c) => AgentInv'
         /\ \A valid \in BOOLEAN : Draft(r, c, valid) => AgentInv'
         /\ \A valid \in BOOLEAN : Repair(r, c, valid) => AgentInv'
<1>1. ASSUME NEW n \in 0..MaxCallsPerTurn, TakeTurn(r, c, n) PROVE AgentInv'
  <2>1. UNCHANGED <<usage, agentFaults>> /\ n \in Nat
    BY <1>1 DEF TakeTurn
  <2> QED BY <1>1, <2>1, StepTurn, StepKeeps, FaultTyped
<1>2. ASSUME FinalTurn(r, c) PROVE AgentInv'
  <2>1. UNCHANGED <<usage, agentFaults>>
    BY <1>2 DEF FinalTurn
  <2> QED BY <1>2, <2>1, StepFinal, StepKeeps, FaultTyped
<1>3. ASSUME NEW valid \in BOOLEAN, Draft(r, c, valid) PROVE AgentInv'
  <2>1. UNCHANGED <<usage, agentFaults>>
    BY <1>3 DEF Draft
  <2> QED BY <1>3, <2>1, StepDraft, StepKeeps, FaultTyped
<1>4. ASSUME NEW valid \in BOOLEAN, Repair(r, c, valid) PROVE AgentInv'
  <2>1. UNCHANGED <<usage, agentFaults>>
    BY <1>4 DEF Repair
  <2> QED BY <1>4, <2>1, StepRepair, StepKeeps, FaultTyped
<1> QED
  BY <1>1, <1>2, <1>3, <1>4

LEMMA AgentInitially ==
  ASSUME AgentInit
  PROVE  AgentInv
<1>1. /\ job = [r \in Runs |-> NoJob] /\ credits = [r \in Runs |-> 0] /\ usage = 0
      /\ got = [r \in Runs |-> NotYet] /\ agentFaults = 0
  BY DEF AgentInit
<1>2. \A r \in Runs : RunInv(job[r], credits[r], got[r])
  BY <1>1, Nowhere
<1>3. AgentTypeOK
  BY <1>1, Nowhere DEF AgentTypeOK, JobsOK, GotOK
<1>4. Within(usage, job)
  BY <1>1, WithinGrows, AgentAssumption
<1> QED
  BY <1>2, <1>3, <1>4, OvershootIs DEF AgentInv

LEMMA AgentMoves == AgentInv /\ [AgentNext]_agentVars => AgentInv'
<1> SUFFICES ASSUME AgentInv, [AgentNext]_agentVars
             PROVE  AgentInv'
  OBVIOUS
<1>1. CASE UNCHANGED agentVars
  BY <1>1, StepStutters
<1>2. CASE Renew
  BY <1>2, StepRenew
<1>3. ASSUME NEW r \in Runs, CommitRun(r)
      PROVE  AgentInv'
  BY <1>3, StepCommit
<1>4. CASE AgentNext
  BY <1>2, <1>3, <1>4, RunMoves, RunCompletes DEF AgentNext
<1> QED
  BY <1>1, <1>4

\* The strengthening of BilledAsUsed and OvershootBounded is inductive, for any
\* runs, caps, prices and limits: at each place of an attempt, the turns and
\* searches behind it bound its meter.
THEOREM AgentInvariance == AgentSpec => []AgentInv
BY AgentInitially, AgentMoves, PTL DEF AgentSpec

\* Every reachable state of jobs, meters, history and counter is well typed.
THEOREM AgentTyped == AgentSpec => []AgentTypeOK
<1>1. AgentInv => AgentTypeOK
  BY DEF AgentInv
<1> QED
  BY <1>1, AgentInvariance, PTL

LEMMA MeterHolds == AgentInv => BilledAsUsed
BY DEF AgentInv, RunInv, Billed, BilledAsUsed, TurnsBill

\* The meter of an attempt is the sum of what providers gave to this attempt,
\* whatever number of turns, waves of searches, repairs and attempts it took.
THEOREM MeterIsBill == AgentSpec => []BilledAsUsed
BY MeterHolds, AgentInvariance, PTL

\* However many runs pass the check of the balance before one of them is
\* debited, the user is taken beyond the limit by less than that many full runs.
THEOREM OvershootByRuns == AgentSpec => []OvershootBounded
<1>1. AgentInv => OvershootBounded
  BY DEF AgentInv
<1> QED
  BY <1>1, AgentInvariance, PTL

-----------------------------------------------------------------------------
(* The services beside each other *)

\* One service moves, and the others rest where they were: what only a service
\* that moves may lose is kept. The checks of FeatureGating move the subscription
\* themselves; Billing then has nothing but that subscription.
ServicesInv ==
  /\ UsersInv /\ IInv /\ AgentInv
  /\ part # "gating" => BillingInv /\ \A q \in Checks : check[q].at = "idle"
  /\ part = "gating" => /\ GatingInv /\ BillingTypeOK
                        /\ answered = {} /\ dedupe = {} /\ paddle.state = "none"
  /\ part \in {"users", "accounts", "billing", "gating", "runs"}

LEMMA ServicesInit_Inv == Init => ServicesInv
<1> SUFFICES ASSUME Init PROVE ServicesInv
  OBVIOUS
<1>1. UsersInv /\ IInv /\ AgentInv
  BY InvInit, InitInv, AgentInitially DEF Init
<1>2. BillingInv /\ BillingTypeOK /\ GatingInv
  BY BillingStarts, BillingTypes, GatingStarts DEF Init
<1>3. \A q \in Checks : check[q].at = "idle"
  BY NoCheckTyped DEF Init, GatingInit
<1>4. answered = {} /\ dedupe = {} /\ paddle.state = "none"
  BY DEF Init, BillingInit
<1> QED
  BY <1>1, <1>2, <1>3, <1>4 DEF ServicesInv, Init

\* The reads and answers of FeatureGating leave the record well typed.
LEMMA WebhooksRest ==
  ASSUME BillingTypeOK, GatingInv', UNCHANGED Webhooks
  PROVE  BillingTypeOK'
<1>1. now' \in 1..MaxPeriods /\ sub' \in {NoSub} \cup SubDoc
  BY DEF GatingInv, GateTypeInv
<1> QED
  BY <1>1 DEF BillingTypeOK, Webhooks, historyVars, SubDoc

LEMMA ServicesNext_Inv == ServicesInv /\ [Next]_vars => ServicesInv'
<1> SUFFICES ASSUME ServicesInv, [Next]_vars PROVE ServicesInv'
  OBVIOUS
<1>1. part' = part
  BY DEF Next, vars
<1>2. /\ [UsersNext]_userVars /\ [AccountsNext]_accountVars /\ [AgentNext]_agentVars
      /\ part # "gating" => [BillingNext]_billingVars /\ UNCHANGED gatingVars
      /\ part = "gating" => \/ GatingNext /\ UNCHANGED Webhooks
                            \/ UNCHANGED <<gatingVars, billingVars>>
  BY DEF Next, vars
<1>3. UsersInv' /\ IInv' /\ AgentInv'
  BY <1>2, UsersMove, Inductive, AgentMoves DEF ServicesInv
<1>4. CASE part # "gating"
  <2>1. BillingInv'
    BY <1>2, <1>4, BillingStep DEF ServicesInv
  <2>2. check' = check
    BY <1>2, <1>4 DEF gatingVars
  <2> QED
    BY <1>1, <1>3, <1>4, <2>1, <2>2 DEF ServicesInv
<1>5. CASE part = "gating"
  <2>1. [GatingNext]_<<sub, now, gatingVars>>
    BY <1>2, <1>5 DEF billingVars
  <2>2. GatingInv'
    BY <1>5, <2>1, GatingStep DEF ServicesInv
  <2>3. UNCHANGED Webhooks
    BY <1>2, <1>5 DEF billingVars, Webhooks
  <2>4. BillingTypeOK'
    BY <1>5, <2>2, <2>3, WebhooksRest DEF ServicesInv
  <2>5. answered' = answered /\ dedupe' = dedupe /\ paddle' = paddle
    BY <2>3 DEF Webhooks
  <2> QED
    BY <1>1, <1>3, <1>5, <2>2, <2>4, <2>5 DEF ServicesInv
<1> QED
  BY <1>4, <1>5

\* The service that moves keeps its invariant, and those that rest have nothing to
\* lose but what is kept of them.
THEOREM ServicesInvariance == Spec => []ServicesInv
BY ServicesInit_Inv, ServicesNext_Inv, PTL DEF Spec

\* Every reachable state of the services beside each other is well typed.
THEOREM ServicesTyped == Spec => []TypeOK
<1>1. ServicesInv => TypeOK
  BY AccountsTypes, BillingTypes, GatingTypes DEF ServicesInv, TypeOK, UsersInv, AgentInv
<1> QED
  BY <1>1, ServicesInvariance, PTL

\* What each service promises alone it keeps beside the others.
THEOREM ServicesKeep ==
  Spec => [](/\ SignInsResolve /\ IdentitiesUnique
             /\ OneOwner /\ CapOvershootBounded /\ PagesFollowPerson /\ MetadataIsCurrent
             /\ AnsweredIsApplied /\ ServedAsPaid /\ AnswersAgree
             /\ BilledAsUsed /\ OvershootBounded)
<1>1. UsersInv => SignInsResolve /\ IdentitiesUnique
  BY DEF UsersInv
<1>2. IInv => OneOwner /\ CapOvershootBounded /\ PagesFollowPerson /\ MetadataIsCurrent
  BY CapHolds DEF IInv, PageInv
<1>3. AgentInv => BilledAsUsed /\ OvershootBounded
  BY MeterHolds DEF AgentInv
<1>4. part # "gating" /\ ServicesInv => AnsweredIsApplied /\ ServedAsPaid /\ AnswersAgree
  BY AppliedHolds, ServedHolds DEF ServicesInv, AnswersAgree
<1>5. part = "gating" /\ ServicesInv => AnsweredIsApplied /\ ServedAsPaid /\ AnswersAgree
  BY AgreeHolds DEF ServicesInv, AnsweredIsApplied, ServedAsPaid
<1>6. ServicesInv => /\ SignInsResolve /\ IdentitiesUnique
                     /\ OneOwner /\ CapOvershootBounded /\ PagesFollowPerson /\ MetadataIsCurrent
                     /\ AnsweredIsApplied /\ ServedAsPaid /\ AnswersAgree
                     /\ BilledAsUsed /\ OvershootBounded
  BY <1>1, <1>2, <1>3, <1>4, <1>5 DEF ServicesInv
<1> QED
  BY <1>6, ServicesInvariance, PTL
=============================================================================
