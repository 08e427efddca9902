--------------------------- MODULE RunEvents_proofs ---------------------------
(***************************************************************************)
(* What a client learns of a run, for any number of attempts, events,       *)
(* failed writes, crashes and broken connections: the safety properties of  *)
(* RunEvents.                                                               *)
(***************************************************************************)
EXTENDS RunEvents, FiniteSetTheorems, SequenceTheorems, TLAPS

-----------------------------------------------------------------------------
(* The inductive invariant *)

\* Every hand-out of the job has built one emitter, and each but the last was
\* ended by a failed attempt or lost to a worker that died.
CountInv ==
  /\ drops + faults + crashes <= MaxTroubles
  /\ stalls <= crashes
  /\ job = "waiting" => /\ at = "idle" /\ attemptsMade < MaxAttempts
                        /\ emitter = attemptsMade + stalls
  /\ job = "active" => /\ at = "idle" => stalls < crashes
                       /\ at \notin {"failRun", "failed"} /\ attemptsMade < MaxAttempts
                       /\ emitter = attemptsMade + stalls + 1
  /\ job = "completed" => at = "idle"
  /\ job = "failed" => at \in {"idle", "failRun", "failed"}
  /\ at # "idle" => emitter # 0

\* The relay's cursor is the last id the browser saw, and the browser is at one
\* end of every open connection.
CursorInv ==
  /\ client.at = "open" <=> conn.at # "none"
  /\ conn.at # "none" => conn.next = LastEventId

\* What an emitter has written or lost comes before what is in its chain.
Settled(e) == seq[e] - Len(tail[e])

ChainInv ==
  \A e \in Emitters :
    /\ Len(tail[e]) <= seq[e]
    /\ \A i \in 1..Len(tail[e]) : tail[e][i].by = e /\ tail[e][i].seq = Settled(e) + i

StreamInv ==
  /\ \A i \in 1..Len(log) : log[i].seq <= Settled(log[i].by)
  /\ \A i, j \in 1..Len(log) : i < j /\ log[i].by = log[j].by => log[i].seq < log[j].seq
  /\ drops + crashes = 0 =>
       \A e \in Emitters : \A s \in 1..Settled(e) :
         \E i \in 1..Len(log) : log[i].by = e /\ log[i].seq = s

\* Which end of the run the record gives.
Agrees(type, end) == /\ type = "run.completed" => end = "COMPLETED"
                     /\ type = "run.failed"    => end = "FAILED"

EndInv ==
  faults + crashes = 0 =>
    /\ record = "COMPLETED" => at \in {"completed", "announced"} \/ job = "completed"
    /\ record = "FAILED" => job = "failed" /\ at # "failRun"
    /\ job = "completed" \/ at \in {"completed", "announced"} => record = "COMPLETED"
    /\ job = "failed" /\ at # "failRun" => record = "FAILED"
    /\ \A e \in Emitters : \A i \in 1..Len(tail[e]) : Agrees(tail[e][i].type, record)
    /\ \A i \in 1..Len(log) : Agrees(log[i].type, record)
    /\ conn.at \in {"read", "length", "replay"} => conn.status = record

RelayInv == conn.at \in {"read", "length", "replay"} => conn.status # "RUNNING"

IInv == /\ TypeOK /\ CountInv /\ CursorInv /\ NoGapNoRepeat
        /\ ChainInv /\ StreamInv /\ EndInv /\ RelayInv /\ ToldIsRecorded

-----------------------------------------------------------------------------
(* Numbers in an interval *)

\* The least number principle, from the finite sets 0..n: the library's own
\* form takes an operator.
LEMMA HasLeast ==
  ASSUME NEW T, T \subseteq Nat, T # {}
  PROVE  \E n \in T : \A m \in T : n <= m
<1> DEFINE Downs == {0..n : n \in T}
<1>1. Downs \subseteq FiniteSubsetsOf(Nat) /\ Downs # {}
  <2>1. \A n \in T : 0..n \in SUBSET Nat /\ IsFiniteSet(0..n)
    BY FS_Interval
  <2> QED
    BY <2>1 DEF FiniteSubsetsOf
<1>2. PICK D \in Downs : \A E \in Downs : ~(<<E, D>> \in StrictSubsetOrdering(Nat))
  <2> HIDE DEF Downs
  <2> QED
    BY <1>1, WFMin, FS_StrictSubsetOrderingWellFounded
<1>3. PICK n \in T : D = 0..n
  OBVIOUS
<1>4. ASSUME NEW m \in T PROVE n <= m
  <2>1. ~(<<0..m, 0..n>> \in StrictSubsetOrdering(Nat))
    BY <1>2, <1>3
  <2>2. 0..m \subseteq Nat /\ 0..n \subseteq Nat /\ n \in Nat /\ m \in Nat
    OBVIOUS
  <2>3. CASE m < n
    <3>1. 0..m \subseteq 0..n /\ n \in 0..n /\ n \notin 0..m
      BY <2>2, <2>3
    <3>2. <<0..m, 0..n>> \in StrictSubsetOrdering(Nat)
      BY <2>2, <3>1 DEF StrictSubsetOrdering
    <3> QED
      BY <2>1, <3>2
  <2> QED
    BY <2>2, <2>3
<1> QED
  BY <1>4

LEMMA HasGreatest ==
  ASSUME NEW a \in Nat, NEW b \in Nat, NEW T, T \subseteq a..b, T # {}
  PROVE  \E n \in T : \A m \in T : m <= n
<1> DEFINE Below == {b - n : n \in T}
<1>1. \A n \in T : b - n \in Nat
  OBVIOUS
<1>2. Below \subseteq Nat /\ Below # {}
  BY <1>1
<1>3. \E k \in Below : \A j \in Below : k <= j
  <2> HIDE DEF Below
  <2> QED
    BY <1>2, HasLeast
<1>4. PICK n \in T : \A m \in T : b - n <= b - m
  BY <1>3
<1> QED
  BY <1>4

-----------------------------------------------------------------------------
(* Initial states *)

LEMMA InitInv == Init => IInv
<1> SUFFICES ASSUME Init PROVE IInv
  OBVIOUS
<1> USE DEF Init, NoConn
<1>1. TypeOK
  <2>1. <<>> \in Seq(Events) /\ <<>> \in Seq(1..0) /\ Len(log) = 0
    OBVIOUS
  <2>2. attemptsMade \in 0..MaxAttempts /\ stalls \in 0..MaxTroubles
    BY EventsAssumption
  <2>3. conn \in [at : {"none", "live", "read", "length", "replay"},
                  status : {"RUNNING", "COMPLETED", "FAILED"}, next : 0..Len(log)]
    BY <2>1
  <2>4. client \in [at : {"connecting", "open", "stopped"}, seen : Seq(1..Len(log)),
                    told : Terminal \cup {"none"}]
    BY <2>1
  <2>5. /\ tail \in [Emitters -> Seq(Events)] /\ seq \in [Emitters -> Nat]
        /\ log \in Seq(Events) /\ gone \in 0..Len(log)
    BY <2>1
  <2>6. at \in Places /\ job \in {"waiting", "active", "completed", "failed"}
    BY DEF Places
  <2>7. /\ record \in {"RUNNING", "COMPLETED", "FAILED"} /\ ttl \in BOOLEAN
        /\ emitter \in {0} \cup Emitters
    OBVIOUS
  <2>8. {drops, faults, crashes, cuts} \subseteq Nat
    <3>1. drops = 0 /\ faults = 0 /\ crashes = 0 /\ cuts = 0
      OBVIOUS
    <3> QED
      BY ONLY <3>1
  <2> QED
    BY <2>2, <2>3, <2>4, <2>5, <2>6, <2>7, <2>8, Zenon DEF TypeOK
<1>2. CountInv
  BY EventsAssumption DEF CountInv
<1>3. CursorInv /\ NoGapNoRepeat /\ RelayInv
  BY DEF CursorInv, NoGapNoRepeat, RelayInv
<1>4. ChainInv /\ StreamInv
  BY DEF ChainInv, StreamInv, Settled
<1>5. EndInv /\ ToldIsRecorded
  BY DEF EndInv, ToldIsRecorded, Agrees
<1> QED
  BY <1>1, <1>2, <1>3, <1>4, <1>5 DEF IInv

-----------------------------------------------------------------------------
(* What each kind of action leaves alone *)

LEMMA WorkFrame ==
  ASSUME Work \/ Crash \/ Stalled
  PROVE  UNCHANGED <<streamVars, relayVars, drops, cuts>>
BY DEF Work, PickUp, Progress, StepFails, RefuseAttempt, Complete, RecordWriteFails,
       AnnounceCompleted, JobCompleted, FailAttempt, FailRun, AnnounceFailed, Crash, Stalled,
       boundVars

LEMMA WriteFrame ==
  ASSUME NEW e \in Emitters, Write(e) \/ WriteFails(e)
  PROVE  /\ UNCHANGED <<runVars, emitter, seq, gone, relayVars, faults, crashes, cuts>>
         /\ tail[e] # <<>> /\ tail' = [tail EXCEPT ![e] = Tail(@)]
         /\ \/ drops' = drops /\ log' = Append(log, Head(tail[e]))
            \/ /\ drops' = drops + 1 /\ Trouble
               /\ log' = log \/ log' = Append(log, Head(tail[e]))
BY DEF Write, WriteFails, boundVars

LEMMA RelayFrame ==
  ASSUME Relay \/ Connect \/ Cut
  PROVE  UNCHANGED <<runVars, emitVars, streamVars, drops, faults, crashes>>
<1>1. ASSUME NEW n, NEW stage, Forward(n, stage) PROVE UNCHANGED <<drops, faults, crashes>>
  BY <1>1 DEF Forward, Breaks, boundVars
<1>2. CASE RelayLive
  BY <1>1, <1>2 DEF RelayLive
<1>3. CASE RelayTerminal
  BY <1>1, <1>3 DEF RelayTerminal, boundVars
<1>4. CASE RelayLength \/ Connect \/ Cut
  BY <1>4 DEF RelayLength, Connect, Cut, Breaks, boundVars
<1> QED
  BY <1>2, <1>3, <1>4 DEF Relay

LEMMA ExpireFrame ==
  ASSUME Expire
  PROVE  UNCHANGED <<runVars, emitVars, log, relayVars, boundVars>> /\ gone' = Len(log)
BY DEF Expire

\* What an action of the job or of its worker does to the chains: nothing, one
\* event added to the chain of the emitter in use, or all of them lost.
Emits(e, type) == EmitBy(e, type) /\ emitter' = e

LEMMA WorkEmits ==
  ASSUME Work \/ Crash \/ Stalled
  PROVE  \/ UNCHANGED emitVars
         \/ seq' = seq /\ tail' = tail /\ emitter' = emitter + 1 /\ PickUp
         \/ Emits(emitter + 1, "run.started") /\ PickUp
         \/ at # "idle" /\ (Emits(emitter, "progress") \/ Emits(emitter, "step.failed"))
         \/ AnnounceCompleted /\ Emits(emitter, "run.completed")
         \/ AnnounceFailed /\ Emits(emitter, "run.failed")
         \/ Crash /\ tail' = [e \in Emitters |-> <<>>] /\ UNCHANGED <<emitter, seq>>
BY DEF Work, PickUp, Progress, StepFails, RefuseAttempt, Complete, RecordWriteFails,
       AnnounceCompleted, JobCompleted, FailAttempt, FailRun, AnnounceFailed, Crash, Stalled,
       emitVars, Emit, EmitAfresh, Emits

-----------------------------------------------------------------------------
(* Counting hand-outs *)

LEMMA Counters ==
  ASSUME TypeOK
  PROVE  /\ attemptsMade \in Nat /\ stalls \in Nat /\ emitter \in Nat
         /\ drops \in Nat /\ faults \in Nat /\ crashes \in Nat /\ cuts \in Nat
         /\ MaxTroubles \in Nat /\ MaxAttempts \in Nat \ {0} /\ Batch \in Nat \ {0}
<1>1. MaxTroubles \in Nat /\ MaxAttempts \in Nat \ {0} /\ Batch \in Nat \ {0}
  BY EventsAssumption
<1>2. attemptsMade \in Nat /\ stalls \in Nat
  BY <1>1 DEF TypeOK
<1>3. emitter \in Nat
  BY <1>1 DEF TypeOK, Emitters
<1>4. drops \in Nat /\ faults \in Nat /\ crashes \in Nat /\ cuts \in Nat
  BY Zenon DEF TypeOK
<1> QED
  BY <1>1, <1>2, <1>3, <1>4

LEMMA CountStep == TypeOK /\ CountInv /\ [Next]_vars => CountInv'
<1> SUFFICES ASSUME TypeOK, CountInv, [Next]_vars PROVE CountInv'
  OBVIOUS
<1>0. /\ attemptsMade \in Nat /\ stalls \in Nat /\ emitter \in Nat
      /\ drops \in Nat /\ faults \in Nat /\ crashes \in Nat
      /\ MaxTroubles \in Nat /\ MaxAttempts \in Nat \ {0}
      /\ job \in {"waiting", "active", "completed", "failed"} /\ at \in Places
  BY Counters DEF TypeOK
<1> USE DEF CountInv
<1>1. CASE Work
  <2>1. CASE PickUp
    BY <1>0, <2>1 DEF PickUp, EmitAfresh, boundVars
  <2>2. CASE Progress \/ StepFails \/ RefuseAttempt \/ Complete \/ AnnounceCompleted \/ JobCompleted
    BY <1>0, <2>2 DEF Progress, StepFails, RefuseAttempt, Complete, AnnounceCompleted, JobCompleted,
       Emit, emitVars, runVars, boundVars
  <2>3. CASE RecordWriteFails
    BY <1>0, <2>3 DEF RecordWriteFails, Trouble, emitVars
  <2>4. ASSUME NEW final \in BOOLEAN, FailAttempt(final) PROVE CountInv'
    BY <1>0, <2>4 DEF FailAttempt, IsTerminalJobFailure, emitVars, boundVars
  <2>5. CASE FailRun \/ AnnounceFailed
    BY <1>0, <2>5 DEF FailRun, AnnounceFailed, Trouble, Emit, emitVars, boundVars
  <2> QED
    BY <1>1, <2>1, <2>2, <2>3, <2>4, <2>5 DEF Work
<1>2. CASE Crash
  BY <1>0, <1>2 DEF Crash, Trouble
<1>3. CASE Stalled
  BY <1>0, <1>3 DEF Stalled, emitVars, boundVars
<1>4. ASSUME NEW e \in Emitters, Write(e) \/ WriteFails(e) PROVE CountInv'
  <2>1. /\ UNCHANGED <<stalls, job, at, attemptsMade, emitter, faults, crashes>>
        /\ (drops' = drops \/ (drops' = drops + 1 /\ Trouble))
    BY <1>4, WriteFrame DEF runVars
  <2> QED
    BY <1>0, <2>1 DEF Trouble
<1>5. CASE Expire \/ Relay \/ Connect \/ Cut \/ UNCHANGED vars
  BY <1>5, ExpireFrame, RelayFrame DEF runVars, emitVars, boundVars, vars
<1> QED
  BY <1>1, <1>2, <1>3, <1>4, <1>5 DEF Next

-----------------------------------------------------------------------------
(* What the relay and the browser do to each other *)

\* Entries First..m go into the browser's ids one by one, and it is told at most
\* what one of them says.
LEMMA TakeEffect ==
  ASSUME TypeOK, NEW m \in First - 1 .. Len(log), NEW state, Take(m, state)
  PROVE  /\ First \in 1..Len(log) + 1
         /\ client' = [at |-> state, seen |-> client'.seen, told |-> client'.told]
         /\ client'.seen \in Seq(1..Len(log))
         /\ Len(client'.seen) = Len(client.seen) + (m - First + 1)
         /\ \A k \in 1..Len(client.seen) : client'.seen[k] = client.seen[k]
         /\ \A k \in 1..m - First + 1 : client'.seen[Len(client.seen) + k] = First + k - 1
         /\ \/ client'.told = client.told
            \/ \E i \in 1..Len(log) : log[i].type \in Terminal /\ client'.told = log[i].type
<1> DEFINE new == [k \in 1..(m - First + 1) |-> First + k - 1]
<1>1. /\ log \in Seq(Events) /\ Len(log) \in Nat /\ gone \in 0..Len(log)
      /\ conn.next \in 0..Len(log) /\ client.seen \in Seq(1..Len(log))
  BY DEF TypeOK
<1>2. First \in 1..Len(log) + 1
  BY <1>1 DEF First
<1>3. m - First + 1 \in Nat /\ \A k \in 1..(m - First + 1) : First + k - 1 \in 1..Len(log)
  BY <1>1, <1>2
<1>4. new \in Seq(1..Len(log)) /\ Len(new) = m - First + 1
  BY <1>3, IsASeq
<1>5. client'.seen = client.seen \o new
  BY DEF Take
<1>6. /\ client'.seen \in Seq(1..Len(log)) /\ Len(client'.seen) = Len(client.seen) + Len(new)
      /\ \A k \in 1..Len(client.seen) + Len(new) :
           client'.seen[k] = IF k <= Len(client.seen) THEN client.seen[k]
                                                      ELSE new[k - Len(client.seen)]
  <2> DEFINE Ids == 1..Len(log)
  <2>1. client.seen \in Seq(Ids) /\ new \in Seq(Ids)
    BY <1>1, <1>4
  <2> HIDE DEF new, Ids
  <2>2. /\ client.seen \o new \in Seq(Ids)
        /\ Len(client.seen \o new) = Len(client.seen) + Len(new)
        /\ \A k \in 1..Len(client.seen) + Len(new) :
             (client.seen \o new)[k] = IF k <= Len(client.seen) THEN client.seen[k]
                                                               ELSE new[k - Len(client.seen)]
    BY <2>1, ConcatProperties
  <2> QED
    BY <1>5, <2>2 DEF Ids
<1>7. \A k \in 1..Len(client.seen) : client'.seen[k] = client.seen[k]
  <2>1. Len(client.seen) \in Nat /\ Len(new) \in Nat
    BY <1>1, <1>3, <1>4, LenProperties
  <2> SUFFICES ASSUME NEW k \in 1..Len(client.seen) PROVE client'.seen[k] = client.seen[k]
    OBVIOUS
  <2> HIDE DEF new
  <2>2. k \in 1..Len(client.seen) + Len(new) /\ k <= Len(client.seen)
    BY <2>1
  <2> QED
    BY <1>6, <2>2
<1>8. \A k \in 1..m - First + 1 : client'.seen[Len(client.seen) + k] = First + k - 1
  <2> SUFFICES ASSUME NEW k \in 1..m - First + 1
               PROVE  client'.seen[Len(client.seen) + k] = First + k - 1
    OBVIOUS
  <2>1. new[k] = First + k - 1
    OBVIOUS
  <2>2. /\ Len(client.seen) \in Nat /\ Len(client.seen) + k \in 1..Len(client.seen) + Len(new)
        /\ ~(Len(client.seen) + k <= Len(client.seen))
        /\ (Len(client.seen) + k) - Len(client.seen) = k
    <3>1. Len(client.seen) \in Nat /\ m - First + 1 \in Nat /\ Len(new) = m - First + 1
      BY <1>1, <1>3, <1>4
    <3> HIDE DEF new
    <3> QED
      BY ONLY <3>1
  <2> HIDE DEF new
  <2> QED
    BY <1>6, <2>1, <2>2
<1>9. \/ client'.told = client.told
      \/ \E i \in 1..Len(log) : log[i].type \in Terminal /\ client'.told = log[i].type
  <2>1. CASE Ends(First, m) = {}
    BY <2>1 DEF Take
  <2>2. CASE Ends(First, m) # {}
    <3>1. Ends(First, m) \subseteq First..m /\ First \in Nat /\ m \in Nat
      BY <1>1, <1>2 DEF Ends
    <3>2. \E i \in Ends(First, m) : \A j \in Ends(First, m) : j <= i
      BY <2>2, <3>1, HasGreatest
    <3>3. PICK i \in Ends(First, m) :
            i = CHOOSE l \in Ends(First, m) : \A j \in Ends(First, m) : j <= l
      BY <3>2
    <3>4. client'.told = log[i].type
      BY <2>2, <3>3 DEF Take
    <3>5. log[i].type \in Terminal /\ i \in 1..Len(log)
      BY <1>1, <1>2, <3>1 DEF Ends
    <3> QED
      BY <3>4, <3>5
  <2> QED
    BY <2>1, <2>2
<1>10. client' = [at |-> state, seen |-> client'.seen, told |-> client'.told]
  BY DEF Take
<1> QED
  BY <1>2, <1>4, <1>6, <1>7, <1>8, <1>9, <1>10

\* The frames of a read up to entry m, and the end of the connection or the
\* cursor behind them.
Frames(m) ==
  /\ conn.at \in {"live", "read", "replay"}
  /\ cuts' \in {cuts, cuts + 1}
  /\ \E state \in {"connecting", "open", "stopped"} :
       /\ Take(m, state)
       /\ \/ conn' = NoConn /\ state # "open"
          \/ /\ conn' = [conn EXCEPT !.at = IF conn.at = "live" THEN "live" ELSE "replay",
                                    !.next = m]
             /\ state = "open" /\ First <= m

Leaves(state, told) ==
  conn' = NoConn /\ client' = [client EXCEPT !.at = state, !.told = told]

LEMMA ForwardMoves ==
  ASSUME TypeOK, NEW n \in First..Len(log), NEW stage,
         stage \in {"ended", IF conn.at = "live" THEN "live" ELSE "replay"},
         conn.at \in {"live", "read", "replay"}, Forward(n, stage)
  PROVE  \E m \in First - 1 .. Len(log) : Frames(m)
<1>0. First \in Nat /\ Len(log) \in Nat /\ cuts \in Nat
  BY DEF TypeOK, First
<1>1. ASSUME NEW state \in {"connecting", "open", "stopped"}, Take(n, state),
             state = IF stage = "ended" THEN "connecting" ELSE "open",
             conn' = IF stage = "ended" THEN NoConn ELSE [conn EXCEPT !.at = stage, !.next = n],
             UNCHANGED boundVars
      PROVE  Frames(n)
  <2>1. cuts' \in {cuts, cuts + 1} /\ First <= n
    BY <1>0, <1>1 DEF boundVars
  <2>2. CASE stage = "ended"
    BY <1>1, <2>1, <2>2 DEF Frames
  <2>3. CASE stage # "ended"
    BY <1>1, <2>1, <2>3 DEF Frames
  <2> QED
    BY <2>2, <2>3
<1>2. ASSUME NEW m \in First..n, Take(m, "stopped"), conn' = NoConn, UNCHANGED boundVars
      PROVE  Frames(m)
  BY <1>0, <1>2 DEF Frames, boundVars
<1>3. ASSUME NEW m \in First - 1 .. n - 1, Take(m, "connecting"), conn' = NoConn, Breaks
      PROVE  Frames(m)
  BY <1>0, <1>3 DEF Frames, Breaks
<1> QED
  BY <1>0, <1>1, <1>2, <1>3 DEF Forward

LEMMA RelayMoves ==
  ASSUME TypeOK, Relay \/ Connect \/ Cut
  PROVE  \/ \E m \in First - 1 .. Len(log) : Frames(m)
         \/ /\ client.at = "connecting" /\ client' = [client EXCEPT !.at = "open"]
            /\ conn' = [at |-> IF record = "RUNNING" THEN "live" ELSE "read",
                        status |-> record, next |-> LastEventId]
            /\ cuts' = cuts
         \/ /\ conn.at = "read" /\ conn' = [conn EXCEPT !.at = "length"]
            /\ UNCHANGED <<client, cuts>>
         \/ /\ \E state \in {"connecting", "stopped"} :
                 \/ Leaves(state, client.told)
                 \/ /\ conn.at = "length"
                    /\ Leaves(state, IF conn.status = "COMPLETED" THEN "run.completed"
                                                                  ELSE "run.failed")
            /\ cuts' \in {cuts, cuts + 1}
<1>0. /\ First \in 1..Len(log) + 1 /\ Len(log) \in Nat /\ cuts \in Nat /\ Batch \in Nat \ {0}
      /\ client = [at |-> client.at, seen |-> client.seen, told |-> client.told]
  <2>1. Len(log) \in Nat /\ conn.next \in 0..Len(log) /\ gone \in 0..Len(log)
    BY DEF TypeOK
  <2>2. client = [at |-> client.at, seen |-> client.seen, told |-> client.told]
    BY DEF TypeOK
  <2>3. First \in 1..Len(log) + 1
    BY <2>1 DEF First
  <2> QED
    BY <2>1, <2>2, <2>3, Counters
<1>1. Later # {} => First <= Len(log) /\ Last \in First..Len(log)
  <2> SUFFICES ASSUME Later # {} PROVE First <= Len(log) /\ Last \in First..Len(log)
    OBVIOUS
  <2>1. PICK i \in 1..Len(log) : i > conn.next /\ i > gone
    BY DEF Later
  <2>2. conn.next \in Nat /\ gone \in Nat /\ i \in Nat
    BY <1>0 DEF TypeOK
  <2>3. First \in Nat /\ First <= Len(log)
    BY <1>0, <2>1, <2>2 DEF First
  <2>4. Last \in First..Len(log)
    BY <1>0, <2>3 DEF Last
  <2> QED
    BY <2>3, <2>4
<1>2. CASE RelayLive
  <2> DEFINE ends == Ends(First, Last)
  <2>1. First <= Len(log) /\ Last \in First..Len(log)
    BY <1>1, <1>2 DEF RelayLive
  <2>2. CASE ends = {}
    BY <1>2, <2>1, <2>2, ForwardMoves DEF RelayLive
  <2>3. CASE ends # {}
    <3>1. ends \subseteq First..Last /\ ends \subseteq Nat
      BY <1>0, <2>1 DEF Ends
    <3>2. \E i \in ends : \A j \in ends : i <= j
      BY <2>3, <3>1, HasLeast
    <3>3. PICK i \in ends : i = CHOOSE l \in ends : \A j \in ends : l <= j
      BY <3>2
    <3>4. Forward(i, "ended")
      BY <1>2, <2>3, <3>3 DEF RelayLive
    <3>5. i \in First..Len(log)
      BY <1>0, <2>1, <3>1
    <3> QED
      BY <1>2, <3>4, <3>5, ForwardMoves DEF RelayLive
  <2> QED
    BY <2>2, <2>3
<1>3. CASE RelayTerminal
  <2>1. CASE conn.at \in {"read", "replay"} /\ Later # {} /\ Forward(Last, "replay")
    BY <1>1, <2>1, ForwardMoves
  <2>2. CASE ~(conn.at \in {"read", "replay"} /\ Later # {} /\ Forward(Last, "replay"))
    BY <1>0, <1>3, <2>2 DEF RelayTerminal, Leaves, boundVars
  <2> QED
    BY <2>1, <2>2
<1>4. CASE RelayLength
  BY <1>0, <1>4 DEF RelayLength, Leaves, boundVars
<1>5. CASE Connect
  BY <1>5 DEF Connect, boundVars
<1>6. CASE Cut
  BY <1>0, <1>6 DEF Cut, Breaks, Leaves
<1> QED
  BY <1>2, <1>3, <1>4, <1>5, <1>6 DEF Relay

-----------------------------------------------------------------------------
(* Types *)

\* The log only grows, which keeps the cursor and the ids in range.
LEMMA LogGrows ==
  ASSUME TypeOK, log' \in Seq(Events), Len(log') >= Len(log), UNCHANGED <<gone, relayVars>>
  PROVE  /\ gone' \in 0..Len(log')
         /\ conn' \in [at : {"none", "live", "read", "length", "replay"},
                       status : {"RUNNING", "COMPLETED", "FAILED"}, next : 0..Len(log')]
         /\ client' \in [at : {"connecting", "open", "stopped"}, seen : Seq(1..Len(log')),
                         told : Terminal \cup {"none"}]
<1>1. Len(log) \in Nat /\ Len(log') \in Nat
  BY DEF TypeOK
<1>2. 1..Len(log) \subseteq 1..Len(log') /\ 0..Len(log) \subseteq 0..Len(log')
  BY <1>1
<1>3. client.seen \in Seq(1..Len(log'))
  <2>1. client.seen \in Seq(1..Len(log))
    BY DEF TypeOK
  <2> QED
    BY <1>2, <2>1, SeqMonotonic
<1>4. gone' \in 0..Len(log') /\ conn'.next \in 0..Len(log')
  BY <1>2 DEF TypeOK, relayVars
<1> QED
  BY <1>3, <1>4 DEF TypeOK, relayVars

LEMMA TypeStep == TypeOK /\ CountInv /\ [Next]_vars => TypeOK'
<1> SUFFICES ASSUME TypeOK, CountInv, [Next]_vars PROVE TypeOK'
  OBVIOUS
<1>0. /\ attemptsMade \in Nat /\ stalls \in Nat /\ emitter \in Nat
      /\ drops \in Nat /\ faults \in Nat /\ crashes \in Nat /\ cuts \in Nat
      /\ MaxTroubles \in Nat /\ MaxAttempts \in Nat \ {0}
      /\ CountInv'
  BY Counters, CountStep
<1>1. CASE Work \/ Crash \/ Stalled
  <2>1. UNCHANGED <<streamVars, relayVars, drops, cuts>>
    BY <1>1, WorkFrame
  <2>2. /\ record' \in {"RUNNING", "COMPLETED", "FAILED"}
        /\ job' \in {"waiting", "active", "completed", "failed"} /\ at' \in Places
        /\ {faults', crashes'} \subseteq Nat
    <3>1. /\ record \in {"RUNNING", "COMPLETED", "FAILED"}
          /\ job \in {"waiting", "active", "completed", "failed"} /\ at \in Places
      BY DEF TypeOK
    <3>2. faults' \in {faults, faults + 1} /\ crashes' \in {crashes, crashes + 1}
      BY <1>1 DEF Work, PickUp, Progress, StepFails, RefuseAttempt, Complete,
         RecordWriteFails, AnnounceCompleted, JobCompleted, FailAttempt, FailRun, AnnounceFailed,
         Crash, Stalled, boundVars
    <3>3. record' \in {record, "COMPLETED", "FAILED"}
      BY <1>1 DEF Work, PickUp, Progress, StepFails, RefuseAttempt, Complete,
         RecordWriteFails, AnnounceCompleted, JobCompleted, FailAttempt, FailRun, AnnounceFailed,
         Crash, Stalled, runVars
    <3>4. job' \in {job, "waiting", "active", "completed", "failed"}
      BY <1>1 DEF Work, PickUp, Progress, StepFails, RefuseAttempt, Complete,
         RecordWriteFails, AnnounceCompleted, JobCompleted, FailAttempt, FailRun, AnnounceFailed,
         Crash, Stalled, runVars
    <3>5. at' \in Places
      BY <1>1, <3>1 DEF Work, PickUp, Progress, StepFails, RefuseAttempt, Complete,
         RecordWriteFails, AnnounceCompleted, JobCompleted, FailAttempt, FailRun, AnnounceFailed,
         Crash, Stalled, runVars, Places
    <3> QED
      BY <1>0, <3>1, <3>2, <3>3, <3>4, <3>5
  <2>3. attemptsMade' \in 0..MaxAttempts
    <3>1. CASE attemptsMade' = attemptsMade
      BY <3>1 DEF TypeOK
    <3>2. CASE attemptsMade' # attemptsMade
      <4>1. attemptsMade' = attemptsMade + 1 /\ at \in {"flushFinal", "flushRetry", "throwRetry"}
        BY <1>1, <3>2 DEF Work, PickUp, Progress, StepFails, RefuseAttempt, Complete,
           RecordWriteFails, AnnounceCompleted, JobCompleted, FailAttempt, FailRun, AnnounceFailed,
           Crash, Stalled, runVars
      <4>2. attemptsMade < MaxAttempts
        BY <4>1 DEF CountInv, TypeOK
      <4> QED
        BY <1>0, <4>1, <4>2
    <3> QED
      BY <3>1, <3>2
  <2>4. stalls' \in 0..MaxTroubles
    <3>1. stalls' \in Nat
      BY <1>0, <1>1 DEF Work, PickUp, Progress, StepFails, RefuseAttempt, Complete,
         RecordWriteFails, AnnounceCompleted, JobCompleted, FailAttempt, FailRun, AnnounceFailed,
         Crash, Stalled, runVars
    <3> QED
      BY <1>0, <2>1, <2>2, <3>1 DEF CountInv
  <2>5. /\ emitter' \in {0} \cup Emitters /\ seq' \in [Emitters -> Nat]
        /\ tail' \in [Emitters -> Seq(Events)]
    <3>1. PickUp => emitter + 1 \in Emitters
      BY <1>0 DEF PickUp, CountInv, Emitters, TypeOK
    <3>2. at # "idle" => emitter \in Emitters
      BY DEF CountInv, TypeOK
    <3>3. ASSUME NEW e \in Emitters, NEW type \in Types, Emits(e, type)
          PROVE  /\ emitter' \in {0} \cup Emitters /\ seq' \in [Emitters -> Nat]
                 /\ tail' \in [Emitters -> Seq(Events)]
      <4>1. seq[e] + 1 \in Nat \ {0} /\ tail[e] \in Seq(Events)
        BY DEF TypeOK
      <4>2. [by |-> e, seq |-> seq[e] + 1, type |-> type] \in Events
        BY <4>1 DEF Events
      <4>3. Append(tail[e], [by |-> e, seq |-> seq[e] + 1, type |-> type]) \in Seq(Events)
        BY <4>1, <4>2
      <4> QED
        BY <3>3, <4>1, <4>3 DEF Emits, EmitBy, TypeOK
    <3>4. {"run.started", "progress", "step.failed", "run.completed", "run.failed"} \subseteq Types
      BY DEF Types, Terminal
    <3>5. CASE UNCHANGED emitVars
      BY <3>5 DEF emitVars, TypeOK
    <3>6. CASE seq' = seq /\ tail' = tail /\ emitter' = emitter + 1 /\ PickUp
      BY <3>1, <3>6 DEF TypeOK
    <3>7. CASE Crash /\ tail' = [e \in Emitters |-> <<>>] /\ UNCHANGED <<emitter, seq>>
      BY <3>7 DEF TypeOK
    <3>8. AnnounceCompleted \/ AnnounceFailed => at # "idle"
      BY DEF AnnounceCompleted, AnnounceFailed
    <3> QED
      BY <1>1, <3>1, <3>2, <3>3, <3>4, <3>5, <3>6, <3>7, <3>8, WorkEmits
  <2>6. /\ log' = log /\ gone' = gone /\ ttl' = ttl /\ conn' = conn /\ client' = client
        /\ drops' = drops /\ cuts' = cuts
    BY <2>1 DEF streamVars, relayVars
  <2> QED
    BY <2>2, <2>3, <2>4, <2>5, <2>6 DEF TypeOK
<1>2. ASSUME NEW e \in Emitters, Write(e) \/ WriteFails(e) PROVE TypeOK'
  <2>1. /\ UNCHANGED <<runVars, emitter, seq, gone, relayVars, faults, crashes, cuts>>
        /\ tail[e] # <<>> /\ tail' = [tail EXCEPT ![e] = Tail(tail[e])]
        /\ drops' \in {drops, drops + 1}
        /\ log' = log \/ log' = Append(log, Head(tail[e]))
    BY <1>2, WriteFrame
  <2>2. tail[e] \in Seq(Events) /\ Head(tail[e]) \in Events /\ Tail(tail[e]) \in Seq(Events)
    BY <2>1, HeadTailProperties DEF TypeOK
  <2>3. log' \in Seq(Events) /\ Len(log') >= Len(log)
    <3>1. log \in Seq(Events) /\ Len(log) \in Nat
      BY DEF TypeOK
    <3>2. /\ Append(log, Head(tail[e])) \in Seq(Events)
          /\ Len(Append(log, Head(tail[e]))) = Len(log) + 1
      BY <2>2, <3>1, AppendProperties
    <3> QED
      BY <2>1, <3>1, <3>2
  <2>4. ttl' \in BOOLEAN
    BY <1>2 DEF Write, WriteFails, TypeOK
  <2>5. tail' \in [Emitters -> Seq(Events)] /\ {drops', faults', crashes', cuts'} \subseteq Nat
    BY <1>0, <2>1, <2>2 DEF TypeOK
  <2> QED
    BY <2>1, <2>3, <2>4, <2>5, LogGrows DEF TypeOK, runVars
<1>3. CASE Relay \/ Connect \/ Cut
  <2>1. UNCHANGED <<runVars, emitVars, streamVars, drops, faults, crashes>>
    BY <1>3, RelayFrame
  <2>2. LastEventId \in 0..Len(log)
    BY DEF LastEventId, TypeOK
  <2>3. cuts' \in Nat
    <3>1. cuts' \in {cuts, cuts + 1} /\ cuts \in Nat
      BY <1>3, RelayMoves DEF Frames, TypeOK
    <3> QED
      BY <3>1
  <2>4. conn' \in [at : {"none", "live", "read", "length", "replay"},
                   status : {"RUNNING", "COMPLETED", "FAILED"}, next : 0..Len(log)]
    <3>1. conn \in [at : {"none", "live", "read", "length", "replay"},
                   status : {"RUNNING", "COMPLETED", "FAILED"}, next : 0..Len(log)]
      BY DEF TypeOK
    <3>2. NoConn \in [at : {"none", "live", "read", "length", "replay"},
                     status : {"RUNNING", "COMPLETED", "FAILED"}, next : 0..Len(log)]
      BY DEF NoConn, TypeOK
    <3>3. First - 1 >= 0 /\ First \in Nat /\ record \in {"RUNNING", "COMPLETED", "FAILED"}
      BY DEF First, TypeOK
    <3>4. ASSUME NEW m \in First - 1 .. Len(log), Frames(m)
          PROVE  conn' \in [at : {"none", "live", "read", "length", "replay"},
                            status : {"RUNNING", "COMPLETED", "FAILED"}, next : 0..Len(log)]
      <4>1. m \in 0..Len(log)
        BY <3>3
      <4> QED
        BY <3>1, <3>2, <3>4, <4>1 DEF Frames
    <3> QED
      BY <1>3, <2>2, <3>1, <3>2, <3>3, <3>4, RelayMoves DEF Leaves
  <2>5. client' \in [at : {"connecting", "open", "stopped"}, seen : Seq(1..Len(log)),
                     told : Terminal \cup {"none"}]
    <3>1. ASSUME NEW m \in First - 1 .. Len(log), Frames(m)
          PROVE  client' \in [at : {"connecting", "open", "stopped"}, seen : Seq(1..Len(log)),
                              told : Terminal \cup {"none"}]
      <4>1. PICK state \in {"connecting", "open", "stopped"} : Take(m, state)
        BY <3>1 DEF Frames
      <4>2. /\ client' = [at |-> state, seen |-> client'.seen, told |-> client'.told]
            /\ client'.seen \in Seq(1..Len(log))
            /\ \/ client'.told = client.told
               \/ \E i \in 1..Len(log) : log[i].type \in Terminal /\ client'.told = log[i].type
        BY <4>1, TakeEffect
      <4>3. client'.told \in Terminal \cup {"none"}
        BY <4>2 DEF TypeOK
      <4> QED
        BY <4>2, <4>3
    <3> QED
      BY <1>3, <3>1, RelayMoves DEF Leaves, TypeOK, Terminal
  <2> QED
    BY <2>1, <2>3, <2>4, <2>5 DEF TypeOK, runVars, emitVars, streamVars
<1>4. CASE Expire \/ UNCHANGED vars
  <2>1. /\ UNCHANGED <<runVars, emitVars, log, relayVars, boundVars>>
        /\ gone' \in {gone, Len(log)} /\ ttl' \in {ttl, FALSE}
    BY <1>4 DEF Expire, vars, streamVars
  <2>2. ttl' \in BOOLEAN
    BY <2>1, Zenon DEF TypeOK
  <2>3. gone' \in 0..Len(log)
    <3>1. gone \in 0..Len(log) /\ log \in Seq(Events)
      BY DEF TypeOK
    <3> QED
      BY <2>1, <3>1
  <2> QED
    BY <2>1, <2>2, <2>3 DEF TypeOK, runVars, emitVars, relayVars, boundVars
<1> QED
  BY <1>1, <1>2, <1>3, <1>4 DEF Next

-----------------------------------------------------------------------------
(* The cursor and what the browser saw *)

LEMMA CursorStep == TypeOK /\ CursorInv /\ [Next]_vars => CursorInv'
<1> SUFFICES ASSUME TypeOK, CursorInv, [Next]_vars PROVE CursorInv'
  OBVIOUS
<1>1. CASE UNCHANGED relayVars
  BY <1>1 DEF CursorInv, LastEventId, relayVars
<1>2. CASE Relay \/ Connect \/ Cut
  <2>0. /\ conn.at \in {"none", "live", "read", "length", "replay"}
        /\ conn = [at |-> conn.at, status |-> conn.status, next |-> conn.next]
        /\ client = [at |-> client.at, seen |-> client.seen, told |-> client.told]
        /\ LastEventId \in Nat
    BY DEF TypeOK, LastEventId
  <2>1. ASSUME NEW m \in First - 1 .. Len(log), Frames(m) PROVE CursorInv'
    <3>1. PICK state \in {"connecting", "open", "stopped"} :
            /\ Take(m, state)
            /\ \/ conn' = NoConn /\ state # "open"
               \/ /\ conn' = [conn EXCEPT !.at = IF conn.at = "live" THEN "live" ELSE "replay",
                                         !.next = m]
                  /\ state = "open" /\ First <= m
      BY <2>1 DEF Frames
    <3>2. /\ First \in 1..Len(log) + 1 /\ client'.at = state
          /\ client'.seen \in Seq(1..Len(log))
          /\ Len(client'.seen) = Len(client.seen) + (m - First + 1)
          /\ \A k \in 1..m - First + 1 : client'.seen[Len(client.seen) + k] = First + k - 1
      BY <3>1, TakeEffect
    <3>3. CASE conn' = NoConn /\ state # "open"
      BY <3>2, <3>3 DEF CursorInv, NoConn
    <3>4. CASE /\ conn' = [conn EXCEPT !.at = IF conn.at = "live" THEN "live" ELSE "replay",
                                      !.next = m]
               /\ state = "open" /\ First <= m
      <4>0. Len(client.seen) \in Nat /\ Len(log) \in Nat /\ First \in Nat /\ m \in Nat
        <5>1. Len(client.seen) \in Nat /\ Len(log) \in Nat
          BY DEF TypeOK
        <5>2. First \in Nat
          BY <3>2, <5>1
        <5> QED
          BY <3>4, <5>1, <5>2
      <4>1. m - First + 1 \in 1..m - First + 1
        BY <3>4, <4>0
      <4>2. client'.seen[Len(client.seen) + (m - First + 1)] = First + (m - First + 1) - 1
        BY <3>2, <4>1
      <4>3. client'.seen[Len(client'.seen)] = m
        BY <3>2, <4>0, <4>2
      <4>5. client'.seen # <<>>
        BY <3>2, <3>4, <4>0, EmptySeq
      <4>4. conn'.at \in {"live", "replay"} /\ conn'.next = m
        BY <2>0, <3>4
      <4> QED
        BY <3>2, <3>4, <4>3, <4>4, <4>5 DEF CursorInv, LastEventId
    <3> QED
      BY <3>1, <3>3, <3>4
  <2>2. CASE /\ client.at = "connecting" /\ client' = [client EXCEPT !.at = "open"]
             /\ conn' = [at |-> IF record = "RUNNING" THEN "live" ELSE "read",
                         status |-> record, next |-> LastEventId]
    BY <2>0, <2>2 DEF CursorInv, LastEventId
  <2>3. CASE conn.at = "read" /\ conn' = [conn EXCEPT !.at = "length"] /\ client' = client
    BY <2>0, <2>3 DEF CursorInv, LastEventId
  <2>4. ASSUME NEW state \in {"connecting", "stopped"}, NEW told, Leaves(state, told)
        PROVE  CursorInv'
    BY <2>0, <2>4 DEF CursorInv, Leaves, NoConn
  <2> QED
    BY <1>2, <2>1, <2>2, <2>3, <2>4, RelayMoves
<1>3. ASSUME NEW e \in Emitters, Write(e) \/ WriteFails(e) PROVE UNCHANGED relayVars
  BY <1>3, WriteFrame
<1> QED
  BY <1>1, <1>2, <1>3, WorkFrame, ExpireFrame DEF Next, vars

LEMMA GapStep == TypeOK /\ CursorInv /\ NoGapNoRepeat /\ [Next]_vars => NoGapNoRepeat'
<1> SUFFICES ASSUME TypeOK, CursorInv, NoGapNoRepeat, [Next]_vars PROVE NoGapNoRepeat'
  OBVIOUS
<1>0. /\ log \in Seq(Events) /\ Len(log) \in Nat /\ gone \in 0..Len(log)
      /\ client.seen \in Seq(1..Len(log)) /\ Len(client.seen) \in Nat
      /\ \A k \in 1..Len(client.seen) : client.seen[k] \in Nat
  <2>1. log \in Seq(Events) /\ gone \in 0..Len(log) /\ client.seen \in Seq(1..Len(log))
    BY DEF TypeOK
  <2>2. Len(log) \in Nat /\ Len(client.seen) \in Nat
    BY <2>1
  <2>3. \A k \in 1..Len(client.seen) : client.seen[k] \in 1..Len(log)
    BY <2>1
  <2> QED
    BY <2>1, <2>2, <2>3
<1>1. CASE client'.seen = client.seen /\ gone' \in Nat /\ gone <= gone'
  <2> SUFFICES ASSUME NEW k \in 1..Len(client.seen)
               PROVE  LET before == IF k = 1 THEN 0 ELSE client.seen[k - 1] IN
                      /\ before < client.seen[k]
                      /\ \A id \in before + 1 .. client.seen[k] - 1 : id <= gone'
    BY <1>1 DEF NoGapNoRepeat
  <2> DEFINE before == IF k = 1 THEN 0 ELSE client.seen[k - 1]
  <2>1. before < client.seen[k] /\ \A id \in before + 1 .. client.seen[k] - 1 : id <= gone
    BY DEF NoGapNoRepeat
  <2>2. before \in Nat /\ client.seen[k] \in Nat
    BY <1>0
  <2> HIDE DEF before
  <2>3. \A id \in before + 1 .. client.seen[k] - 1 : id <= gone'
    BY <1>0, <1>1, <2>1, <2>2
  <2> QED
    BY <2>1, <2>3 DEF before
<1>2. ASSUME NEW m \in First - 1 .. Len(log), Frames(m), UNCHANGED gone PROVE NoGapNoRepeat'
  <2>1. PICK state \in {"connecting", "open", "stopped"} : Take(m, state)
    BY <1>2 DEF Frames
  <2>2. /\ First \in 1..Len(log) + 1
        /\ client'.seen \in Seq(1..Len(log))
        /\ Len(client'.seen) = Len(client.seen) + (m - First + 1)
        /\ \A k \in 1..Len(client.seen) : client'.seen[k] = client.seen[k]
        /\ \A k \in 1..m - First + 1 : client'.seen[Len(client.seen) + k] = First + k - 1
    BY <2>1, TakeEffect
  <2>3. conn.next = LastEventId /\ First = (IF conn.next < gone THEN gone + 1 ELSE conn.next + 1)
    BY <1>2 DEF Frames, CursorInv, First
  <2> SUFFICES ASSUME NEW k \in 1..Len(client'.seen)
               PROVE  LET before == IF k = 1 THEN 0 ELSE client'.seen[k - 1] IN
                      /\ before < client'.seen[k]
                      /\ \A id \in before + 1 .. client'.seen[k] - 1 : id <= gone
    BY <1>2 DEF NoGapNoRepeat
  <2>4. CASE k <= Len(client.seen)
    <3>1. k \in 1..Len(client.seen) /\ (k # 1 => k - 1 \in 1..Len(client.seen))
      BY <1>0, <2>4
    <3>2. client'.seen[k] = client.seen[k] /\ (k # 1 => client'.seen[k - 1] = client.seen[k - 1])
      BY <2>2, <3>1
    <3> QED
      BY <3>1, <3>2 DEF NoGapNoRepeat
  <2>5. CASE k = Len(client.seen) + 1
    <3>1. 1 \in 1..m - First + 1
      BY <1>0, <2>2, <2>5
    <3>2. client'.seen[k] = First
      BY <1>0, <2>2, <2>5, <3>1
    <3>3. (IF k = 1 THEN 0 ELSE client'.seen[k - 1]) = conn.next
      <4>1. CASE client.seen = <<>>
        BY <2>3, <2>5, <4>1 DEF LastEventId
      <4>2. CASE client.seen # <<>>
        <5>1. Len(client.seen) # 0
          BY <1>0, <4>2, EmptySeq
        <5>2. k # 1 /\ k - 1 = Len(client.seen) /\ k - 1 \in 1..Len(client.seen)
          BY <1>0, <2>5, <5>1
        <5> QED
          BY <2>2, <2>3, <4>2, <5>2 DEF LastEventId
      <4> QED
        BY <4>1, <4>2
    <3>4. conn.next \in Nat
      BY DEF TypeOK
    <3> QED
      BY <1>0, <2>3, <3>2, <3>3, <3>4
  <2>6. CASE k > Len(client.seen) + 1
    <3> DEFINE L == Len(client.seen)
               j == k - L
    <3>0. L \in Nat /\ k \in 1..L + (m - First + 1) /\ First \in Nat /\ m \in Int
      <4>1. First \in Nat
        BY <1>0, <2>2
      <4>2. m \in Int
        BY <1>0, <4>1
      <4>3. L \in Nat
        BY <1>0
      <4>4. k \in 1..L + (m - First + 1)
        BY <2>2
      <4> QED
        BY <4>1, <4>2, <4>3, <4>4
    <3>1. /\ j \in 1..m - First + 1 /\ j - 1 \in 1..m - First + 1 /\ k # 1
          /\ L + j = k /\ L + (j - 1) = k - 1 /\ First + j - 1 = (First + (j - 1) - 1) + 1
          /\ First + (j - 1) - 1 \in Nat
      <4>1. k > L + 1
        BY <2>6
      <4> HIDE DEF L
      <4> QED
        BY ONLY <3>0, <4>1 DEF j
    <3>2. client'.seen[L + j] = First + j - 1
      BY <2>2, <3>1
    <3>3. client'.seen[L + (j - 1)] = First + (j - 1) - 1
      BY <2>2, <3>1
    <3>4. client'.seen[k] = client'.seen[k - 1] + 1 /\ client'.seen[k - 1] \in Nat
      <4> HIDE DEF j, L
      <4> QED
        BY ONLY <3>1, <3>2, <3>3
    <3>5. /\ client'.seen[k - 1] < client'.seen[k]
          /\ client'.seen[k - 1] + 1 .. client'.seen[k] - 1 = {}
      BY ONLY <3>4
    <3> QED
      BY <3>1, <3>5
  <2>7. k \in Nat
    BY <1>0, <2>2
  <2> QED
    BY <1>0, <2>4, <2>5, <2>6, <2>7
<1>3. CASE Relay \/ Connect \/ Cut
  <2>1. gone' = gone
    BY <1>3, RelayFrame DEF streamVars
  <2>2. client'.seen = client.seen \/ \E m \in First - 1 .. Len(log) : Frames(m)
    <3>1. client = [at |-> client.at, seen |-> client.seen, told |-> client.told]
      BY DEF TypeOK
    <3> QED
      BY <1>3, <3>1, RelayMoves DEF Leaves
  <2> QED
    BY <1>0, <1>1, <1>2, <2>1, <2>2
<1>4. CASE Work \/ Crash \/ Stalled \/ Expire \/ UNCHANGED vars
  <2>1. client' = client /\ gone' \in {gone, Len(log)}
    BY <1>4, WorkFrame, ExpireFrame DEF streamVars, relayVars, vars
  <2> QED
    BY <1>0, <1>1, <2>1
<1>5. ASSUME NEW e \in Emitters, Write(e) \/ WriteFails(e) PROVE NoGapNoRepeat'
  <2>1. client' = client /\ gone' = gone
    BY <1>5, WriteFrame DEF relayVars
  <2> QED
    BY <1>0, <1>1, <2>1
<1> QED
  BY <1>3, <1>4, <1>5 DEF Next

-----------------------------------------------------------------------------
(* Chains and stream *)

\* What a step does to an emitter's chain and to the count of its settled events:
\* nothing; one event at the end of the chain; the first one gone; or all.
ChainMoves(d) ==
  \/ seq'[d] = seq[d] /\ tail'[d] = tail[d]
  \/ /\ seq'[d] = seq[d] + 1
     /\ \E type \in Types :
          tail'[d] = Append(tail[d], [by |-> d, seq |-> seq[d] + 1, type |-> type])
  \/ seq'[d] = seq[d] /\ tail[d] # <<>> /\ tail'[d] = Tail(tail[d])
  \/ seq'[d] = seq[d] /\ tail'[d] = <<>>

LEMMA EmitMoves ==
  ASSUME TypeOK, NEW e, NEW type \in Types, Emits(e, type), NEW d \in Emitters
  PROVE  \/ seq'[d] = seq[d] /\ tail'[d] = tail[d]
         \/ /\ d = e /\ seq'[d] = seq[d] + 1
            /\ tail'[d] = Append(tail[d], [by |-> d, seq |-> seq[d] + 1, type |-> type])
BY DEF TypeOK, Emits, EmitBy

LEMMA ChainMovesStep ==
  ASSUME TypeOK, [Next]_vars, NEW d \in Emitters
  PROVE  ChainMoves(d)
<1>1. CASE Work \/ Crash \/ Stalled
  <2>1. {"run.started", "progress", "step.failed", "run.completed", "run.failed"} \subseteq Types
    BY DEF Types, Terminal
  <2>2. ASSUME NEW e, NEW type \in Types, Emits(e, type) PROVE ChainMoves(d)
    BY <2>2, EmitMoves DEF ChainMoves
  <2> QED
    BY <1>1, <2>1, <2>2, WorkEmits DEF ChainMoves, emitVars
<1>2. ASSUME NEW e \in Emitters, Write(e) \/ WriteFails(e) PROVE ChainMoves(d)
  <2>1. seq' = seq /\ tail[e] # <<>> /\ tail' = [tail EXCEPT ![e] = Tail(@)]
    BY <1>2, WriteFrame
  <2>2. tail'[d] = (IF d = e THEN Tail(tail[d]) ELSE tail[d])
    BY <2>1 DEF TypeOK
  <2> QED
    BY <2>1, <2>2 DEF ChainMoves
<1>3. CASE Expire \/ Relay \/ Connect \/ Cut \/ UNCHANGED vars
  BY <1>3, ExpireFrame, RelayFrame DEF ChainMoves, emitVars, vars
<1> QED
  BY <1>1, <1>2, <1>3 DEF Next

LEMMA ChainStep == TypeOK /\ ChainInv /\ [Next]_vars => ChainInv'
<1> SUFFICES ASSUME TypeOK, ChainInv, [Next]_vars, NEW d \in Emitters
             PROVE  /\ Len(tail'[d]) <= seq'[d]
                    /\ \A i \in 1..Len(tail'[d]) :
                         tail'[d][i].by = d /\ tail'[d][i].seq = seq'[d] - Len(tail'[d]) + i
  BY DEF ChainInv, Settled
<1> DEFINE t == tail[d]
           n == seq[d]
<1>1. t \in Seq(Events) /\ Len(t) \in Nat /\ n \in Nat
  BY DEF TypeOK
<1>2. Len(t) <= n /\ \A i \in 1..Len(t) : t[i].by = d /\ t[i].seq = n - Len(t) + i
  BY DEF ChainInv, Settled
<1>3. ChainMoves(d)
  BY ChainMovesStep
<1>4. CASE seq'[d] = n /\ tail'[d] = t
  BY <1>2, <1>4
<1>5. ASSUME NEW type \in Types, seq'[d] = n + 1,
             tail'[d] = Append(t, [by |-> d, seq |-> n + 1, type |-> type])
      PROVE  /\ Len(tail'[d]) <= seq'[d]
             /\ \A i \in 1..Len(tail'[d]) :
                  tail'[d][i].by = d /\ tail'[d][i].seq = seq'[d] - Len(tail'[d]) + i
  <2> DEFINE new == [by |-> d, seq |-> n + 1, type |-> type]
  <2>1. new \in Events /\ new.by = d /\ new.seq = n + 1
    BY <1>1 DEF Events
  <2> HIDE DEF new, t, n
  <2>2. /\ Len(tail'[d]) = Len(t) + 1 /\ tail'[d][Len(t) + 1] = new
        /\ \A i \in 1..Len(t) : tail'[d][i] = t[i]
    BY <1>1, <1>5, <2>1, AppendProperties DEF new
  <2>3. seq'[d] - Len(tail'[d]) = n - Len(t) /\ Len(tail'[d]) <= seq'[d]
    BY <1>1, <1>2, <1>5, <2>2
  <2>4. ASSUME NEW i \in 1..Len(tail'[d])
        PROVE  tail'[d][i].by = d /\ tail'[d][i].seq = n - Len(t) + i
    <3>1. CASE i = Len(t) + 1
      BY <1>1, <2>1, <2>2, <3>1
    <3>2. CASE i # Len(t) + 1
      <4>1. i \in 1..Len(t)
        BY <1>1, <2>2, <3>2
      <4> QED
        BY <1>2, <2>2, <4>1
    <3> QED
      BY <3>1, <3>2
  <2> QED
    BY <2>3, <2>4
<1>6. CASE seq'[d] = n /\ t # <<>> /\ tail'[d] = Tail(t)
  <2> HIDE DEF t, n
  <2>1. /\ Len(Tail(t)) = Len(t) - 1 /\ Len(t) > 0
        /\ \A i \in 1..Len(t) - 1 : Tail(t)[i] = t[i + 1]
    BY <1>1, <1>6, HeadTailProperties, EmptySeq
  <2> QED
    BY <1>1, <1>2, <1>6, <2>1
<1>7. CASE seq'[d] = n /\ tail'[d] = <<>>
  BY <1>1, <1>7
<1> QED
  BY <1>3, <1>4, <1>5, <1>6, <1>7 DEF ChainMoves

LEMMA StreamStep == TypeOK /\ ChainInv /\ StreamInv /\ [Next]_vars => StreamInv'
<1> SUFFICES ASSUME TypeOK, ChainInv, StreamInv, [Next]_vars PROVE StreamInv'
  OBVIOUS
<1> DEFINE settled(d) == seq'[d] - Len(tail'[d])
<1>0. /\ log \in Seq(Events) /\ Len(log) \in Nat /\ {drops, crashes} \subseteq Nat
      /\ \A i \in 1..Len(log) : log[i].by \in Emitters /\ log[i].seq \in Nat
      /\ \A d \in Emitters : Settled(d) \in Nat
  <2>1. \A e \in Events : e.by \in Emitters /\ e.seq \in Nat
    BY DEF Events
  <2>2. \A d \in Emitters : seq[d] \in Nat /\ Len(tail[d]) \in Nat /\ Len(tail[d]) <= seq[d]
    BY DEF TypeOK, ChainInv
  <2> QED
    BY <2>1, <2>2 DEF TypeOK, Settled
<1>1. ASSUME NEW d \in Emitters
      PROVE  settled(d) \in Nat /\ Settled(d) <= settled(d)
  <2> DEFINE t == tail[d]
             n == seq[d]
  <2>1. t \in Seq(Events) /\ Len(t) \in Nat /\ n \in Nat /\ Len(t) <= n
    BY DEF TypeOK, ChainInv
  <2>2. \A type \in Types : [by |-> d, seq |-> n + 1, type |-> type] \in Events
    BY <2>1 DEF Events
  <2>3. /\ \A e \in Events : Len(Append(t, e)) = Len(t) + 1
        /\ t # <<>> => Len(Tail(t)) = Len(t) - 1 /\ Len(t) > 0
    <3> HIDE DEF t
    <3> QED
      BY <2>1, AppendProperties, HeadTailProperties, EmptySeq
  <2>4. ChainMoves(d)
    BY ChainMovesStep
  <2>5. \/ seq'[d] = n /\ Len(tail'[d]) = Len(t)
        \/ seq'[d] = n + 1 /\ Len(tail'[d]) = Len(t) + 1
        \/ seq'[d] = n /\ Len(tail'[d]) = Len(t) - 1 /\ Len(t) > 0
        \/ seq'[d] = n /\ Len(tail'[d]) = 0
    <3>1. CASE seq'[d] = n /\ tail'[d] = t
      BY <3>1
    <3>2. ASSUME NEW type \in Types, seq'[d] = n + 1,
                 tail'[d] = Append(t, [by |-> d, seq |-> n + 1, type |-> type])
          PROVE  seq'[d] = n + 1 /\ Len(tail'[d]) = Len(t) + 1
      <4> DEFINE new == [by |-> d, seq |-> n + 1, type |-> type]
      <4>1. new \in Events
        BY <2>2
      <4> HIDE DEF new, t, n
      <4> QED
        BY <2>3, <3>2, <4>1 DEF new
    <3>3. CASE seq'[d] = n /\ t # <<>> /\ tail'[d] = Tail(t)
      <4> HIDE DEF t, n
      <4> QED
        BY <2>3, <3>3
    <3>4. CASE seq'[d] = n /\ tail'[d] = <<>>
      BY <3>4
    <3> QED
      BY <2>4, <3>1, <3>2, <3>3, <3>4 DEF ChainMoves
  <2> HIDE DEF t, n
  <2>6. settled(d) \in Nat /\ n - Len(t) <= settled(d)
    BY <2>1, <2>5
  <2> QED
    BY <2>6 DEF Settled, t, n
<1>2. CASE log' = log /\ (drops' + crashes' = 0 => drops + crashes = 0
                                                   /\ \A d \in Emitters : settled(d) = Settled(d))
  <2>1. \A i \in 1..Len(log') : log'[i].seq <= settled(log'[i].by)
    <3> HIDE DEF settled
    <3> SUFFICES ASSUME NEW i \in 1..Len(log) PROVE log[i].seq <= settled(log[i].by)
      BY <1>2
    <3>1. log[i].seq <= Settled(log[i].by)
      BY DEF StreamInv
    <3>2. Settled(log[i].by) <= settled(log[i].by) /\ settled(log[i].by) \in Nat
      BY <1>0, <1>1
    <3> QED
      BY <1>0, <3>1, <3>2
  <2>2. drops' + crashes' = 0 =>
          \A e \in Emitters : \A s \in 1..settled(e) :
            \E i \in 1..Len(log) : log[i].by = e /\ log[i].seq = s
    <3> HIDE DEF settled
    <3> QED
      BY <1>2 DEF StreamInv
  <2> QED
    BY <1>2, <2>1, <2>2 DEF StreamInv, Settled
<1>3. ASSUME NEW e \in Emitters, Write(e) \/ WriteFails(e) PROVE StreamInv'
  <2>1. /\ seq' = seq /\ tail[e] # <<>> /\ tail' = [tail EXCEPT ![e] = Tail(@)] /\ crashes' = crashes
        /\ \/ drops' = drops /\ log' = Append(log, Head(tail[e]))
           \/ drops' = drops + 1 /\ (log' = log \/ log' = Append(log, Head(tail[e])))
    BY <1>3, WriteFrame
  <2> DEFINE new == Head(tail[e])
  <2>2. /\ tail[e] \in Seq(Events) /\ Len(tail[e]) \in Nat \ {0} /\ new = tail[e][1]
        /\ new \in Events /\ Len(Tail(tail[e])) = Len(tail[e]) - 1
    <3>1. tail[e] \in Seq(Events)
      BY DEF TypeOK
    <3> QED
      BY <2>1, <3>1, HeadTailProperties, EmptySeq
  <2>3. new.by = e /\ new.seq = Settled(e) + 1
    BY <2>2 DEF ChainInv
  <2>4. settled(e) = Settled(e) + 1 /\ \A d \in Emitters \ {e} : settled(d) = Settled(d)
    <3>1. tail'[e] = Tail(tail[e]) /\ \A d \in Emitters \ {e} : tail'[d] = tail[d]
      BY <2>1 DEF TypeOK
    <3>2. seq[e] \in Nat
      BY DEF TypeOK
    <3>3. settled(e) = Settled(e) + 1
      <4>1. seq'[e] = seq[e] /\ Len(tail'[e]) = Len(tail[e]) - 1
        BY <2>1, <2>2, <3>1
      <4> QED
        BY <2>2, <3>2, <4>1 DEF Settled
    <3> QED
      BY <2>1, <3>1, <3>3 DEF Settled
  <2> HIDE DEF settled, new
  <2>5. CASE log' = log
    <3>1. drops' + crashes' # 0
      <4>1. log' # Append(log, new)
        <5>1. Len(Append(log, new)) = Len(log) + 1
          BY <1>0, <2>2, AppendProperties
        <5> QED
          BY <1>0, <2>5, <5>1
      <4>2. drops' = drops + 1
        BY <2>1, <4>1 DEF new
      <4> QED
        BY <1>0, <2>1, <4>2
    <3> QED
      BY <1>2, <2>5, <3>1
  <2>6. CASE log' = Append(log, new)
    <3>1. /\ Len(log') = Len(log) + 1 /\ log'[Len(log) + 1] = new
          /\ \A i \in 1..Len(log) : log'[i] = log[i]
      BY <1>0, <2>2, <2>6, AppendProperties
    <3>2. \A i \in 1..Len(log') : log'[i].seq <= settled(log'[i].by)
      <4> SUFFICES ASSUME NEW i \in 1..Len(log') PROVE log'[i].seq <= settled(log'[i].by)
        OBVIOUS
      <4>1. CASE i = Len(log) + 1
        <5>1. log'[i].seq = settled(log'[i].by) /\ settled(e) \in Nat
          BY <1>1, <2>3, <2>4, <3>1, <4>1
        <5> QED
          BY <2>3, <3>1, <4>1, <5>1
      <4>2. CASE i # Len(log) + 1
        <5>1. i \in 1..Len(log) /\ log'[i] = log[i]
          BY <1>0, <3>1, <4>2
        <5>2. log[i].seq <= Settled(log[i].by)
          BY <5>1 DEF StreamInv
        <5>3. Settled(log[i].by) <= settled(log[i].by) /\ settled(log[i].by) \in Nat
          BY <1>0, <1>1, <5>1
        <5> QED
          BY <1>0, <5>1, <5>2, <5>3
      <4> QED
        BY <4>1, <4>2
    <3>3. \A i, j \in 1..Len(log') : i < j /\ log'[i].by = log'[j].by => log'[i].seq < log'[j].seq
      <4> SUFFICES ASSUME NEW i \in 1..Len(log'), NEW j \in 1..Len(log'), i < j,
                          log'[i].by = log'[j].by
                   PROVE  log'[i].seq < log'[j].seq
        OBVIOUS
      <4>1. i \in 1..Len(log) /\ log'[i] = log[i]
        BY <1>0, <3>1
      <4>2. CASE j = Len(log) + 1
        <5>1. log[i].by = e /\ log'[j].seq = Settled(e) + 1
          BY <2>3, <3>1, <4>1, <4>2
        <5>2. log[i].seq <= Settled(e)
          BY <4>1, <5>1 DEF StreamInv
        <5> QED
          BY <1>0, <4>1, <5>1, <5>2
      <4>3. CASE j # Len(log) + 1
        <5>1. j \in 1..Len(log) /\ log'[j] = log[j]
          BY <1>0, <3>1, <4>3
        <5> QED
          BY <4>1, <5>1 DEF StreamInv
      <4> QED
        BY <4>2, <4>3
    <3>4. ASSUME drops' + crashes' = 0, NEW d \in Emitters, NEW s \in 1..settled(d)
          PROVE  \E i \in 1..Len(log') : log'[i].by = d /\ log'[i].seq = s
      <4>1. drops + crashes = 0
        BY <1>0, <2>1, <3>4
      <4>2. CASE s \in 1..Settled(d)
        <5>1. PICK i \in 1..Len(log) : log[i].by = d /\ log[i].seq = s
          BY <4>1, <4>2 DEF StreamInv
        <5>2. i \in 1..Len(log') /\ log'[i] = log[i]
          BY <1>0, <3>1
        <5> QED
          BY <5>1, <5>2
      <4>3. CASE s \notin 1..Settled(d)
        <5>1. d = e /\ s = Settled(e) + 1
          BY <1>0, <2>4, <4>3
        <5>2. Len(log) + 1 \in 1..Len(log')
          BY <1>0, <3>1
        <5> QED
          BY <2>3, <3>1, <5>1, <5>2
      <4> QED
        BY <4>2, <4>3
    <3> QED
      BY <3>2, <3>3, <3>4 DEF StreamInv, Settled, settled
  <2> QED
    BY <2>1, <2>5, <2>6 DEF new
<1>4. CASE Crash
  <2>1. log' = log /\ drops' = drops /\ crashes' = crashes + 1
    BY <1>4 DEF Crash, streamVars
  <2> QED
    BY <1>0, <1>2, <2>1
<1>5. CASE Work \/ Stalled
  <2>1. log' = log /\ drops' = drops /\ crashes' = crashes
    <3>1. crashes' = crashes
      BY <1>5 DEF Work, PickUp, Progress, StepFails, RefuseAttempt, Complete, RecordWriteFails,
         AnnounceCompleted, JobCompleted, FailAttempt, FailRun, AnnounceFailed, Stalled, boundVars
    <3> QED
      BY <1>5, <3>1, WorkFrame DEF streamVars
  <2>2. ASSUME NEW d \in Emitters PROVE settled(d) = Settled(d)
    <3>1. tail[d] \in Seq(Events) /\ Len(tail[d]) \in Nat /\ seq[d] \in Nat
      BY DEF TypeOK
    <3>2. ASSUME NEW e, NEW type \in Types, Emits(e, type) PROVE settled(d) = Settled(d)
      <4>1. CASE seq'[d] = seq[d] /\ tail'[d] = tail[d]
        BY <4>1 DEF Settled
      <4>2. CASE /\ d = e /\ seq'[d] = seq[d] + 1
                 /\ tail'[d] = Append(tail[d], [by |-> d, seq |-> seq[d] + 1, type |-> type])
        <5>1. [by |-> d, seq |-> seq[d] + 1, type |-> type] \in Events
          BY <3>1 DEF Events
        <5>2. Len(tail'[d]) = Len(tail[d]) + 1
          BY <3>1, <4>2, <5>1, AppendProperties
        <5> QED
          BY <3>1, <4>2, <5>2 DEF Settled
      <4> QED
        BY <3>2, <4>1, <4>2, EmitMoves
    <3>3. {"run.started", "progress", "step.failed", "run.completed", "run.failed"} \subseteq Types
      BY DEF Types, Terminal
    <3>5. CASE seq' = seq /\ tail' = tail
      BY <3>5 DEF Settled
    <3>6. CASE Crash
      <4>1. crashes' = crashes + 1 /\ crashes \in Nat
        BY <1>0, <3>6 DEF Crash
      <4> QED
        BY <2>1, <4>1
    <3> QED
      BY <1>5, <3>2, <3>3, <3>5, <3>6, WorkEmits DEF emitVars
  <2> HIDE DEF settled
  <2> QED
    BY <1>2, <2>1, <2>2
<1>6. CASE Expire \/ Relay \/ Connect \/ Cut \/ UNCHANGED vars
  <2>1. /\ log' = log /\ drops' = drops /\ crashes' = crashes /\ seq' = seq /\ tail' = tail
    BY <1>6, ExpireFrame, RelayFrame DEF streamVars, emitVars, boundVars, vars
  <2> QED
    BY <1>2, <2>1 DEF Settled
<1> QED
  BY <1>3, <1>4, <1>5, <1>6 DEF Next

-----------------------------------------------------------------------------
(* The two ends of a run *)

\* Without a failed write or a lost worker the record is written once, before
\* anything says so.
LEMMA RecordStep ==
  ASSUME TypeOK, CountInv, EndInv, [Next]_vars, faults' + crashes' = 0
  PROVE  /\ faults + crashes = 0
         /\ record' = record \/ record = "RUNNING"
         /\ record' # record => \/ Complete /\ at' = "completed" /\ record' = "COMPLETED"
                                \/ FailRun /\ at' = "failed" /\ record' = "FAILED"
<1>0. {faults, crashes} \subseteq Nat /\ record \in {"RUNNING", "COMPLETED", "FAILED"}
  BY DEF TypeOK
<1>1. CASE Work \/ Crash \/ Stalled
  <2>1. faults + crashes = 0
    BY <1>0, <1>1 DEF Work, PickUp, Progress, StepFails, RefuseAttempt, Complete, RecordWriteFails,
       AnnounceCompleted, JobCompleted, FailAttempt, FailRun, AnnounceFailed, Crash, Stalled,
       boundVars
  <2>2. record' = record \/ Complete \/ FailRun
    BY <1>0, <1>1, <2>1 DEF Work, PickUp, Progress, StepFails, RefuseAttempt, RecordWriteFails,
       AnnounceCompleted, JobCompleted, FailAttempt, AnnounceFailed, Crash, Stalled, runVars
  <2>3. Complete => record' = "COMPLETED" /\ at' = "completed" /\ record = "RUNNING"
    BY <1>0, <2>1 DEF Complete, EndInv, CountInv
  <2>4. FailRun /\ record' # record => /\ record' = "FAILED" /\ at' = "failed"
                                       /\ record = "RUNNING"
    BY <1>0, <2>1 DEF FailRun, EndInv, CountInv
  <2> QED
    BY <2>1, <2>2, <2>3, <2>4
<1>2. ASSUME NEW e \in Emitters, Write(e) \/ WriteFails(e)
      PROVE  record' = record /\ faults' = faults /\ crashes' = crashes
  BY <1>2, WriteFrame DEF runVars
<1>3. CASE Expire \/ Relay \/ Connect \/ Cut \/ UNCHANGED vars
  BY <1>3, ExpireFrame, RelayFrame DEF runVars, boundVars, vars
<1> QED
  BY <1>1, <1>2, <1>3 DEF Next

LEMMA AgreesStays ==
  ASSUME TypeOK, CountInv, EndInv, [Next]_vars, faults' + crashes' = 0,
         NEW type, Agrees(type, record)
  PROVE  Agrees(type, record')
BY RecordStep DEF Agrees

\* What is emitted without such trouble is true of the record.
LEMMA EmittedAgrees ==
  ASSUME TypeOK, CountInv, EndInv, [Next]_vars, faults' + crashes' = 0,
         NEW e, NEW type, Emits(e, type),
         \/ type \in {"run.started", "progress", "step.failed"}
         \/ AnnounceCompleted /\ type = "run.completed"
         \/ AnnounceFailed /\ type = "run.failed"
  PROVE  Agrees(type, record')
<1>1. faults + crashes = 0
  BY RecordStep
<1>2. AnnounceCompleted => record = "COMPLETED" /\ record' = record
  BY <1>1 DEF AnnounceCompleted, EndInv
<1>3. AnnounceFailed => record = "FAILED" /\ record' = record
  BY <1>1 DEF AnnounceFailed, EndInv, CountInv, TypeOK
<1> QED
  BY <1>2, <1>3 DEF Agrees

\* Every event of a chain or of the stream was there, or was just emitted, or
\* has just moved from a chain to the stream.
LEMMA EventsAgree ==
  ASSUME TypeOK, CountInv, EndInv, [Next]_vars, faults' + crashes' = 0
  PROVE  /\ \A e \in Emitters : \A i \in 1..Len(tail'[e]) : Agrees(tail'[e][i].type, record')
         /\ \A i \in 1..Len(log') : Agrees(log'[i].type, record')
<1>0. /\ log \in Seq(Events) /\ Len(log) \in Nat
      /\ \A e \in Emitters : tail[e] \in Seq(Events) /\ Len(tail[e]) \in Nat
  BY DEF TypeOK
<1>1. /\ \A e \in Emitters : \A i \in 1..Len(tail[e]) : Agrees(tail[e][i].type, record)
      /\ \A i \in 1..Len(log) : Agrees(log[i].type, record)
  BY RecordStep DEF EndInv
<1>2. /\ \A e \in Emitters : \A i \in 1..Len(tail[e]) : Agrees(tail[e][i].type, record')
      /\ \A i \in 1..Len(log) : Agrees(log[i].type, record')
  BY <1>1, AgreesStays
<1>3. CASE log' = log /\ tail' = tail
  BY <1>2, <1>3
<1>4. ASSUME NEW e, NEW type \in Types, Emits(e, type), Agrees(type, record'), log' = log
      PROVE  /\ \A d \in Emitters : \A i \in 1..Len(tail'[d]) : Agrees(tail'[d][i].type, record')
             /\ \A i \in 1..Len(log') : Agrees(log'[i].type, record')
  <2> SUFFICES ASSUME NEW d \in Emitters, NEW i \in 1..Len(tail'[d])
               PROVE  Agrees(tail'[d][i].type, record')
    BY <1>2, <1>4
  <2>1. CASE tail'[d] = tail[d]
    BY <1>2, <2>1
  <2>2. CASE tail'[d] = Append(tail[d], [by |-> d, seq |-> seq[d] + 1, type |-> type])
    <3> DEFINE new == [by |-> d, seq |-> seq[d] + 1, type |-> type]
    <3>1. new \in Events /\ new.type = type
      <4>1. seq[d] \in Nat
        BY DEF TypeOK
      <4> QED
        BY <4>1 DEF Events
    <3> HIDE DEF new
    <3>2. /\ Len(tail'[d]) = Len(tail[d]) + 1 /\ tail'[d][Len(tail[d]) + 1] = new
          /\ \A j \in 1..Len(tail[d]) : tail'[d][j] = tail[d][j]
      BY <1>0, <2>2, <3>1, AppendProperties DEF new
    <3>3. CASE i = Len(tail[d]) + 1
      BY <1>4, <3>1, <3>2, <3>3
    <3>4. CASE i # Len(tail[d]) + 1
      <4>1. i \in 1..Len(tail[d]) /\ tail'[d][i] = tail[d][i]
        BY <1>0, <3>2, <3>4
      <4> QED
        BY <1>2, <4>1
    <3> QED
      BY <3>3, <3>4
  <2> QED
    BY <1>4, <2>1, <2>2, EmitMoves
<1>5. CASE Work \/ Stalled \/ Crash
  <2>1. log' = log
    BY <1>5, WorkFrame DEF streamVars
  <2>2. {"run.started", "progress", "step.failed", "run.completed", "run.failed"} \subseteq Types
    BY DEF Types, Terminal
  <2>3. CASE Crash
    <3>1. tail' = [e \in Emitters |-> <<>>]
      BY <2>3 DEF Crash
    <3> QED
      BY <1>2, <2>1, <3>1
  <2>4. CASE \/ seq' = seq /\ tail' = tail /\ emitter' = emitter + 1 /\ PickUp
             \/ UNCHANGED emitVars
    BY <1>3, <2>1, <2>4 DEF emitVars
  <2>5. ASSUME NEW e, NEW type \in Types, Emits(e, type),
               \/ type \in {"run.started", "progress", "step.failed"}
               \/ AnnounceCompleted /\ type = "run.completed"
               \/ AnnounceFailed /\ type = "run.failed"
        PROVE  /\ \A d \in Emitters : \A i \in 1..Len(tail'[d]) : Agrees(tail'[d][i].type, record')
               /\ \A i \in 1..Len(log') : Agrees(log'[i].type, record')
    <3>1. Agrees(type, record')
      BY <2>5, EmittedAgrees
    <3> QED
      BY <1>4, <2>1, <2>5, <3>1
  <2> QED
    BY <1>5, <2>2, <2>3, <2>4, <2>5, WorkEmits
<1>6. ASSUME NEW e \in Emitters, Write(e) \/ WriteFails(e)
      PROVE  /\ \A d \in Emitters : \A i \in 1..Len(tail'[d]) : Agrees(tail'[d][i].type, record')
             /\ \A i \in 1..Len(log') : Agrees(log'[i].type, record')
  <2> DEFINE t == tail[e]
  <2>1. /\ t # <<>> /\ tail' = [tail EXCEPT ![e] = Tail(t)]
        /\ log' = log \/ log' = Append(log, Head(t))
    BY <1>6, WriteFrame
  <2>2. /\ t \in Seq(Events) /\ Len(t) \in Nat \ {0} /\ Head(t) = t[1] /\ Head(t) \in Events
        /\ Len(Tail(t)) = Len(t) - 1 /\ \A i \in 1..Len(t) - 1 : Tail(t)[i] = t[i + 1]
    <3>1. t \in Seq(Events)
      BY <1>0
    <3> HIDE DEF t
    <3> QED
      BY <2>1, <3>1, HeadTailProperties, EmptySeq
  <2>3. ASSUME NEW d \in Emitters, NEW i \in 1..Len(tail'[d])
        PROVE  Agrees(tail'[d][i].type, record')
    <3>1. CASE d = e
      <4>1. tail'[d] = Tail(t)
        BY <2>1, <3>1 DEF TypeOK
      <4>2. i \in 1..Len(t) - 1 /\ tail'[d][i] = t[i + 1] /\ i + 1 \in 1..Len(t)
        BY <2>2, <4>1
      <4> QED
        BY <1>2, <4>2
    <3>2. CASE d # e
      <4>1. tail'[d] = tail[d]
        BY <2>1, <3>2 DEF TypeOK
      <4> QED
        BY <1>2, <4>1
    <3> QED
      BY <3>1, <3>2
  <2>4. ASSUME NEW i \in 1..Len(log') PROVE Agrees(log'[i].type, record')
    <3>1. CASE log' = log
      BY <1>2, <3>1
    <3>2. CASE log' = Append(log, Head(t))
      <4> HIDE DEF t
      <4>1. /\ Len(log') = Len(log) + 1 /\ log'[Len(log) + 1] = t[1]
            /\ \A j \in 1..Len(log) : log'[j] = log[j]
        BY <1>0, <2>2, <3>2, AppendProperties
      <4>2. CASE i = Len(log) + 1
        <5>1. 1 \in 1..Len(t) /\ log'[i] = t[1]
          BY <2>2, <4>1, <4>2
        <5> QED
          BY <1>2, <5>1 DEF t
      <4>3. CASE i # Len(log) + 1
        <5>1. i \in 1..Len(log) /\ log'[i] = log[i]
          BY <1>0, <4>1, <4>3
        <5> QED
          BY <1>2, <5>1
      <4> QED
        BY <4>2, <4>3
    <3> QED
      BY <2>1, <3>1, <3>2
  <2> QED
    BY <2>3, <2>4
<1>7. CASE Expire \/ Relay \/ Connect \/ Cut \/ UNCHANGED vars
  BY <1>3, <1>7, ExpireFrame, RelayFrame DEF streamVars, emitVars, vars
<1> QED
  BY <1>5, <1>6, <1>7 DEF Next

\* The relay's stage and the status it read go with one another.
LEMMA RelayInvStep ==
  ASSUME TypeOK, RelayInv, [Next]_vars
  PROVE  /\ RelayInv'
         /\ conn'.at \in {"read", "length", "replay"} =>
              \/ /\ conn.at \in {"read", "length", "replay"}
                 /\ conn'.status = conn.status
              \/ Connect /\ conn'.status = record
<1>0. /\ conn = [at |-> conn.at, status |-> conn.status, next |-> conn.next]
      /\ record \in {"RUNNING", "COMPLETED", "FAILED"}
  BY DEF TypeOK
<1>1. CASE conn' = conn
  BY <1>1 DEF RelayInv
<1>2. CASE Connect
  BY <1>0, <1>2 DEF Connect, RelayInv
<1>3. CASE Relay \/ Cut
  <2>2. ASSUME NEW m \in First - 1 .. Len(log), Frames(m)
        PROVE  \/ conn' = NoConn
               \/ conn'.at = "live"
               \/ conn.at \in {"read", "replay"} /\ conn'.at = "replay" /\ conn'.status = conn.status
    BY <1>0, <2>2 DEF Frames
  <2>3. CASE /\ client.at = "connecting" /\ client' = [client EXCEPT !.at = "open"]
             /\ conn' = [at |-> IF record = "RUNNING" THEN "live" ELSE "read",
                        status |-> record, next |-> LastEventId]
             /\ cuts' = cuts
    <3>1. Connect
      BY <1>3, <2>3, RelayFrame DEF Connect, boundVars
    <3> QED
      BY <1>2, <3>1
  <2>4. CASE conn.at = "read" /\ conn' = [conn EXCEPT !.at = "length"]
    BY <1>0, <2>4 DEF RelayInv
  <2>5. CASE conn' = NoConn
    BY <2>5 DEF NoConn, RelayInv
  <2> QED
    BY <1>3, <2>2, <2>3, <2>4, <2>5, RelayMoves DEF RelayInv, Leaves
<1>4. CASE Work \/ Crash \/ Stalled \/ Expire \/ UNCHANGED vars
  BY <1>1, <1>4, WorkFrame, ExpireFrame DEF relayVars, vars
<1>5. ASSUME NEW e \in Emitters, Write(e) \/ WriteFails(e) PROVE conn' = conn
  BY <1>5, WriteFrame DEF relayVars
<1> QED
  BY <1>1, <1>2, <1>3, <1>4, <1>5 DEF Next

LEMMA EndStep ==
  TypeOK /\ CountInv /\ RelayInv /\ EndInv /\ [Next]_vars => EndInv'
<1> SUFFICES ASSUME TypeOK, CountInv, RelayInv, EndInv, [Next]_vars, faults' + crashes' = 0
             PROVE  /\ record' = "COMPLETED" => at' \in {"completed", "announced"} \/ job' = "completed"
                    /\ record' = "FAILED" => job' = "failed" /\ at' # "failRun"
                    /\ job' = "completed" \/ at' \in {"completed", "announced"} => record' = "COMPLETED"
                    /\ job' = "failed" /\ at' # "failRun" => record' = "FAILED"
                    /\ conn'.at \in {"read", "length", "replay"} => conn'.status = record'
  BY EventsAgree DEF EndInv
<1>0. /\ faults + crashes = 0
      /\ record' = record \/ record = "RUNNING"
      /\ record \in {"RUNNING", "COMPLETED", "FAILED"} /\ {faults, crashes} \subseteq Nat
      /\ job \in {"waiting", "active", "completed", "failed"}
  BY RecordStep DEF TypeOK
<1>E. /\ record = "COMPLETED" => at \in {"completed", "announced"} \/ job = "completed"
      /\ record = "FAILED" => job = "failed" /\ at # "failRun"
      /\ job = "completed" \/ at \in {"completed", "announced"} => record = "COMPLETED"
      /\ job = "failed" /\ at # "failRun" => record = "FAILED"
      /\ conn.at \in {"read", "length", "replay"} => conn.status = record
  BY <1>0 DEF EndInv
<1>1. conn'.at \in {"read", "length", "replay"} => conn'.status = record'
  <2>1. Connect => record' = record
    BY DEF Connect, runVars
  <2>2. CASE conn.at \in {"read", "length", "replay"} /\ conn'.status = conn.status
    <3>1. conn.status = record /\ record # "RUNNING"
      BY <1>E, <2>2 DEF RelayInv
    <3> QED
      BY <1>0, <2>2, <3>1
  <2> QED
    BY <2>1, <2>2, RelayInvStep
<1>2. CASE UNCHANGED <<record, job, at>>
  BY <1>0, <1>E, <1>1, <1>2
<1>3. CASE Work \/ Crash \/ Stalled
  <2>1. CASE PickUp
    BY <1>0, <1>E, <1>1, <2>1 DEF PickUp, CountInv
  <2>2. CASE Complete
    BY <1>0, <1>E, <1>1, <2>2 DEF Complete, CountInv
  <2>3. CASE FailRun
    BY <1>0, <1>E, <1>1, <2>3 DEF FailRun, CountInv
  <2>4. CASE Progress \/ StepFails \/ RefuseAttempt \/ RecordWriteFails
    BY <1>0, <1>E, <1>1, <2>4 DEF Progress, StepFails, RefuseAttempt, RecordWriteFails, CountInv,
       runVars
  <2>5. CASE AnnounceCompleted \/ JobCompleted \/ AnnounceFailed
    BY <1>0, <1>E, <1>1, <2>5 DEF AnnounceCompleted, JobCompleted, AnnounceFailed, CountInv
  <2>6. ASSUME NEW final \in BOOLEAN, FailAttempt(final)
        PROVE  /\ record' = record /\ at \in {"flushFinal", "flushRetry", "throwRetry"}
               /\ \/ job' = "waiting" /\ at' = "idle"
                  \/ job' = "failed" /\ at' = "failRun"
    BY <2>6, CountStep DEF FailAttempt, IsTerminalJobFailure
  <2>7. ASSUME NEW final \in BOOLEAN, FailAttempt(final)
        PROVE  /\ record' = "COMPLETED" => at' \in {"completed", "announced"} \/ job' = "completed"
               /\ record' = "FAILED" => job' = "failed" /\ at' # "failRun"
               /\ job' = "completed" \/ at' \in {"completed", "announced"} => record' = "COMPLETED"
               /\ job' = "failed" /\ at' # "failRun" => record' = "FAILED"
    BY <1>0, <1>E, <2>6, <2>7 DEF CountInv
  <2>8. CASE Crash
    <3>1. crashes' = crashes + 1 /\ faults' = faults
      BY <2>8 DEF Crash
    <3> QED
      BY <1>0, <1>E, <3>1
  <2>9. CASE Stalled
    BY <1>0, <1>E, <1>1, <2>9 DEF Stalled, CountInv
  <2> QED
    BY <1>1, <1>3, <2>1, <2>2, <2>3, <2>4, <2>5, <2>7, <2>8, <2>9 DEF Work
<1>4. ASSUME NEW e \in Emitters, Write(e) \/ WriteFails(e) PROVE UNCHANGED <<record, job, at>>
  BY <1>4, WriteFrame DEF runVars
<1>5. CASE Expire \/ Relay \/ Connect \/ Cut \/ UNCHANGED vars
  BY <1>2, <1>5, ExpireFrame, RelayFrame DEF runVars, vars
<1> QED
  BY <1>2, <1>3, <1>4, <1>5 DEF Next

LEMMA ToldStep ==
  TypeOK /\ CountInv /\ RelayInv /\ EndInv /\ ToldIsRecorded /\ [Next]_vars => ToldIsRecorded'
<1> SUFFICES ASSUME TypeOK, CountInv, RelayInv, EndInv, ToldIsRecorded, [Next]_vars,
                    faults' + crashes' = 0
             PROVE  Agrees(client'.told, record')
  BY DEF ToldIsRecorded, Agrees
<1>0. faults + crashes = 0
  BY RecordStep
<1>1. Agrees(client.told, record)
  BY <1>0 DEF ToldIsRecorded, Agrees
<1>2. CASE client'.told = client.told
  BY <1>1, <1>2, AgreesStays
<1>3. CASE Relay \/ Connect \/ Cut
  <2>0. client = [at |-> client.at, seen |-> client.seen, told |-> client.told]
    BY DEF TypeOK
  <2>1. ASSUME NEW m \in First - 1 .. Len(log), Frames(m) PROVE Agrees(client'.told, record)
    <3>1. \/ client'.told = client.told
          \/ \E i \in 1..Len(log) : log[i].type \in Terminal /\ client'.told = log[i].type
      BY <2>1, TakeEffect DEF Frames
    <3> QED
      BY <1>0, <1>1, <3>1 DEF EndInv
  <2>2. ASSUME NEW state,
               conn.at = "length" /\ Leaves(state, IF conn.status = "COMPLETED" THEN "run.completed"
                                                                                ELSE "run.failed")
        PROVE  Agrees(client'.told, record)
    <3>1. conn.status = record /\ record \in {"COMPLETED", "FAILED"}
      BY <1>0, <2>2 DEF EndInv, RelayInv, TypeOK
    <3> QED
      BY <2>0, <2>2, <3>1 DEF Leaves, Agrees
  <2>3. Agrees(client'.told, record)
    BY <1>1, <1>3, <2>0, <2>1, <2>2, RelayMoves DEF Leaves
  <2> QED
    BY <2>3, AgreesStays
<1>4. CASE Work \/ Crash \/ Stalled \/ Expire \/ UNCHANGED vars
  BY <1>2, <1>4, WorkFrame, ExpireFrame DEF relayVars, vars
<1>5. ASSUME NEW e \in Emitters, Write(e) \/ WriteFails(e) PROVE client' = client
  BY <1>5, WriteFrame DEF relayVars
<1> QED
  BY <1>2, <1>3, <1>4, <1>5 DEF Next

-----------------------------------------------------------------------------
(* The theorems *)

LEMMA Inductive == IInv /\ [Next]_vars => IInv'
BY TypeStep, CountStep, CursorStep, GapStep, ChainStep, StreamStep, EndStep, RelayInvStep, ToldStep
   DEF IInv

LEMMA Invariance == Spec => []IInv
BY InitInv, Inductive, PTL DEF Spec

\* Every variable stays in its set: no hand-out lacks an emitter, the cursor and
\* the ids the browser holds are ids of the stream.
THEOREM TypeCorrect == Spec => []TypeOK
<1>1. IInv => TypeOK
  BY DEF IInv
<1> QED
  BY <1>1, Invariance, PTL

\* Whatever breaks and however often the browser comes back, it sees no event
\* twice and misses none between two it saw but those that had expired
\* (relayLive, relayTerminal and the cursor taken from Last-Event-ID).
THEOREM NothingTwiceNothingMissed == Spec => []NoGapNoRepeat
<1>1. IInv => NoGapNoRepeat
  BY DEF IInv
<1> QED
  BY <1>1, Invariance, PTL

\* The promise chain of RunEventEmitter keeps the order of emission in the
\* stream, and a number is missing only where a write failed or a worker died.
THEOREM StreamInOrder == Spec => []SeqFollowsStream
<1>1. ASSUME TypeOK, ChainInv, StreamInv PROVE SeqFollowsStream
  <2>0. /\ Len(log) \in Nat
        /\ \A i \in 1..Len(log) : log[i].by \in Emitters /\ log[i].seq \in Nat \ {0}
    <3>1. \A e \in Events : e.by \in Emitters /\ e.seq \in Nat \ {0}
      BY DEF Events
    <3> QED
      BY <1>1, <3>1 DEF TypeOK
  <2>1. SUFFICES ASSUME NEW j \in 1..Len(log)
        PROVE  /\ \A i \in 1..j - 1 : log[i].by = log[j].by => log[i].seq < log[j].seq
               /\ drops + crashes = 0 /\ log[j].seq > 1 =>
                    \E i \in 1..j - 1 : log[i].by = log[j].by /\ log[i].seq = log[j].seq - 1
    BY DEF SeqFollowsStream
  <2>2. ASSUME NEW i \in 1..j - 1, log[i].by = log[j].by PROVE log[i].seq < log[j].seq
    <3>1. i \in 1..Len(log) /\ i < j
      BY <2>0
    <3> QED
      BY <1>1, <2>2, <3>1 DEF StreamInv
  <2>3. ASSUME drops + crashes = 0, log[j].seq > 1
        PROVE  \E i \in 1..j - 1 : log[i].by = log[j].by /\ log[i].seq = log[j].seq - 1
    <3> DEFINE e == log[j].by
    <3>1. e \in Emitters /\ log[j].seq \in Nat /\ log[j].seq <= Settled(e) /\ Settled(e) \in Int
      <4>1. seq[e] \in Nat /\ Len(tail[e]) \in Nat
        BY <1>1, <2>0 DEF TypeOK
      <4>2. log[j].seq <= Settled(e)
        BY <1>1 DEF StreamInv
      <4> QED
        BY <2>0, <4>1, <4>2 DEF Settled
    <3>2. log[j].seq - 1 \in 1..Settled(e)
      BY <2>3, <3>1
    <3>3. PICK i \in 1..Len(log) : log[i].by = e /\ log[i].seq = log[j].seq - 1
      <4>1. \A d \in Emitters : \A n \in 1..Settled(d) :
              \E i \in 1..Len(log) : log[i].by = d /\ log[i].seq = n
        BY <1>1, <2>3, Zenon DEF StreamInv
      <4> HIDE DEF e
      <4> QED
        BY <3>1, <3>2, <4>1
    <3>4. ~(j < i) /\ i # j
      <4>1. j < i => log[j].seq < log[i].seq
        BY <1>1, <3>3 DEF StreamInv
      <4> QED
        BY <2>0, <3>1, <3>3, <4>1
    <3>5. i \in 1..j - 1
      BY <2>0, <3>4
    <3> QED
      BY <3>3, <3>5
  <2> QED
    BY <2>2, <2>3
<1>2. IInv => SeqFollowsStream
  BY <1>1 DEF IInv
<1> QED
  BY <1>2, Invariance, PTL

\* A browser told that the run is over, by an event or by a snapshot, finds it
\* so in the record, while no worker died and no write of the record failed.
THEOREM ToldTrue == Spec => []ToldIsRecorded
<1>1. IInv => ToldIsRecorded
  BY DEF IInv
<1> QED
  BY <1>1, Invariance, PTL
=============================================================================
