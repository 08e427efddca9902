------------------------------ MODULE RunEvents ------------------------------
(***************************************************************************)
(* What a browser learns of one generation run: the events an attempt      *)
(* emits without waiting for them, the promise chain that writes them to   *)
(* the run's Redis stream, the expiry of that stream, the HTTP relay that  *)
(* reads it, and the EventSource that reconnects with the last id it saw.  *)
(*                                                                         *)
(* The attempts are those of ArtifactRun, cut down to what the stream can  *)
(* tell: the status of the run record and the events. Stream ids are the   *)
(* positions in `log', which keeps expired entries; the first `gone' of    *)
(* them are no longer in Redis.                                            *)
(***************************************************************************)
EXTENDS Naturals, Sequences, FiniteSets

CONSTANTS
  MaxAttempts,  \* the job's `attempts' option
  MaxStalls,    \* BullMQ's maxStalledCount
  Batch,        \* XREAD_BATCH
  MaxEvents,    \* bound on the events one attempt emits before it ends
  MaxTroubles,  \* bound on failed stream writes, failed record writes and crashes
  MaxCuts       \* bound on broken connections

ASSUME EventsAssumption ==
  /\ {MaxAttempts, Batch, MaxEvents} \subseteq Nat \ {0}
  /\ {MaxStalls, MaxTroubles, MaxCuts} \subseteq Nat

VARIABLES
  record,        \* the status of the run record
  job,           \* the state of the queue's job
  attemptsMade, stalls,
  at,            \* where the attempt or the failure handler stands
  emitter,       \* emitters built so far; the last one is in use
  seq,           \* [Emitters -> Nat], RunEventEmitter.seq
  tail,          \* [Emitters -> Seq(Event)], emitted and not yet written
  log,           \* every event ever written to the stream
  gone, ttl,     \* entries reclaimed; is the stream set to expire?
  conn,          \* the relay's request: stage, status it read, cursor
  client,        \* the EventSource: its state, the ids it saw, what it was told
  drops, faults, crashes, cuts   \* stream writes and record writes that
                 \* failed, workers that died, connections that broke

runVars    == <<record, job, attemptsMade, stalls, at>>
emitVars   == <<emitter, seq, tail>>
streamVars == <<log, gone, ttl>>
relayVars  == <<conn, client>>
boundVars  == <<drops, faults, crashes, cuts>>
vars == <<runVars, emitVars, streamVars, relayVars, boundVars>>

\* One for every time the job is picked up.
Emitters == 1 .. MaxAttempts + MaxTroubles

Terminal == {"run.completed", "run.failed"}
Types    == Terminal \cup {"run.started", "step.failed", "progress"}

NoConn == [at |-> "none", status |-> "RUNNING", next |-> 0]

Init ==
  /\ record = "RUNNING" /\ job = "waiting"
  /\ attemptsMade = 0 /\ stalls = 0
  /\ at = "idle"
  /\ emitter = 0
  /\ seq = [e \in Emitters |-> 0]
  /\ tail = [e \in Emitters |-> <<>>]
  /\ log = <<>> /\ gone = 0 /\ ttl = FALSE
  /\ conn = NoConn
  /\ client = [at |-> "connecting", seen |-> <<>>, told |-> "none"]
  /\ drops = 0 /\ faults = 0 /\ crashes = 0 /\ cuts = 0

Trouble == drops + faults + crashes < MaxTroubles

Breaks == cuts < MaxCuts /\ cuts' = cuts + 1 /\ UNCHANGED <<drops, faults, crashes>>

-----------------------------------------------------------------------------
(* RunEventEmitter                                                          *)

\* emit: the number is stamped at once, the write joins the promise chain.
EmitBy(e, type) ==
  /\ seq' = [seq EXCEPT ![e] = @ + 1]
  /\ tail' = [tail EXCEPT ![e] =
                Append(@, [by |-> e, seq |-> seq[e] + 1, type |-> type])]

Emit(type) == EmitBy(emitter, type) /\ UNCHANGED emitter

\* The event of a new RunEventEmitter, which counts from one again.
EmitAfresh(type) == EmitBy(emitter + 1, type) /\ emitter' = emitter + 1

\* flush has resolved.
Flushed == tail[emitter] = <<>>

\* Slip: the writes are not serialized.
Write_AnyOrder(e) ==
  \E i \in 1..Len(tail[e]) :
    /\ log' = Append(log, tail[e][i])
    /\ tail' = [tail EXCEPT ![e] = SubSeq(@, 1, i - 1) \o SubSeq(@, i + 1, Len(@))]
    /\ ttl' = (ttl \/ tail[e][i].type \in Terminal)
    /\ UNCHANGED <<runVars, emitter, seq, gone, relayVars, boundVars>>

\* write: the event is appended and, if it ends the run, the stream's expiry set.
Write(e) ==
  /\ tail[e] # <<>>
  /\ log' = Append(log, Head(tail[e]))
  /\ tail' = [tail EXCEPT ![e] = Tail(@)]
  /\ ttl' = (ttl \/ Head(tail[e]).type \in Terminal)
  /\ UNCHANGED <<runVars, emitter, seq, gone, relayVars, boundVars>>

\* A failed XADD drops its event; a failed EXPIRE leaves the stream for good.
WriteFails(e) ==
  /\ tail[e] # <<>>
  /\ Trouble /\ drops' = drops + 1
  /\ tail' = [tail EXCEPT ![e] = Tail(@)]
  /\ \/ UNCHANGED log
     \/ Head(tail[e]).type \in Terminal /\ log' = Append(log, Head(tail[e]))
  /\ UNCHANGED <<runVars, emitter, seq, gone, ttl, relayVars, faults, crashes,
                 cuts>>

\* The hour is over. No poll of a live relay takes that long.
Expire ==
  /\ ttl
  /\ conn.at = "live" => conn.next = Len(log)
  /\ ttl' = FALSE /\ gone' = Len(log)
  /\ UNCHANGED <<runVars, emitVars, log, relayVars, boundVars>>

-----------------------------------------------------------------------------
(* The job, its attempts and the terminal-failure handler                   *)

IsTerminalJobFailure(made, unrecoverable) ==
  unrecoverable \/ made >= MaxAttempts

\* A job that stalled too often fails before the processor sees it, and its
\* failure is announced by an emitter of its own. Otherwise the processor
\* builds an emitter and runWorkflow announces the start.
PickUp ==
  /\ job = "waiting"
  /\ IF stalls > MaxStalls
       THEN /\ job' = "failed" /\ at' = "failRun"
            /\ emitter' = emitter + 1 /\ UNCHANGED <<seq, tail>>
       ELSE /\ job' = "active" /\ at' = "running"
            /\ EmitAfresh("run.started")
  /\ UNCHANGED <<record, attemptsMade, stalls, streamVars, relayVars, boundVars>>

\* step.started, step.progress, usage.tick or step.completed.
Progress ==
  /\ at = "running"
  /\ seq[emitter] < MaxEvents
  /\ Emit("progress")
  /\ UNCHANGED <<runVars, streamVars, relayVars, boundVars>>

\* announceFailure: the step's failure is announced and flushed.
StepFails ==
  /\ at = "running"
  /\ Emit("step.failed")
  /\ at' \in {"flushRetry", "flushFinal"}
  /\ UNCHANGED <<record, job, attemptsMade, stalls, streamVars, relayVars,
                 boundVars>>

\* assertBalance throws before the first step, with nothing more to announce.
RefuseAttempt ==
  /\ at = "running" /\ seq[emitter] = 1
  /\ at' \in {"flushRetry", "flushFinal"}
  /\ UNCHANGED <<record, job, attemptsMade, stalls, emitVars, streamVars,
                 relayVars, boundVars>>

\* Slip: the record is left RUNNING.
Complete_Unrecorded ==
  /\ at = "running" /\ at' = "completed"
  /\ UNCHANGED <<record, job, attemptsMade, stalls, emitVars, streamVars,
                 relayVars, boundVars>>

\* run.complete: the record is written before the end is announced.
Complete ==
  /\ at = "running"
  /\ record' = "COMPLETED" /\ at' = "completed"
  /\ UNCHANGED <<job, attemptsMade, stalls, emitVars, streamVars, relayVars,
                 boundVars>>

\* run.complete or setCurrentStep fails, or its answer is lost, and the attempt
\* throws without a flush.
RecordWriteFails ==
  /\ at = "running"
  /\ Trouble /\ faults' = faults + 1
  /\ record' \in {record, "COMPLETED"} /\ at' = "throwRetry"
  /\ UNCHANGED <<job, attemptsMade, stalls, emitVars, streamVars, relayVars,
                 drops, crashes, cuts>>

\* meter.commit never throws; after it the end is announced.
AnnounceCompleted ==
  /\ at = "completed"
  /\ Emit("run.completed")
  /\ at' = "announced"
  /\ UNCHANGED <<record, job, attemptsMade, stalls, streamVars, relayVars,
                 boundVars>>

JobCompleted ==
  /\ at = "announced" /\ Flushed
  /\ at' = "idle" /\ job' = "completed"
  /\ UNCHANGED <<record, attemptsMade, stalls, emitVars, streamVars, relayVars,
                 boundVars>>

\* Slip: the attempt budget never runs out.
FailAttempt_Unbounded(final) ==
  /\ \/ at = (IF final THEN "flushFinal" ELSE "flushRetry") /\ Flushed
     \/ at = "throwRetry" /\ ~final
  /\ attemptsMade' = attemptsMade + 1
  /\ job' = IF final THEN "failed" ELSE "waiting"
  /\ at' = IF final THEN "failRun" ELSE "idle"
  /\ UNCHANGED <<record, stalls, emitVars, streamVars, relayVars, boundVars>>

\* The attempt throws and onFailed decides: wait for another attempt, or fail
\* the run with the emitter of this attempt.
FailAttempt(final) ==
  /\ \/ at = (IF final THEN "flushFinal" ELSE "flushRetry") /\ Flushed
     \/ at = "throwRetry" /\ ~final
  /\ attemptsMade' = attemptsMade + 1
  /\ job' = IF final \/ attemptsMade + 1 >= MaxAttempts THEN "failed"
                                                         ELSE "waiting"
  /\ at' = IF IsTerminalJobFailure(attemptsMade + 1, final) THEN "failRun"
                                                            ELSE "idle"
  /\ UNCHANGED <<record, stalls, emitVars, streamVars, relayVars, boundVars>>

\* handleTerminalFailure: the record, whose failed write is only logged, then
\* the event.
FailRun ==
  /\ at = "failRun"
  /\ \/ record' = "FAILED" /\ UNCHANGED faults
     \/ Trouble /\ faults' = faults + 1 /\ UNCHANGED record
  /\ at' = "failed"
  /\ UNCHANGED <<job, attemptsMade, stalls, emitVars, streamVars, relayVars,
                 drops, crashes, cuts>>

AnnounceFailed ==
  /\ at = "failed"
  /\ Emit("run.failed")
  /\ at' = "idle"
  /\ UNCHANGED <<record, job, attemptsMade, stalls, streamVars, relayVars,
                 boundVars>>

\* The worker dies, and with it every emitter and what they had not written.
Crash ==
  /\ at # "idle" \/ \E e \in Emitters : tail[e] # <<>>
  /\ Trouble /\ crashes' = crashes + 1
  /\ at' = "idle"
  /\ tail' = [e \in Emitters |-> <<>>]
  /\ UNCHANGED <<record, job, attemptsMade, stalls, emitter, seq, streamVars,
                 relayVars, drops, faults, cuts>>

\* BullMQ finds an active job nobody works on.
Stalled ==
  /\ job = "active" /\ at = "idle"
  /\ job' = "waiting" /\ stalls' = stalls + 1
  /\ UNCHANGED <<record, attemptsMade, at, emitVars, streamVars, relayVars,
                 boundVars>>

-----------------------------------------------------------------------------
(* RunEventStreamService: the relay of one connection                       *)

\* XREAD COUNT: at most Batch entries with an id beyond the cursor.
Later == {i \in 1..Len(log) : i > conn.next /\ i > gone}
First == IF conn.next < gone THEN gone + 1 ELSE conn.next + 1
Last  == IF First + Batch - 1 < Len(log) THEN First + Batch - 1 ELSE Len(log)

Ends(a, b) == {i \in a..b : log[i].type \in Terminal}

LastEventId == IF client.seen = <<>> THEN 0 ELSE client.seen[Len(client.seen)]

\* The browser takes the frames of the entries up to m and is then at `state'.
Take(m, state) ==
  client' = [at   |-> state,
             seen |-> client.seen \o [k \in 1..(m - First + 1) |-> First + k - 1],
             told |-> IF Ends(First, m) = {} THEN client.told
                      ELSE log[CHOOSE i \in Ends(First, m) :
                                 \A j \in Ends(First, m) : j <= i].type]

\* Entries First..n go out and the browser takes them all, or up to a terminal
\* one on which its page closes the EventSource, or up to where the connection
\* breaks. The response goes on at `stage'; when it has ended the EventSource
\* comes back.
Forward(n, stage) ==
  \/ /\ Take(n, IF stage = "ended" THEN "connecting" ELSE "open")
     /\ conn' = IF stage = "ended" THEN NoConn
                                   ELSE [conn EXCEPT !.at = stage, !.next = n]
     /\ UNCHANGED boundVars
  \/ /\ \E m \in First..n : Ends(First, m) = {m} /\ Take(m, "stopped")
     /\ conn' = NoConn
     /\ UNCHANGED boundVars
  \/ /\ Breaks
     /\ \E m \in First - 1 .. n - 1 : Take(m, "connecting")
     /\ conn' = NoConn

\* Slip: Last-Event-ID is ignored.
Connect_FromStart ==
  /\ client.at = "connecting"
  /\ client' = [client EXCEPT !.at = "open"]
  /\ conn' = [at     |-> IF record = "RUNNING" THEN "live" ELSE "read",
              status |-> record, next |-> 0]
  /\ UNCHANGED <<runVars, emitVars, streamVars, boundVars>>

\* The EventSource (re)connects; relay reads the record and takes the cursor
\* from Last-Event-ID.
Connect ==
  /\ client.at = "connecting"
  /\ client' = [client EXCEPT !.at = "open"]
  /\ conn' = [at     |-> IF record = "RUNNING" THEN "live" ELSE "read",
              status |-> record, next |-> LastEventId]
  /\ UNCHANGED <<runVars, emitVars, streamVars, boundVars>>

\* relayLive: a batch goes out up to the terminal event, which ends the
\* response. A poll that finds nothing writes a heartbeat and changes nothing.
RelayLive ==
  LET ends == Ends(First, Last) IN
  /\ conn.at = "live"
  /\ Later # {}
  /\ IF ends = {} THEN Forward(Last, "live")
                  ELSE Forward(CHOOSE i \in ends : \A j \in ends : i <= j, "ended")
  /\ UNCHANGED <<runVars, emitVars, streamVars>>

\* relayTerminal: the first read, and every further one, of a finished run.
RelayTerminal ==
  /\ \/ conn.at \in {"read", "replay"} /\ Later # {} /\ Forward(Last, "replay")
     \/ /\ conn.at = "read" /\ Later = {}
        /\ conn' = [conn EXCEPT !.at = "length"]
        /\ UNCHANGED <<client, boundVars>>
     \/ /\ conn.at = "replay" /\ Later = {}
        /\ conn' = NoConn /\ client' = [client EXCEPT !.at = "connecting"]
        /\ UNCHANGED boundVars
  /\ UNCHANGED <<runVars, emitVars, streamVars>>

\* Slip: a client that is up to date gets an empty stream instead of a 204.
RelayLength_EmptyStream ==
  /\ conn.at = "length"
  /\ client' = [client EXCEPT !.at = "connecting"]
  /\ conn' = NoConn
  /\ UNCHANGED <<runVars, emitVars, streamVars, boundVars>>

\* Nothing to replay: 204, which stops the EventSource, or, if the stream is
\* gone, a snapshot from the record, whose frames carry no id.
RelayLength ==
  /\ conn.at = "length"
  /\ IF Len(log) = gone
       THEN \E state \in {"connecting", "stopped"} :
              client' = [client EXCEPT
                           !.at = state,
                           !.told = IF conn.status = "COMPLETED"
                                      THEN "run.completed" ELSE "run.failed"]
       ELSE client' = [client EXCEPT !.at = "stopped"]
  /\ conn' = NoConn
  /\ UNCHANGED <<runVars, emitVars, streamVars, boundVars>>

\* The connection breaks while nothing is on its way, or the API restarts.
Cut ==
  /\ client.at = "open"
  /\ Breaks
  /\ client' = [client EXCEPT !.at = "connecting"]
  /\ conn' = NoConn
  /\ UNCHANGED <<runVars, emitVars, streamVars>>

-----------------------------------------------------------------------------
Work ==
  \/ PickUp \/ Progress \/ StepFails \/ RefuseAttempt \/ Complete
  \/ RecordWriteFails \/ AnnounceCompleted \/ JobCompleted
  \/ \E final \in BOOLEAN : FailAttempt(final)
  \/ FailRun \/ AnnounceFailed

Relay == RelayLive \/ RelayTerminal \/ RelayLength

Next ==
  \/ Work \/ Crash \/ Stalled
  \/ \E e \in Emitters : Write(e) \/ WriteFails(e)
  \/ Expire
  \/ Relay \/ Connect \/ Cut

Spec == Init /\ [][Next]_vars

\* The worker and the relay run on, Redis answers, the queue's stalled check is
\* a timer and the EventSource reconnects by itself. Nothing expires, breaks
\* or fails by duty.
Fairness ==
  /\ WF_vars(Work) /\ WF_vars(Stalled)
  /\ \A e \in Emitters : WF_vars(Write(e))
  /\ WF_vars(Relay) /\ WF_vars(Connect)

FairSpec == Spec /\ Fairness

-----------------------------------------------------------------------------
(* Properties *)

Places == {"idle", "running", "flushRetry", "flushFinal", "throwRetry",
           "completed", "announced", "failRun", "failed"}
Events == [by : Emitters, seq : Nat \ {0}, type : Types]

TypeOK ==
  /\ record \in {"RUNNING", "COMPLETED", "FAILED"}
  /\ job \in {"waiting", "active", "completed", "failed"}
  /\ attemptsMade \in 0..MaxAttempts /\ stalls \in 0..MaxTroubles
  /\ at \in Places
  /\ emitter \in {0} \cup Emitters
  /\ seq \in [Emitters -> Nat]
  /\ tail \in [Emitters -> Seq(Events)]
  /\ log \in Seq(Events)
  /\ gone \in 0..Len(log) /\ ttl \in BOOLEAN
  /\ conn \in [at : {"none", "live", "read", "length", "replay"},
               status : {"RUNNING", "COMPLETED", "FAILED"}, next : 0..Len(log)]
  /\ client \in [at : {"connecting", "open", "stopped"}, seen : Seq(1..Len(log)),
                 told : Terminal \cup {"none"}]
  /\ {drops, faults, crashes, cuts} \subseteq Nat

\* Whatever breaks and however often the client comes back, it sees no event
\* twice and misses none between two it saw but those that expired.
NoGapNoRepeat ==
  \A k \in 1..Len(client.seen) :
    LET before == IF k = 1 THEN 0 ELSE client.seen[k - 1] IN
    /\ before < client.seen[k]
    /\ \A id \in before + 1 .. client.seen[k] - 1 : id <= gone

\* The numbers of an attempt's events stand in the stream in the order of
\* emission although nobody waits for the writes, and a hole among them means
\* that a write failed or the worker died.
SeqFollowsStream ==
  \A j \in 1..Len(log) :
    /\ \A i \in 1..j - 1 : log[i].by = log[j].by => log[i].seq < log[j].seq
    /\ drops + crashes = 0 /\ log[j].seq > 1 =>
         \E i \in 1..j - 1 : log[i].by = log[j].by /\ log[i].seq = log[j].seq - 1

\* A client told that the run is over, by an event or by a snapshot, that
\* re-reads the run finds it so, as long as no worker died and no write of the
\* record failed.
ToldIsRecorded ==
  faults + crashes = 0 =>
    /\ client.told = "run.completed" => record = "COMPLETED"
    /\ client.told = "run.failed"    => record = "FAILED"

\* An EventSource does not poll for ever: the page closes it or a 204 stops
\* it. Not so if an event was dropped or the worker died with the failure
\* handler; if the record's last write failed and the stream expired; or if a
\* page that was told and did not close outlived either.
ClientStops ==
  <>(\/ client.at = "stopped"
     \/ drops > 0
     \/ crashes > 0 /\ job = "failed"
     \/ faults > 0 /\ gone > 0
     \/ client.told # "none" /\ (gone > 0 \/ faults > 0))
=============================================================================
