--------------------------- MODULE PostPublishing ---------------------------
(***************************************************************************)
(* Posts from draft to LinkedIn: the requests of post.service.ts and the    *)
(* worker that publishes what is due, cut where they await something, over  *)
(* one artifact family, one connected account and the queue of publish      *)
(* jobs (one job per post, under the post's id). What races with them is    *)
(* here too: refines and edits of the artifact, disconnecting the account,  *)
(* the next billing period, requests and workers that die.                  *)
(*                                                                          *)
(* A request works on a copy of the post it loaded; save() writes only the  *)
(* fields of the copy it changed, onto whatever the post has become.        *)
(* Posts carry no uploaded media.                                           *)
(***************************************************************************)
EXTENDS ArtifactStore, FiniteSets

CONSTANTS
  Posts, Clients, Workers,
  Quota,            \* scheduled posts per period
  MaxPeriods,       \* bound on billing periods
  MaxCalls,         \* bound on the requests made
  MaxFaults,        \* bound on requests and workers that die, answers and saves lost
  MaxStalls,        \* BullMQ's maxStalledCount
  NoPost

ASSUME PostAssumption ==
  /\ IsFiniteSet(Clients) /\ Clients # {} /\ IsFiniteSet(Workers)
  /\ Clients \cap Workers = {}
  /\ NoPost \notin Posts
  /\ Quota \in Nat /\ MaxPeriods \in Nat \ {0}
  /\ MaxCalls \in Nat /\ MaxFaults \in Nat
  /\ MaxStalls \in Nat

Actors == Clients \cup Workers

\* "NONE" before createPost, "DELETED" after deletePost.
PostStatus == {"NONE", "DRAFT", "SCHEDULED", "PUBLISHED", "FAILED", "DELETED"}

\* rev is mongoose's __v; flagged is scheduledPostUsageCounted.
PostDocs == [status : PostStatus, pin : 0..MaxVersions, rev : Nat,
             flagged : BOOLEAN, channelPostId : BOOLEAN]

NoDoc == [status |-> "NONE", pin |-> 0, rev |-> 0, flagged |-> FALSE,
          channelPostId |-> FALSE]

VARIABLES
  post,       \* [Posts -> PostDocs]
  job,        \* [Posts -> {"none", "delayed", "active", "failed"}]
  stalls,     \* [Posts -> Nat]
  live,       \* [Posts -> Nat], LinkedIn posts made for it and not deleted
  counted,    \* [1..MaxPeriods -> SUBSET Posts], scheduledPostIds
  period,
  returned,   \* history: has an earlier period become the current one again?
  connected,  \* is the LinkedIn access usable?
  act,        \* [Actors -> what that request or job execution is doing]
  overlaps,   \* [Posts -> Nat], history: what overlapped on it, died or was
              \* given up half done
  calls, faults

postVars  == <<post, job, stalls, live>>
usageVars == <<counted, period, returned>>
boundVars == <<calls, faults>>
vars == <<storeVars, postVars, usageVars, connected, act, overlaps, boundVars>>

\* p: the post; doc: the copy loaded; v: the version chosen or read; rev: the
\* pin revision an editor read; first: isFirstTimeSchedule; ps: the posts
\* disconnecting found, or those an editor knows somebody was working on.
Idle == [at |-> "idle", p |-> NoPost, doc |-> NoDoc, v |-> 0, rev |-> 0,
         first |-> FALSE, ps |-> {}]

Disconnecting == {"discFind", "discRemove", "discFail"}

WorksOn(a, p) == act[a].at # "idle" /\ (act[a].p = p \/ act[a].at \in Disconnecting)
Quiet(p)      == \A a \in Actors : ~WorksOn(a, p)

Exists(p) == post[p].status \notin {"NONE", "DELETED"}
Ready(v)  == v \in Versions /\ vstatus[v] = "READY"
Pinned(v) == \E p \in Posts : post[p].status \in {"SCHEDULED", "PUBLISHED"}
                              /\ post[p].pin = v

Init ==
  /\ currentVersion = 1
  /\ deletedAt = FALSE
  /\ vstatus = [v \in Versions |-> IF v = 1 THEN "READY" ELSE "NONE"]
  /\ vcontent = [v \in Versions |-> IF v = 1 THEN "generated" ELSE "empty"]
  /\ pinRevision = 0
  /\ post = [p \in Posts |-> NoDoc]
  /\ job = [p \in Posts |-> "none"]
  /\ stalls = [p \in Posts |-> 0]
  /\ live = [p \in Posts |-> 0]
  /\ counted = [t \in 1..MaxPeriods |-> {}]
  /\ period = 1
  /\ returned = FALSE
  /\ connected = TRUE
  /\ act = [a \in Actors |-> Idle]
  /\ overlaps = [p \in Posts |-> 0]
  /\ calls = 0 /\ faults = 0

-----------------------------------------------------------------------------
(* Building blocks *)

Goto(a, at) == act' = [act EXCEPT ![a].at = at]
Done(a)     == act' = [act EXCEPT ![a] = Idle]

Disturb(ps) == overlaps' = [p \in Posts |-> IF p \in ps THEN overlaps[p] + 1
                                                      ELSE overlaps[p]]
Undisturbed(p) == overlaps[p] = 0

\* Somebody begins to work on p: the post is disturbed if others already do.
Begin(a, p, at) ==
  /\ act[a].at = "idle"
  /\ act' = [act EXCEPT ![a] = [Idle EXCEPT !.at = at, !.p = p, !.doc = post[p]]]
  /\ Disturb({q \in Posts : q = p /\ ~Quiet(q)})

BeginCall(c, p, at, allowed) ==
  /\ calls < MaxCalls
  /\ calls' = calls + 1
  /\ post[p].status \in allowed
  /\ Begin(c, p, at)

\* save(): the fields in which the copy differs from what was loaded. Throws,
\* writing nothing, when the post is gone, or when it replaces the artifacts
\* array and __v has moved on.
Dirty(loaded, new, stored) == IF new # loaded THEN new ELSE stored

CanSave(a, new) ==
  LET p == act[a].p  doc == act[a].doc IN
  /\ Exists(p)
  /\ new.pin # doc.pin => post[p].rev = doc.rev

Save(a, new) ==
  LET p == act[a].p  doc == act[a].doc  cur == post[p] IN
  post' = [post EXCEPT ![p] =
    [status  |-> Dirty(doc.status, new.status, cur.status),
     pin     |-> Dirty(doc.pin, new.pin, cur.pin),
     rev     |-> IF new.pin # doc.pin THEN cur.rev + 1 ELSE cur.rev,
     flagged |-> Dirty(doc.flagged, new.flagged, cur.flagged),
     channelPostId |-> Dirty(doc.channelPostId, new.channelPostId,
                             cur.channelPostId)]]

\* bumpArtifactPinRevision, whose condition repeats the pinned version.
CanBump(v) == currentVersion = v
BumpArtifactPinRevision ==
  /\ pinRevision' = pinRevision + 1
  /\ UNCHANGED <<currentVersion, deletedAt, vstatus, vcontent>>

\* job.remove() throws on a job a worker holds.
Removable(p) == job[p] # "active"
RemoveJob(p) == job' = [job EXCEPT ![p] = "none"]

\* addScheduleJob: a job of that id still in the queue makes it a no-op.
AddScheduleJob(p) ==
  IF job[p] = "none"
    THEN /\ job' = [job EXCEPT ![p] = "delayed"]
         /\ stalls' = [stalls EXCEPT ![p] = 0]
    ELSE UNCHANGED <<job, stalls>>

-----------------------------------------------------------------------------
(* createPost and updatePost *)

CreatePost(p, v) ==
  /\ post[p].status = "NONE"
  /\ connected
  /\ Ready(v)
  /\ post' = [post EXCEPT ![p] = [NoDoc EXCEPT !.status = "DRAFT", !.pin = v]]
  /\ UNCHANGED <<storeVars, job, stalls, live, usageVars, connected, act,
                 overlaps, boundVars>>

\* Slip: the status is not looked at.
LoadForUpdate_AnyStatus(c, p) ==
  /\ BeginCall(c, p, "update", PostStatus \ {"NONE", "DELETED"})
  /\ UNCHANGED <<storeVars, postVars, usageVars, connected, faults>>

LoadForUpdate(c, p) ==
  /\ BeginCall(c, p, "update", {"DRAFT", "FAILED"})
  /\ UNCHANGED <<storeVars, postVars, usageVars, connected, faults>>

\* The post is given a READY version, or only a title. A FAILED one becomes a
\* DRAFT (returnFailedPostToDraft).
UpdatePost(c) ==
  /\ act[c].at = "update"
  /\ \E v \in Versions \cup {act[c].doc.pin} :
       LET new == [act[c].doc EXCEPT !.status = "DRAFT", !.pin = v] IN
       /\ Ready(v) \/ v = act[c].doc.pin
       /\ IF CanSave(c, new) THEN Save(c, new) ELSE UNCHANGED post
  /\ Done(c)
  /\ UNCHANGED <<storeVars, job, stalls, live, usageVars, connected,
                 overlaps, boundVars>>

-----------------------------------------------------------------------------
(* schedulePost *)

LoadForSchedule(c, p) ==
  /\ BeginCall(c, p, "schedCheck", {"DRAFT", "SCHEDULED", "FAILED"})
  /\ UNCHANGED <<storeVars, postVars, usageVars, connected, faults>>

\* Slip: the rule for posts older than the flag is applied to every post.
WasCounted_Legacy(c) == act[c].doc.flagged \/ act[c].doc.status # "DRAFT"

WasCounted(c) == act[c].doc.flagged \/ \E t \in 1..MaxPeriods : act[c].p \in counted[t]

\* Slip: the limit itself is let through.
WithinQuota_Inclusive == Cardinality(counted[period]) <= Quota

WithinQuota == Cardinality(counted[period]) < Quota

\* Account, quota of a first schedule, then the pin; each refusal ends it.
ScheduleChecks(c) ==
  /\ act[c].at = "schedCheck"
  /\ IF connected /\ (WasCounted(c) \/ WithinQuota) /\ CanBump(act[c].doc.pin)
       THEN /\ BumpArtifactPinRevision
            /\ act' = [act EXCEPT ![c] = [@ EXCEPT !.at = "schedRemove", !.first = ~WasCounted(c)]]
       ELSE Done(c) /\ UNCHANGED storeVars
  /\ UNCHANGED <<postVars, usageVars, connected, overlaps, boundVars>>

\* Slip: only the job of a SCHEDULED post is looked for.
ScheduleRemovesJob_IfScheduled(c) ==
  LET p == act[c].p IN
  /\ act[c].at = "schedRemove"
  /\ CASE act[c].doc.status # "SCHEDULED" -> Goto(c, "schedAdd") /\ UNCHANGED job
       [] Removable(p) -> RemoveJob(p) /\ Goto(c, "schedReplace")
       [] OTHER -> Done(c) /\ UNCHANGED job
  /\ UNCHANGED <<storeVars, post, stalls, live, usageVars, connected,
                 overlaps, boundVars>>

ScheduleRemovesJob(c) ==
  LET p == act[c].p IN
  /\ act[c].at = "schedRemove"
  /\ IF Removable(p)
       THEN RemoveJob(p) /\ Goto(c, IF job[p] = "delayed" THEN "schedReplace" ELSE "schedAdd")
       ELSE Done(c) /\ UNCHANGED job
  /\ UNCHANGED <<storeVars, post, stalls, live, usageVars, connected,
                 overlaps, boundVars>>

ScheduleAddsJob(c) ==
  /\ act[c].at \in {"schedAdd", "schedReplace"}
  /\ AddScheduleJob(act[c].p)
  /\ Goto(c, "schedSave")
  /\ UNCHANGED <<storeVars, post, live, usageVars, connected, overlaps,
                 boundVars>>

\* The add fails. A job that was replaced is put back if its old time is still
\* to come (a DRAFT has none); if that fails too the post becomes a DRAFT.
ScheduleAddFails(c) ==
  LET p == act[c].p  new == [act[c].doc EXCEPT !.status = "DRAFT"] IN
  /\ act[c].at \in {"schedAdd", "schedReplace"}
  /\ faults < MaxFaults /\ faults' = faults + 1
  /\ Disturb({p})
  /\ \/ UNCHANGED <<post, job, stalls>>
     \/ /\ act[c].at = "schedReplace" /\ act[c].doc.status # "DRAFT"
        /\ \/ AddScheduleJob(p) /\ UNCHANGED post
           \/ CanSave(c, new) /\ Save(c, new) /\ UNCHANGED <<job, stalls>>
  /\ Done(c)
  /\ UNCHANGED <<storeVars, live, usageVars, connected, calls>>

ScheduleSaves(c) ==
  LET new == [act[c].doc EXCEPT !.status = "SCHEDULED"] IN
  /\ act[c].at = "schedSave"
  /\ IF CanSave(c, new)
       THEN Save(c, new) /\ act' = [act EXCEPT ![c] = [@ EXCEPT !.at = "schedCount", !.doc = new]]
       ELSE Done(c) /\ UNCHANGED post
  /\ UNCHANGED <<storeVars, job, stalls, live, usageVars, connected,
                 overlaps, boundVars>>

\* incrementScheduledPostUsage counts a post once per period.
ScheduleCounts(c) ==
  /\ act[c].at = "schedCount"
  /\ IF act[c].first
       THEN counted' = [counted EXCEPT ![period] = @ \cup {act[c].p}]
       ELSE UNCHANGED counted
  /\ Goto(c, "schedFlag")
  /\ UNCHANGED <<storeVars, postVars, period, returned, connected, overlaps, boundVars>>

ScheduleFlags(c) ==
  LET new == [act[c].doc EXCEPT !.flagged = TRUE] IN
  /\ act[c].at = "schedFlag"
  /\ IF CanSave(c, new) THEN Save(c, new) ELSE UNCHANGED post
  /\ Done(c)
  /\ UNCHANGED <<storeVars, job, stalls, live, usageVars, connected,
                 overlaps, boundVars>>

-----------------------------------------------------------------------------
(* unschedulePost *)

LoadForUnschedule(c, p) ==
  /\ BeginCall(c, p, "unschedRemove", {"SCHEDULED"})
  /\ UNCHANGED <<storeVars, postVars, usageVars, connected, faults>>

\* Slip: the job is left to find out for itself.
UnscheduleRemovesJob_Kept(c) ==
  /\ act[c].at = "unschedRemove"
  /\ Goto(c, "unschedSave")
  /\ UNCHANGED <<storeVars, postVars, usageVars, connected, overlaps, boundVars>>

UnscheduleRemovesJob(c) ==
  LET p == act[c].p IN
  /\ act[c].at = "unschedRemove"
  /\ IF Removable(p)
       THEN RemoveJob(p) /\ Goto(c, "unschedSave")
       ELSE Done(c) /\ UNCHANGED job
  /\ UNCHANGED <<storeVars, post, stalls, live, usageVars, connected,
                 overlaps, boundVars>>

UnscheduleSaves(c) ==
  LET new == [act[c].doc EXCEPT !.status = "DRAFT"] IN
  /\ act[c].at = "unschedSave"
  /\ IF CanSave(c, new) THEN Save(c, new) ELSE UNCHANGED post
  /\ Done(c)
  /\ UNCHANGED <<storeVars, job, stalls, live, usageVars, connected,
                 overlaps, boundVars>>

-----------------------------------------------------------------------------
(* publishPostNow, the schedule worker, and the publishPost they share. The  *)
(* worker's execution ends at "thrown" or "returned", where its job settles. *)

LoadForPublishNow(c, p) ==
  /\ BeginCall(c, p, "nowRemove", {"DRAFT", "SCHEDULED", "FAILED"})
  /\ UNCHANGED <<storeVars, postVars, usageVars, connected, faults>>

PublishNowRemovesJob(c) ==
  LET p == act[c].p IN
  /\ act[c].at = "nowRemove"
  /\ IF connected /\ Removable(p)
       THEN RemoveJob(p) /\ Goto(c, "pubLoad")
       ELSE Done(c) /\ UNCHANGED job
  /\ UNCHANGED <<storeVars, post, stalls, live, usageVars, connected,
                 overlaps, boundVars>>

\* A job is due: a free worker takes it, unless it stalled too often.
Fire(w, p) ==
  /\ job[p] = "delayed"
  /\ act[w].at = "idle"
  /\ IF stalls[p] > MaxStalls
       THEN /\ job' = [job EXCEPT ![p] = "failed"]
            /\ UNCHANGED <<act, overlaps>>
       ELSE /\ job' = [job EXCEPT ![p] = "active"]
            /\ Begin(w, p, "pubLoad")
  /\ UNCHANGED <<storeVars, post, stalls, live, usageVars, connected, boundVars>>

Ends(a, how) == IF a \in Workers THEN Goto(a, how) ELSE Done(a)

PublishLoads(a) ==
  LET p == act[a].p IN
  /\ act[a].at = "pubLoad"
  /\ IF Exists(p) /\ post[p].status # "PUBLISHED"
       THEN act' = [act EXCEPT ![a] = [@ EXCEPT !.at = "pubCheck", !.doc = post[p]]]
       ELSE Ends(a, "thrown")
  /\ UNCHANGED <<storeVars, postVars, usageVars, connected, overlaps, boundVars>>

\* The account, the pin, the artifact. Only an account or an artifact that
\* cannot be used fails the post; a pin that is no longer the head just throws.
PublishChecks(a) ==
  LET v == act[a].doc.pin IN
  /\ act[a].at = "pubCheck"
  /\ \/ ~connected /\ Goto(a, "pubFail") /\ UNCHANGED storeVars
     \/ connected /\ ~CanBump(v) /\ Ends(a, "thrown") /\ UNCHANGED storeVars
     \/ /\ connected /\ CanBump(v)
        /\ BumpArtifactPinRevision
        /\ Goto(a, IF deletedAt \/ ~Ready(v) THEN "pubFail" ELSE "pubSend")
  /\ UNCHANGED <<postVars, usageVars, connected, overlaps, boundVars>>

\* LinkedIn takes the post or refuses it.
PublishSends(a) ==
  LET p == act[a].p IN
  /\ act[a].at = "pubSend"
  /\ \/ live' = [live EXCEPT ![p] = @ + 1] /\ Goto(a, "pubSave")
     \/ Goto(a, "pubFail") /\ UNCHANGED live
  /\ UNCHANGED <<storeVars, post, job, stalls, usageVars, connected,
                 overlaps, boundVars>>

\* LinkedIn takes the post and the answer is lost.
PublishAnswerLost(a) ==
  LET p == act[a].p IN
  /\ act[a].at = "pubSend"
  /\ faults < MaxFaults /\ faults' = faults + 1
  /\ live' = [live EXCEPT ![p] = @ + 1]
  /\ Disturb({p})
  /\ Goto(a, "pubFail")
  /\ UNCHANGED <<storeVars, post, job, stalls, usageVars, connected, calls>>

\* Slip: save() comes before the status is set.
PublishSaves_TooSoon(a) ==
  LET new == [act[a].doc EXCEPT !.channelPostId = TRUE] IN
  /\ act[a].at = "pubSave"
  /\ IF CanSave(a, new)
       THEN Save(a, new) /\ Ends(a, "returned")
       ELSE Ends(a, "thrown") /\ UNCHANGED post
  /\ UNCHANGED <<storeVars, job, stalls, live, usageVars, connected,
                 overlaps, boundVars>>

PublishSaves(a) ==
  LET new == [act[a].doc EXCEPT !.status = "PUBLISHED", !.channelPostId = TRUE] IN
  /\ act[a].at = "pubSave"
  /\ IF CanSave(a, new)
       THEN Save(a, new) /\ Ends(a, "returned")
       ELSE Ends(a, "thrown") /\ UNCHANGED post
  /\ UNCHANGED <<storeVars, job, stalls, live, usageVars, connected,
                 overlaps, boundVars>>

\* That save fails: the catch block fails the post LinkedIn has taken.
PublishSaveFails(a) ==
  LET new == [act[a].doc EXCEPT !.status = "FAILED", !.channelPostId = TRUE] IN
  /\ act[a].at = "pubSave"
  /\ faults < MaxFaults /\ faults' = faults + 1
  /\ Disturb({act[a].p})
  /\ IF CanSave(a, new) THEN Save(a, new) ELSE UNCHANGED post
  /\ Ends(a, "thrown")
  /\ UNCHANGED <<storeVars, job, stalls, live, usageVars, connected, calls>>

FailPost(a) ==
  LET new == [act[a].doc EXCEPT !.status = "FAILED"] IN
  /\ act[a].at = "pubFail"
  /\ IF CanSave(a, new) THEN Save(a, new) ELSE UNCHANGED post
  /\ Ends(a, "thrown")
  /\ UNCHANGED <<storeVars, job, stalls, live, usageVars, connected,
                 overlaps, boundVars>>

\* The job has one attempt; a completed job leaves the queue, a failed one stays.
JobEnds(w) ==
  /\ act[w].at \in {"thrown", "returned"}
  /\ job' = [job EXCEPT ![act[w].p] = IF act[w].at = "thrown" THEN "failed" ELSE "none"]
  /\ Done(w)
  /\ UNCHANGED <<storeVars, post, stalls, live, usageVars, connected,
                 overlaps, boundVars>>

-----------------------------------------------------------------------------
(* deletePost *)

LoadForDelete(c, p) ==
  /\ BeginCall(c, p, "delRemove", PostStatus \ {"NONE", "DELETED"})
  /\ post[p].status = "PUBLISHED" => connected
  /\ UNCHANGED <<storeVars, postVars, usageVars, connected, faults>>

\* The job of a SCHEDULED post, or the LinkedIn post of a PUBLISHED one, goes
\* first; when either cannot be removed the request ends there.
DeleteRemoves(c) ==
  LET p == act[c].p  doc == act[c].doc IN
  /\ act[c].at = "delRemove"
  /\ CASE doc.status = "SCHEDULED" ->
            /\ IF Removable(p)
                 THEN RemoveJob(p) /\ Goto(c, "delete")
                 ELSE Done(c) /\ UNCHANGED job
            /\ UNCHANGED live
       [] doc.status = "PUBLISHED" /\ doc.channelPostId ->
            /\ \/ /\ live' = [live EXCEPT ![p] = IF @ = 0 THEN 0 ELSE @ - 1]
                  /\ Goto(c, "delete")
               \/ Done(c) /\ UNCHANGED live
            /\ UNCHANGED job
       [] OTHER -> Goto(c, "delete") /\ UNCHANGED <<job, live>>
  /\ UNCHANGED <<storeVars, post, stalls, usageVars, connected, overlaps,
                 boundVars>>

DeletePost(c) ==
  LET p == act[c].p IN
  /\ act[c].at = "delete"
  /\ IF Exists(p) THEN post' = [post EXCEPT ![p].status = "DELETED"]
                  ELSE UNCHANGED post
  /\ Done(c)
  /\ UNCHANGED <<storeVars, job, stalls, live, usageVars, connected,
                 overlaps, boundVars>>

-----------------------------------------------------------------------------
(* disconnectConnectedAccount, and the other changes of the account *)

Disconnect(c) ==
  /\ act[c].at = "idle"
  /\ calls < MaxCalls /\ calls' = calls + 1
  /\ connected' = FALSE
  /\ act' = [act EXCEPT ![c] = [Idle EXCEPT !.at = "discFind"]]
  /\ Disturb({p \in Posts : ~Quiet(p)})
  /\ UNCHANGED <<storeVars, postVars, usageVars, faults>>

DisconnectFinds(c) ==
  /\ act[c].at = "discFind"
  /\ act' = [act EXCEPT ![c] = [@ EXCEPT !.at = "discRemove",
                                       !.ps = {p \in Posts : post[p].status = "SCHEDULED"}]]
  /\ UNCHANGED <<storeVars, postVars, usageVars, connected, overlaps, boundVars>>

\* A job that is active ends the request, with some of the others removed whose
\* posts stay SCHEDULED.
DisconnectRemovesJobs(c) ==
  LET free == {p \in act[c].ps : Removable(p)} IN
  /\ act[c].at = "discRemove"
  /\ \E ps \in SUBSET free :
       /\ free = act[c].ps => ps = free
       /\ job' = [p \in Posts |-> IF p \in ps THEN "none" ELSE job[p]]
       /\ Disturb(IF free = act[c].ps THEN {} ELSE ps)
  /\ IF free = act[c].ps THEN Goto(c, "discFail") ELSE Done(c)
  /\ UNCHANGED <<storeVars, post, stalls, live, usageVars, connected, boundVars>>

\* Slip: a status the schema does not have.
DisconnectFails_Canceled(c) ==
  /\ act[c].at = "discFail"
  /\ post' = [p \in Posts |->
       IF p \in act[c].ps THEN [post[p] EXCEPT !.status = "CANCELED"] ELSE post[p]]
  /\ Done(c)
  /\ UNCHANGED <<storeVars, job, stalls, live, usageVars, connected,
                 overlaps, boundVars>>

\* updateMany by id, whatever the status has become.
DisconnectFails(c) ==
  /\ act[c].at = "discFail"
  /\ post' = [p \in Posts |->
       IF p \in act[c].ps /\ Exists(p) THEN [post[p] EXCEPT !.status = "FAILED"]
                                       ELSE post[p]]
  /\ Done(c)
  /\ UNCHANGED <<storeVars, job, stalls, live, usageVars, connected,
                 overlaps, boundVars>>

\* The token expires, or the user goes through LinkedIn again.
AccessChanges ==
  /\ connected' = ~connected
  /\ UNCHANGED <<storeVars, postVars, usageVars, act, overlaps, boundVars>>

-----------------------------------------------------------------------------
(* The artifact meanwhile: updateArtifact step by step, and what other       *)
(* requests and runs do to it (ArtifactRun has their own steps).             *)

\* The editor's history variable ps: who was being worked on when it read.
LoadForEdit(c) ==
  /\ act[c].at = "idle"
  /\ calls < MaxCalls /\ calls' = calls + 1
  /\ Live /\ Ready(currentVersion)
  /\ act' = [act EXCEPT ![c] = [Idle EXCEPT
       !.at = "editPins", !.v = currentVersion, !.rev = pinRevision,
       !.ps = {p \in Posts : ~Quiet(p)}]]
  /\ UNCHANGED <<storeVars, postVars, usageVars, connected, overlaps,
                 faults>>

EditChecksPins(c) ==
  /\ act[c].at = "editPins"
  /\ IF Pinned(act[c].v) THEN Done(c) ELSE Goto(c, "edit")
  /\ UNCHANGED <<storeVars, postVars, usageVars, connected, overlaps, boundVars>>

EditWrites(c) ==
  /\ act[c].at = "edit"
  /\ \/ EditVersion(act[c].v, act[c].rev)
     \/ ~EditMatches(act[c].v, act[c].rev) /\ UNCHANGED storeVars
  /\ Done(c)
  /\ UNCHANGED <<postVars, usageVars, connected, overlaps, boundVars>>

ArtifactChanges ==
  /\ \/ Refinable /\ currentVersion < MaxVersions /\ AppendRefineVersion(currentVersion)
     \/ vstatus[currentVersion] = "GENERATING" /\ SetVersionContent(currentVersion)
     \/ vstatus[currentVersion] = "GENERATING" /\ FailVersion(currentVersion)
     \/ DeleteArtifact
  /\ UNCHANGED <<postVars, usageVars, connected, act, overlaps, boundVars>>

\* resolveUsagePeriod: the next month or the period of a subscription begins; a
\* subscription that ends within the month brings the month's own period back.
ChangePeriod ==
  /\ period' \in (1..MaxPeriods) \ {period}
  /\ returned' = (returned \/ period' < period)
  /\ UNCHANGED <<storeVars, postVars, counted, connected, act, overlaps, boundVars>>

-----------------------------------------------------------------------------
(* Requests and workers that die *)

Touched(a) == {p \in Posts : WorksOn(a, p)}

RequestDies(c) ==
  /\ act[c].at # "idle"
  /\ faults < MaxFaults /\ faults' = faults + 1
  /\ Disturb(Touched(c))
  /\ Done(c)
  /\ UNCHANGED <<storeVars, postVars, usageVars, connected, calls>>

Crash(w) ==
  /\ act[w].at # "idle"
  /\ faults < MaxFaults /\ faults' = faults + 1
  /\ Disturb(Touched(w))
  /\ Done(w)
  /\ UNCHANGED <<storeVars, postVars, usageVars, connected, calls>>

Stalled(p) ==
  /\ job[p] = "active"
  /\ \A w \in Workers : act[w].p # p
  /\ job' = [job EXCEPT ![p] = "delayed"]
  /\ stalls' = [stalls EXCEPT ![p] = @ + 1]
  /\ UNCHANGED <<storeVars, post, live, usageVars, connected, act, overlaps,
                 boundVars>>

-----------------------------------------------------------------------------
Load(c, p) ==
  \/ LoadForUpdate(c, p) \/ LoadForSchedule(c, p) \/ LoadForUnschedule(c, p)
  \/ LoadForPublishNow(c, p) \/ LoadForDelete(c, p)

Publish(a) ==
  \/ PublishLoads(a) \/ PublishChecks(a) \/ PublishSends(a)
  \/ PublishAnswerLost(a) \/ PublishSaves(a) \/ PublishSaveFails(a) \/ FailPost(a)

Proceed(c) ==
  \/ UpdatePost(c)
  \/ ScheduleChecks(c) \/ ScheduleRemovesJob(c) \/ ScheduleAddsJob(c)
  \/ ScheduleAddFails(c) \/ ScheduleSaves(c) \/ ScheduleCounts(c) \/ ScheduleFlags(c)
  \/ UnscheduleRemovesJob(c) \/ UnscheduleSaves(c)
  \/ PublishNowRemovesJob(c) \/ Publish(c)
  \/ DeleteRemoves(c) \/ DeletePost(c)
  \/ DisconnectFinds(c) \/ DisconnectRemovesJobs(c) \/ DisconnectFails(c)
  \/ EditChecksPins(c) \/ EditWrites(c)

Next ==
  \/ \E p \in Posts, v \in Versions : CreatePost(p, v)
  \/ \E c \in Clients, p \in Posts : Load(c, p)
  \/ \E c \in Clients : Disconnect(c) \/ LoadForEdit(c) \/ Proceed(c) \/ RequestDies(c)
  \/ \E w \in Workers : Publish(w) \/ JobEnds(w) \/ Crash(w)
  \/ \E w \in Workers, p \in Posts : Fire(w, p)
  \/ \E p \in Posts : Stalled(p)
  \/ AccessChanges \/ ArtifactChanges \/ ChangePeriod

Spec == Init /\ [][Next]_vars

\* Delays elapse and live workers publish; the server carries a request on.
Fairness ==
  /\ \A w \in Workers : WF_vars(Publish(w) \/ JobEnds(w))
  /\ \A p \in Posts : WF_vars(\E w \in Workers : Fire(w, p)) /\ WF_vars(Stalled(p))
  /\ \A c \in Clients : WF_vars(Proceed(c))

FairSpec == Spec /\ Fairness

-----------------------------------------------------------------------------
(* Properties *)

Places == {"idle", "update", "schedCheck", "schedRemove", "schedAdd",
           "schedReplace", "schedSave", "schedCount", "schedFlag",
           "unschedRemove", "unschedSave", "nowRemove", "pubLoad", "pubCheck",
           "pubSend", "pubSave", "pubFail", "thrown", "returned", "delRemove",
           "delete", "discFind", "discRemove", "discFail", "editPins", "edit"}

TypeOK ==
  /\ StoreTypeOK
  /\ post \in [Posts -> PostDocs]
  /\ job \in [Posts -> {"none", "delayed", "active", "failed"}]
  /\ stalls \in [Posts -> Nat]
  /\ live \in [Posts -> Nat]
  /\ counted \in [1..MaxPeriods -> SUBSET Posts]
  /\ period \in 1..MaxPeriods
  /\ returned \in BOOLEAN
  /\ connected \in BOOLEAN
  /\ act \in [Actors -> [at : Places, p : Posts \cup {NoPost}, doc : PostDocs,
                         v : 0..MaxVersions, rev : Nat, first : BOOLEAN,
                         ps : SUBSET Posts]]
  /\ overlaps \in [Posts -> Nat]
  /\ calls \in Nat /\ faults \in Nat

\* Each duplicate on LinkedIn takes a disturbance of its own, a request that
\* overlaps another or the worker, one that dies, or an answer that is lost:
\* publishPost, its retry by the queue and the checks of every status lead to
\* no second one.
DuplicatesBounded == \A p \in Posts : live[p] <= 1 + overlaps[p]

\* When nobody is working on it, an undisturbed post has a pending job exactly
\* when it is SCHEDULED; the exception is a pin that a refine has left behind,
\* whose job throws without a trace in the post (bumpArtifactPinRevision).
JobsFollowStatus ==
  \A p \in Posts : Undisturbed(p) /\ Quiet(p) =>
    /\ job[p] = "delayed" => post[p].status = "SCHEDULED"
    /\ post[p].status = "SCHEDULED" =>
         job[p] = "delayed" \/ post[p].pin # currentVersion

\* A post that is PUBLISHED stays so until it is deleted, and a SCHEDULED or
\* PUBLISHED one keeps the version it pins, unless somebody disturbed it.
ConfirmedPostsKeep ==
  [][\A p \in Posts : overlaps'[p] = 0 =>
       /\ post[p].status = "PUBLISHED" => post'[p].status \in {"PUBLISHED", "DELETED"}
       /\ post[p].status \in {"SCHEDULED", "PUBLISHED"}
            /\ post'[p].status \in {"SCHEDULED", "PUBLISHED"}
            => post'[p].pin = post[p].pin]_vars

\* An edit that is saved changes no version a SCHEDULED or PUBLISHED post pins,
\* save one somebody was working on when the editor read the artifact: the pin
\* revision closes the window between the pin check and the write.
EditsRespectPins ==
  [][\A c \in Clients :
       act[c].at = "edit" /\ act'[c].at = "idle" /\ vcontent' # vcontent =>
       \A p \in Posts \ act[c].ps :
         post[p].status \in {"SCHEDULED", "PUBLISHED"} => post[p].pin # act[c].v]_vars

\* No post is SCHEDULED for free: it is in the usage of a period, or the request
\* that scheduled it is about to count it, as long as no request dies.
ScheduledIsCounted ==
  \A p \in Posts : faults = 0 /\ post[p].status = "SCHEDULED" =>
    \/ \E t \in 1..MaxPeriods : p \in counted[t]
    \/ \E c \in Clients : act[c].p = p /\ act[c].at = "schedCount"

\* The quota is checked before a post is counted, so requests can pass it
\* together: by one less than there are requests, and never more, whatever
\* period begins meanwhile (assertScheduledPostQuota). Once an earlier period
\* has returned there is no bound: each request may check in an empty one.
QuotaOvershootBounded ==
  ~returned => \A t \in 1..MaxPeriods :
    Cardinality(counted[t]) <= Quota + Cardinality(Clients) - 1

\* A SCHEDULED post that is not disturbed does not stay SCHEDULED: its job fires
\* and the post is published or failed, as long as the artifact is not refined.
ScheduledFires ==
  \A p \in Posts :
    post[p].status = "SCHEDULED" /\ Undisturbed(p) ~>
      \/ post[p].status # "SCHEDULED"
      \/ ~Undisturbed(p)
      \/ post[p].pin # currentVersion
=============================================================================
