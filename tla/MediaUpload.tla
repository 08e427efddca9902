---------------------------- MODULE MediaUpload ----------------------------
(***************************************************************************)
(* The media of one post, from the presigned slot to the LinkedIn asset:    *)
(* the requests of post.service.ts that load the post, await something and  *)
(* save it; the R2 object the browser puts; the queue of upload jobs (one   *)
(* per confirmed batch) and the worker of linkedin-media.service.ts, which  *)
(* updates single entries of the array in place; scheduling and publishing, *)
(* which read the array; and requests, attempts and workers that fail.      *)
(*                                                                          *)
(* A request that touched the media replaces the whole array and is refused *)
(* when mongoose's __v moved on; the worker's updates do not move it.       *)
(***************************************************************************)
EXTENDS Naturals, FiniteSets

CONSTANTS
  MediaIds,     \* the slots ever handed out (random UUIDs)
  Clients, Workers,
  MaxImages,    \* MAX_MEDIA_FILES_PER_POST
  Attempts,     \* attempts of an upload job
  MaxStalls,    \* BullMQ's maxStalledCount
  MaxCalls,     \* bound on the requests made
  MaxFaults,    \* bound on failures and deaths
  NoId

ASSUME MediaAssumption ==
  /\ IsFiniteSet(MediaIds) /\ NoId \notin MediaIds
  /\ MaxImages \in Nat \ {0} /\ Attempts \in Nat \ {0}
  /\ MaxStalls \in Nat /\ MaxCalls \in Nat /\ MaxFaults \in Nat

MediaStatus == {"NONE", "PENDING", "UPLOADING", "READY", "FAILED"}
MediaType   == {"IMAGE", "VIDEO"}
PostStatus  == {"DRAFT", "SCHEDULED", "PUBLISHED", "FAILED", "DELETED"}

\* An entry of the array; status "NONE" stands for "not in it". A READY entry
\* carries its LinkedIn urn.
Entry == [status : MediaStatus, type : MediaType]
Docs  == [status : PostStatus, rev : Nat, media : [MediaIds -> Entry]]

VARIABLES
  post,     \* the stored post: Docs, rev being mongoose's __v
  slot,     \* [MediaIds -> {"free", "taken", "open", "expired"}]
  r2,       \* slots whose object is in R2
  job,      \* [MediaIds -> the upload job filed under that first media id]
  act,      \* [Clients -> what the request is doing]
  exec,     \* [Workers -> what the job execution is doing]
  sent,     \* entries in the share LinkedIn was last given
  undone,   \* history: entries put back to UPLOADING over a settled status
  forgotten,\* history: entries nobody is left to settle
  overlaps, \* history: has a request overlapped another one?
  calls, faults

vars == <<post, slot, r2, job, act, exec, sent, undone, forgotten, overlaps,
          calls, faults>>

NoMedia == [i \in MediaIds |-> [status |-> "NONE", type |-> "IMAGE"]]
Fresh   == [status |-> "DRAFT", rev |-> 0, media |-> NoMedia]
NoJob   == [st |-> "none", items |-> {}, tries |-> 0, stalls |-> 0]

\* doc: the copy loaded; ids: the entries concerned; type: of the new files;
\* next: what follows the save of a purge.
Idle == [at |-> "idle", doc |-> Fresh, ids |-> {}, type |-> "IMAGE", next |-> "idle"]
\* j: the job; todo: the items still to handle; i, type: the item at hand.
Resting == [at |-> "rest", j |-> NoId, todo |-> {}, i |-> NoId, type |-> "IMAGE"]

Has(media, s) == {i \in MediaIds : media[i].status \in s}
Held(media)   == Has(media, MediaStatus \ {"NONE"})
Of(media, t)  == {i \in Held(media) : media[i].type = t}
Uploading     == Has(post.media, {"UPLOADING"})
Exists        == post.status # "DELETED"
Editable      == post.status \in {"DRAFT", "FAILED"}

Init ==
  /\ post = Fresh
  /\ slot = [i \in MediaIds |-> "free"]
  /\ r2 = {} /\ sent = {}
  /\ job = [i \in MediaIds |-> NoJob]
  /\ act = [c \in Clients |-> Idle]
  /\ exec = [w \in Workers |-> Resting]
  /\ undone = {} /\ forgotten = {} /\ overlaps = FALSE
  /\ calls = 0 /\ faults = 0

-----------------------------------------------------------------------------
(* Building blocks *)

Set(media, ids, s) == [i \in MediaIds |->
  IF i \in ids THEN [media[i] EXCEPT !.status = s] ELSE media[i]]
Drop(media, ids) == [i \in MediaIds |->
  IF i \in ids THEN NoMedia[i] ELSE media[i]]

PurgeExpiredPendingMedia(media) ==
  Drop(media, {i \in Has(media, {"PENDING"}) : slot[i] = "expired"})
ReturnFailedPostToDraft(s) == IF s = "FAILED" THEN "DRAFT" ELSE s

Fault == faults < MaxFaults /\ faults' = faults + 1
Done(c) == act' = [act EXCEPT ![c] = Idle]

\* A request loads the post; it overlaps whatever requests are under way.
Load(c, at, media, ids, type, next) ==
  /\ calls < MaxCalls
  /\ calls' = calls + 1
  /\ act[c].at = "idle"
  /\ act' = [act EXCEPT ![c] = [at |-> at, doc |-> [post EXCEPT !.media = media],
                                ids |-> ids, type |-> type, next |-> next]]
  /\ overlaps' = (overlaps \/ \E d \in Clients : act[d].at # "idle")
  /\ UNCHANGED <<post, r2, job, exec, sent, undone, forgotten, faults>>

\* save() of a copy whose media was marked modified: all or nothing under __v.
\* The status is written only when the request changed it.
CanReplace_Unversioned(doc) == Exists
CanReplace(doc) == Exists /\ post.rev = doc.rev

Replace(doc, status, media) ==
  /\ post' = [status |-> IF status # doc.status THEN status ELSE post.status,
              rev |-> post.rev + 1, media |-> media]
  /\ undone' = undone \cup (Has(post.media, {"READY", "FAILED"})
                              \cap Has(media, {"UPLOADING"}))

\* save() of a copy in which only the status changed.
SaveStatus(doc, status) ==
  /\ Exists
  /\ post' = IF status # doc.status THEN [post EXCEPT !.status = status] ELSE post
-----------------------------------------------------------------------------
(* Requests on the media *)

\* validateMediaFiles: n files of one type beside what the post has.
ValidateMediaFiles(media, type, n) ==
  /\ Held(media) = Of(media, type)
  /\ n + Cardinality(Of(media, type)) <= IF type = "VIDEO" THEN 1 ELSE MaxImages

HasMediaUploadInProgress(media) == Has(media, {"PENDING", "UPLOADING"}) # {}

InitiateMediaUpload(c) ==
  LET media == PurgeExpiredPendingMedia(post.media) IN
  \E ids \in SUBSET {i \in MediaIds : slot[i] = "free"}, type \in MediaType :
    /\ ids # {}
    /\ Editable
    /\ ~HasMediaUploadInProgress(media)
    /\ ValidateMediaFiles(media, type, Cardinality(ids))
    /\ slot' = [i \in MediaIds |-> IF i \in ids THEN "taken" ELSE slot[i]]
    /\ Load(c, "initiate", media, ids, type, "idle")

InitiateSaves(c) ==
  LET a == act[c] IN
  /\ a.at = "initiate"
  /\ CanReplace(a.doc)
  /\ Replace(a.doc, ReturnFailedPostToDraft(a.doc.status),
       [i \in MediaIds |-> IF i \in a.ids THEN [status |-> "PENDING", type |-> a.type]
                                          ELSE a.doc.media[i]])
  /\ slot' = [i \in MediaIds |-> IF i \in a.ids THEN "open" ELSE slot[i]]
  /\ Done(c)
  /\ UNCHANGED <<r2, job, exec, sent, forgotten, overlaps, calls, faults>>

\* The browser puts the file; the URL lives as long as the slot. Nothing reads
\* the slot of an entry that is no longer PENDING, so its end and a later put,
\* which leaves an orphan object, are left out.
PutObject(i) ==
  /\ slot[i] = "open" /\ i \in Has(post.media, {"PENDING"})
  /\ i \notin r2
  /\ r2' = r2 \cup {i}
  /\ UNCHANGED <<post, slot, job, act, exec, sent, undone, forgotten,
                 overlaps, calls, faults>>

SlotExpires(i) ==
  /\ slot[i] = "open" /\ i \in Has(post.media, {"PENDING"})
  /\ slot' = [slot EXCEPT ![i] = "expired"]
  /\ UNCHANGED <<post, r2, job, act, exec, sent, undone, forgotten,
                 overlaps, calls, faults>>

\* Up to and including the last headFile.
CompleteMediaUpload(c) ==
  \E ids \in SUBSET Has(post.media, {"PENDING"}) :
    /\ ids # {}
    /\ Editable
    /\ ids \subseteq r2
    /\ \A i \in ids : slot[i] # "expired"
    /\ Load(c, "complete", post.media, ids, "IMAGE", "idle")
    /\ UNCHANGED slot

CompleteSaves(c) ==
  LET a == act[c]
      media  == PurgeExpiredPendingMedia(Set(a.doc.media, a.ids, "UPLOADING"))
      status == ReturnFailedPostToDraft(a.doc.status)
  IN
  /\ a.at = "complete"
  /\ CanReplace(a.doc)
  /\ Replace(a.doc, status, media)
  /\ act' = [act EXCEPT ![c] = [@ EXCEPT !.at = "enqueue",
       !.doc = [status |-> status, rev |-> post.rev + 1, media |-> media]]]
  /\ UNCHANGED <<slot, r2, job, exec, sent, forgotten, overlaps, calls, faults>>

AddMediaUploadJob(ids) ==
  \E i \in ids : job' = [job EXCEPT ![i] = [NoJob EXCEPT !.st = "waiting", !.items = ids]]

CompleteEnqueues(c) ==
  /\ act[c].at = "enqueue"
  /\ AddMediaUploadJob(act[c].ids)
  /\ Done(c)
  /\ UNCHANGED <<post, slot, r2, exec, sent, undone, forgotten, overlaps,
                 calls, faults>>

\* The queue throws, having taken the job or not.
CompleteEnqueueFails(c) ==
  /\ act[c].at = "enqueue"
  /\ Fault
  /\ AddMediaUploadJob(act[c].ids) \/ UNCHANGED job
  /\ act' = [act EXCEPT ![c].at = "unqueue"]
  /\ UNCHANGED <<post, slot, r2, exec, sent, undone, forgotten, overlaps, calls>>

CompleteMarksFailed(c) ==
  LET a == act[c] IN
  /\ a.at = "unqueue"
  /\ CanReplace(a.doc)
  /\ Replace(a.doc, a.doc.status, Set(a.doc.media, a.ids, "FAILED"))
  /\ Done(c)
  /\ UNCHANGED <<slot, r2, job, exec, sent, forgotten, overlaps, calls, faults>>

\* updateMedia: titles and alternative texts; the array is saved with them.
UpdateMedia(c) ==
  /\ Editable
  /\ Held(post.media) # {}
  /\ Load(c, "update", post.media, {}, "IMAGE", "idle")
  /\ UNCHANGED slot

UpdateSaves(c) ==
  LET doc == act[c].doc IN
  /\ act[c].at = "update"
  /\ CanReplace(doc)
  /\ Replace(doc, ReturnFailedPostToDraft(doc.status), doc.media)
  /\ Done(c)
  /\ UNCHANGED <<slot, r2, job, exec, sent, forgotten, overlaps, calls, faults>>

RemoveMedia(c) ==
  \E i \in Held(post.media) :
    /\ Editable
    /\ Load(c, "remove", post.media, {i}, "IMAGE", "idle")
    /\ UNCHANGED slot

RemoveSaves(c) ==
  LET a == act[c] IN
  /\ a.at = "remove"
  /\ CanReplace(a.doc)
  /\ Replace(a.doc, ReturnFailedPostToDraft(a.doc.status), Drop(a.doc.media, a.ids))
  /\ IF a.ids \subseteq Has(a.doc.media, {"PENDING", "UPLOADING"})
       THEN act' = [act EXCEPT ![c].at = "erase"]
       ELSE Done(c)
  /\ UNCHANGED <<slot, r2, job, exec, sent, forgotten, overlaps, calls, faults>>

RemoveErases(c) ==
  /\ act[c].at = "erase"
  /\ r2' = r2 \ act[c].ids
  /\ Done(c)
  /\ UNCHANGED <<post, slot, job, exec, sent, undone, forgotten, overlaps,
                 calls, faults>>

\* The save is refused, the request ends; after a failed enqueue this leaves
\* the entries UPLOADING.
Unqueued(ids) == {i \in ids : \A j \in MediaIds : i \notin job[j].items}

SaveRefused(c) ==
  /\ act[c].at \in {"initiate", "complete", "unqueue", "update", "remove", "purge"}
  /\ ~CanReplace(act[c].doc)
  /\ forgotten' = IF act[c].at = "unqueue" THEN forgotten \cup Unqueued(act[c].ids)
                                           ELSE forgotten
  /\ Done(c)
  /\ UNCHANGED <<post, slot, r2, job, exec, sent, undone, overlaps, calls, faults>>

RequestDies(c) ==
  /\ act[c].at # "idle"
  /\ Fault
  /\ forgotten' = IF act[c].at \in {"enqueue", "unqueue"}
                    THEN forgotten \cup Unqueued(act[c].ids) ELSE forgotten
  /\ Done(c)
  /\ UNCHANGED <<post, slot, r2, job, exec, sent, undone, overlaps, calls>>

-----------------------------------------------------------------------------
(* The post itself. What its requests do to the schedule queue, the quota    *)
(* and the account, and their races on these, are PostPublishing's.          *)

\* updatePost replaces the artifacts array, which moves __v.
UpdatePost(c) ==
  /\ calls < MaxCalls /\ calls' = calls + 1
  /\ act[c].at = "idle"
  /\ Editable
  /\ post' = [post EXCEPT !.rev = @ + 1, !.status = ReturnFailedPostToDraft(@)]
  /\ UNCHANGED <<slot, r2, job, act, exec, sent, undone, forgotten, overlaps, faults>>

\* assertMediaReadyForPublication: the purge is saved before the check.
Publishable_Settled(media) == ~HasMediaUploadInProgress(media)
Publishable(media) == Held(media) = Has(media, {"READY"})

AssertMediaReady(c, next) ==
  LET media == PurgeExpiredPendingMedia(post.media) IN
  /\ post.status \in {"DRAFT", "SCHEDULED", "FAILED"}
  /\ IF media # post.media
       THEN Load(c, "purge", media, {}, "IMAGE", next)
       ELSE Publishable(media) /\ Load(c, next, media, {}, "IMAGE", "idle")
  /\ UNCHANGED slot

PurgeSaves(c) ==
  LET a == act[c] IN
  /\ a.at = "purge"
  /\ CanReplace(a.doc)
  /\ Replace(a.doc, a.doc.status, a.doc.media)
  /\ IF Publishable(a.doc.media)
       THEN act' = [act EXCEPT ![c] = [@ EXCEPT !.at = a.next, !.doc.rev = post.rev + 1]]
       ELSE Done(c)
  /\ UNCHANGED <<slot, r2, job, exec, sent, forgotten, overlaps, calls, faults>>

SchedulePost(c) == AssertMediaReady(c, "schedule")
PublishPost(c)  == AssertMediaReady(c, "publish")

ScheduleSaves(c) ==
  /\ act[c].at = "schedule"
  /\ SaveStatus(act[c].doc, "SCHEDULED")
  /\ Done(c)
  /\ UNCHANGED <<slot, r2, job, exec, sent, undone, forgotten, overlaps,
                 calls, faults>>

\* The video, or else the images.
ComposeUploadedMedia(media) ==
  IF Of(media, "VIDEO") # {} THEN Of(media, "VIDEO") ELSE Of(media, "IMAGE")

PublishSends(c) ==
  /\ act[c].at = "publish"
  /\ \/ /\ sent' = ComposeUploadedMedia(act[c].doc.media)
        /\ act' = [act EXCEPT ![c].at = "published"]
        /\ UNCHANGED faults
     \/ /\ Fault
        /\ act' = [act EXCEPT ![c].at = "failed"]
        /\ UNCHANGED sent
  /\ UNCHANGED <<post, slot, r2, job, exec, undone, forgotten,
                 overlaps, calls>>

PublishSaves(c) ==
  /\ act[c].at \in {"published", "failed"}
  /\ SaveStatus(act[c].doc, IF act[c].at = "published" THEN "PUBLISHED" ELSE "FAILED")
  /\ Done(c)
  /\ UNCHANGED <<slot, r2, job, exec, sent, undone, forgotten, overlaps,
                 calls, faults>>

PostGone(c) ==
  /\ act[c].at \in {"schedule", "published", "failed"}
  /\ ~Exists
  /\ Done(c)
  /\ UNCHANGED <<post, slot, r2, job, exec, sent, undone, forgotten, overlaps,
                 calls, faults>>

UnschedulePost(c) ==
  /\ calls < MaxCalls /\ calls' = calls + 1
  /\ act[c].at = "idle"
  /\ post.status = "SCHEDULED"
  /\ post' = [post EXCEPT !.status = "DRAFT"]
  /\ UNCHANGED <<slot, r2, job, act, exec, sent, undone, forgotten, overlaps, faults>>

\* deletePost leaves the objects and the upload jobs behind.
DeletePost(c) ==
  /\ calls < MaxCalls /\ calls' = calls + 1
  /\ act[c].at = "idle"
  /\ Exists
  /\ post' = [post EXCEPT !.status = "DELETED", !.media = NoMedia]
  /\ UNCHANGED <<slot, r2, job, act, exec, sent, undone, forgotten, overlaps, faults>>

-----------------------------------------------------------------------------
(* The upload worker *)

\* A job that stalled too often fails without a further attempt, which the
\* failed handler does not take for its last one.
PickUp(w, j) ==
  /\ exec[w].at = "rest"
  /\ job[j].st = "waiting"
  /\ IF job[j].stalls > MaxStalls
       THEN /\ job' = [job EXCEPT ![j].st = "over"]
            /\ forgotten' = forgotten \cup job[j].items
            /\ UNCHANGED exec
       ELSE /\ job' = [job EXCEPT ![j].st = "active"]
            /\ exec' = [exec EXCEPT ![w] =
                 [Resting EXCEPT !.at = "start", !.j = j, !.todo = job[j].items]]
            /\ UNCHANGED forgotten
  /\ UNCHANGED <<post, slot, r2, act, sent, undone, overlaps, calls, faults>>

\* The post is gone: its objects are deleted and the job succeeds.
Discard(w) ==
  /\ exec[w].at = "start"
  /\ ~Exists
  /\ r2' = r2 \ job[exec[w].j].items
  /\ job' = [job EXCEPT ![exec[w].j].st = "over"]
  /\ exec' = [exec EXCEPT ![w] = Resting]
  /\ UNCHANGED <<post, slot, act, sent, undone, forgotten, overlaps, calls, faults>>

ProcessMediaUpload(w) ==
  /\ exec[w].at = "start"
  /\ Exists
  /\ exec' = [exec EXCEPT ![w].at = "item"]
  /\ UNCHANGED <<post, slot, r2, job, act, sent, undone, forgotten, overlaps,
                 calls, faults>>

\* Only an entry that is still UPLOADING is worth uploading.
Attached(i) == i \in Uploading

NextItem(w) ==
  \E i \in exec[w].todo :
    /\ exec[w].at = "item"
    /\ IF Attached(i)
         THEN /\ exec' = [exec EXCEPT ![w] = [@ EXCEPT !.at = "upload", !.i = i,
                                                   !.type = post.media[i].type]]
              /\ UNCHANGED r2
         ELSE /\ exec' = [exec EXCEPT ![w].todo = @ \ {i}]
              /\ r2' = r2 \ {i}
    /\ UNCHANGED <<post, slot, job, act, sent, undone, forgotten, overlaps,
                   calls, faults>>

\* getFile and the LinkedIn calls: a video is processed before it is available,
\* an image is available once put.
UploadTo(w, at) ==
  LET i == exec[w].i IN
  /\ exec[w].at = "upload"
  /\ i \in r2
  /\ exec' = [exec EXCEPT ![w].at = at]
  /\ UNCHANGED <<post, slot, job, act, sent, undone, forgotten, overlaps,
                 calls, faults>>

UploadImage_ErasesAtOnce(w) ==
  exec[w].type = "IMAGE" /\ UploadTo(w, "mark") /\ r2' = r2 \ {exec[w].i}
UploadImage(w) == exec[w].type = "IMAGE" /\ UploadTo(w, "mark") /\ UNCHANGED r2
UploadVideo(w) == exec[w].type = "VIDEO" /\ UploadTo(w, "wait") /\ UNCHANGED r2

\* The polling ends with AVAILABLE; PROCESSING_FAILED, a failed poll and the
\* timeout throw (AttemptFails).
WaitForMediaAvailable(w) ==
  /\ exec[w].at = "wait"
  /\ exec' = [exec EXCEPT ![w].at = "mark"]
  /\ UNCHANGED <<post, slot, r2, job, act, sent, undone, forgotten, overlaps,
                 calls, faults>>

\* updateOne on the entry, if it is still UPLOADING; __v stays.
MarkEntry_Available(i, s) ==
  post' = IF i \in Uploading THEN [post EXCEPT !.media[i].status = "AVAILABLE"] ELSE post
MarkEntry(i, s) ==
  post' = IF i \in Uploading THEN [post EXCEPT !.media[i].status = s] ELSE post

MarkReady(w) ==
  /\ exec[w].at = "mark"
  /\ MarkEntry(exec[w].i, "READY")
  /\ exec' = [exec EXCEPT ![w].at = "clean"]
  /\ UNCHANGED <<slot, r2, job, act, sent, undone, forgotten, overlaps, calls, faults>>

Clean(w) ==
  /\ exec[w].at = "clean"
  /\ r2' = r2 \ {exec[w].i}
  /\ exec' = [exec EXCEPT ![w] = [@ EXCEPT !.at = "item", !.i = NoId, !.type = "IMAGE",
                                         !.todo = exec[w].todo \ {exec[w].i}]]
  /\ UNCHANGED <<post, slot, job, act, sent, undone, forgotten, overlaps, calls, faults>>

JobCompletes(w) ==
  /\ exec[w].at = "item"
  /\ exec[w].todo = {}
  /\ job' = [job EXCEPT ![exec[w].j].st = "over"]
  /\ exec' = [exec EXCEPT ![w] = Resting]
  /\ UNCHANGED <<post, slot, r2, act, sent, undone, forgotten, overlaps, calls, faults>>

\* Something threw: the queue retries, or gives up and the failed handler begins.
\* A mark that threw may have been written.
QueueGivesUp(j)  == job[j].tries + 1 >= Attempts
IsLastAttempt_Beyond(j) == job[j].tries + 1 > Attempts
IsLastAttempt(j) == job[j].tries + 1 >= Attempts

AttemptFails(w) ==
  LET j == exec[w].j IN
  /\ \/ exec[w].at \in {"start", "item", "upload", "wait", "mark"} /\ Fault
     \/ exec[w].at = "upload" /\ exec[w].i \notin r2 /\ UNCHANGED faults
  /\ \/ UNCHANGED post
     \/ exec[w].at = "mark" /\ MarkEntry(exec[w].i, "READY")
  /\ job' = [job EXCEPT ![j] = [@ EXCEPT !.tries = job[j].tries + 1,
       !.st = IF QueueGivesUp(j) THEN "over" ELSE "waiting"]]
  /\ exec' = [exec EXCEPT ![w] =
       IF IsLastAttempt(j)
         THEN [Resting EXCEPT !.at = "fail", !.j = j, !.todo = job[j].items]
         ELSE Resting]
  /\ UNCHANGED <<slot, r2, act, sent, undone, forgotten, overlaps, calls>>

\* handleMediaUploadFailure; an update that throws is logged and passed over.
FailItem(w) ==
  \E i \in exec[w].todo :
    /\ exec[w].at = "fail"
    /\ \/ MarkEntry(i, "FAILED") /\ UNCHANGED <<forgotten, faults>>
       \/ Fault /\ forgotten' = forgotten \cup {i} /\ UNCHANGED post
    /\ exec' = [exec EXCEPT ![w].todo = @ \ {i}]
    /\ UNCHANGED <<slot, r2, job, act, sent, undone, overlaps, calls>>

FailureErases(w) ==
  /\ exec[w].at = "fail"
  /\ exec[w].todo = {}
  /\ r2' = r2 \ job[exec[w].j].items
  /\ exec' = [exec EXCEPT ![w] = Resting]
  /\ UNCHANGED <<post, slot, job, act, sent, undone, forgotten, overlaps, calls, faults>>

\* The process dies, its job keeps its lock for a while.
Crash(w) ==
  LET j == exec[w].j IN
  /\ exec[w].at # "rest"
  /\ Fault
  /\ IF exec[w].at = "fail"
       THEN forgotten' = forgotten \cup exec[w].todo /\ UNCHANGED job
       ELSE job' = [job EXCEPT ![j].st = "orphan"] /\ UNCHANGED forgotten
  /\ exec' = [exec EXCEPT ![w] = Resting]
  /\ UNCHANGED <<post, slot, r2, act, sent, undone, overlaps, calls>>

Stalled(j) ==
  /\ job[j].st = "orphan"
  /\ job' = [job EXCEPT ![j] = [@ EXCEPT !.st = "waiting", !.stalls = job[j].stalls + 1]]
  /\ UNCHANGED <<post, slot, r2, act, exec, sent, undone, forgotten, overlaps,
                 calls, faults>>

-----------------------------------------------------------------------------
Begins(c) == \/ InitiateMediaUpload(c) \/ CompleteMediaUpload(c)
             \/ UpdateMedia(c) \/ RemoveMedia(c) \/ UpdatePost(c)
             \/ SchedulePost(c) \/ PublishPost(c) \/ UnschedulePost(c) \/ DeletePost(c)

Continues(c) == \/ InitiateSaves(c) \/ CompleteSaves(c) \/ CompleteEnqueues(c)
                \/ CompleteEnqueueFails(c) \/ CompleteMarksFailed(c)
                \/ UpdateSaves(c) \/ RemoveSaves(c) \/ RemoveErases(c)
                \/ PurgeSaves(c) \/ ScheduleSaves(c) \/ PublishSends(c)
                \/ PublishSaves(c) \/ PostGone(c) \/ SaveRefused(c)

Works(w) == \/ Discard(w) \/ ProcessMediaUpload(w) \/ NextItem(w) \/ UploadImage(w)
            \/ UploadVideo(w) \/ WaitForMediaAvailable(w) \/ MarkReady(w) \/ Clean(w) \/ JobCompletes(w) \/ AttemptFails(w)
            \/ FailItem(w) \/ FailureErases(w)

Next ==
  \/ \E c \in Clients : Begins(c) \/ Continues(c) \/ RequestDies(c)
  \/ \E i \in MediaIds : PutObject(i) \/ SlotExpires(i) \/ Stalled(i)
  \/ \E w \in Workers : Works(w) \/ Crash(w) \/ \E j \in MediaIds : PickUp(w, j)

Spec == Init /\ [][Next]_vars

\* A request in progress goes on, a live worker takes and works off jobs, and
\* the queue notices a lost one.
FairSpec ==
  /\ Spec
  /\ \A c \in Clients : WF_vars(Continues(c))
  /\ \A w \in Workers : WF_vars(Works(w) \/ \E j \in MediaIds : PickUp(w, j))
  /\ \A j \in MediaIds : WF_vars(Stalled(j))

-----------------------------------------------------------------------------
(* Properties *)

\* Every stored value has its type; a job's items are filed under one of them.
TypeOK ==
  /\ post \in [status : PostStatus, rev : 0..(2 * MaxCalls), media : [MediaIds -> Entry]]
  /\ slot \in [MediaIds -> {"free", "taken", "open", "expired"}]
  /\ {r2, sent, undone, forgotten} \subseteq SUBSET MediaIds
  /\ \A i \in MediaIds :
       /\ job[i].st \in {"none", "waiting", "active", "orphan", "over"}
       /\ job[i].tries \in 0..Attempts /\ job[i].stalls \in 0..(MaxStalls + 1)
       /\ job[i].st # "none" => i \in job[i].items
  /\ \A c \in Clients : act[c].doc \in Docs /\ act[c].ids \subseteq MediaIds
  /\ \A w \in Workers : exec[w].todo \subseteq MediaIds
                        /\ (exec[w].at = "rest") = (exec[w].j = NoId)
  /\ overlaps \in BOOLEAN /\ calls \in 0..MaxCalls /\ faults \in 0..MaxFaults

\* Whatever requests race, none loses the entries another one was told it has and
\* none brings back what another one removed: an entry goes when its removal is
\* saved, its slot expired or the post is deleted, and comes with its slot.
EntriesKept ==
  [][/\ \A i \in Held(post.media) \ Held(post'.media) :
          \/ slot[i] = "expired" \/ post'.status = "DELETED"
          \/ \E c \in Clients : act[c].at = "remove" /\ i \in act[c].ids
     /\ \A i \in Held(post'.media) \ Held(post.media) : slot[i] = "taken"]_vars

\* Requests that follow one another leave no scheduled or published post with
\* media that is not READY, and LinkedIn was given exactly the media the
\* published post has; the upload worker may run at any moment.
ShareHasItsMedia ==
  ~overlaps =>
    /\ post.status \in {"SCHEDULED", "PUBLISHED"} =>
         \A i \in Held(post.media) : post.media[i].status = "READY"
    /\ post.status = "PUBLISHED" => sent = Held(post.media)

\* An entry that waits for its upload has its object: removals, retries, dead
\* workers and the failed handler never delete what a later attempt needs.
ObjectKept == Uploading \ (undone \cup forgotten) \subseteq r2

\* An upload that was confirmed settles, unless a request put the entry back or
\* everybody who would settle it died or was not heard.
UploadSettles ==
  \A i \in MediaIds :
    i \in Uploading ~> (i \notin Uploading \/ i \in undone \cup forgotten)

=============================================================================
