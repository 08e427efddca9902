--------------------------- MODULE MediaUpload_proofs ---------------------------
(***************************************************************************)
(* The safety properties of MediaUpload for any number of media, requests   *)
(* and workers.                                                             *)
(***************************************************************************)
EXTENDS MediaUpload, FiniteSetTheorems, TLAPS

-----------------------------------------------------------------------------
(* The inductive invariants                                                 *)

Deciding == {"initiate", "complete", "update", "remove", "purge"}
Sharing  == {"schedule", "publish", "published", "failed"}
Places   == {"idle", "enqueue", "unqueue", "erase"} \cup Deciding \cup Sharing
Running  == {"start", "item", "upload", "wait", "mark", "clean"}
AtHand   == {"upload", "wait", "mark", "clean"}

Acts  == [at : Places, doc : Docs, ids : SUBSET MediaIds, type : MediaType,
          next : {"idle", "schedule", "publish"}]
Execs == [at : {"rest", "fail"} \cup Running, j : MediaIds \cup {NoId},
          todo : SUBSET MediaIds, i : MediaIds \cup {NoId}, type : MediaType]
Jobs  == [st : {"none", "waiting", "active", "orphan", "over"},
          items : SUBSET MediaIds, tries : Nat, stalls : Nat]
Slots == {"free", "taken", "open", "expired"}

Types ==
  /\ post \in Docs /\ slot \in [MediaIds -> Slots]
  /\ r2 \in SUBSET MediaIds /\ sent \in SUBSET MediaIds
  /\ undone \in SUBSET MediaIds /\ forgotten \in SUBSET MediaIds
  /\ job \in [MediaIds -> Jobs] /\ act \in [Clients -> Acts] /\ exec \in [Workers -> Execs]
  /\ overlaps \in BOOLEAN /\ calls \in 0..MaxCalls /\ faults \in 0..MaxFaults

\* Slots that were handed out and saved with a post.
Handed(sl, ids) == \A i \in ids : sl[i] \in {"open", "expired"}

\* A copy m of the media and what became of it, p, while __v stood still: only the
\* worker has settled entries, and the copy lacks at most expired ones.
Agree(m, p, sl) == \A i \in MediaIds :
  \/ p[i] = m[i]
  \/ /\ m[i].status = "UPLOADING" /\ p[i].status \in {"READY", "FAILED"}
     /\ p[i].type = m[i].type
  \/ m[i] = NoMedia[i] /\ p[i].status = "PENDING" /\ sl[i] = "expired"

\* Does a request still hold the version that is stored?
Current(a, p) == p.status # "DELETED" /\ a.doc.rev = p.rev

CopyOf(a, p, sl) ==
  /\ a.doc.rev <= p.rev
  /\ a.at \in Deciding \cup {"enqueue", "unqueue"} /\ Current(a, p) =>
       Agree(a.doc.media, p.media, sl)

Copies ==
  /\ Handed(slot, Held(post.media))
  /\ post.status = "DELETED" => post.media = NoMedia
  /\ \A c \in Clients : CopyOf(act[c], post, slot)

\* What a request knows of the entries it is about.
Owns(a, p, sl, r) ==
  /\ a.at = "initiate" => \A i \in a.ids : sl[i] = "taken"
  /\ a.at = "complete" => /\ a.ids # {} /\ a.ids \subseteq Has(a.doc.media, {"PENDING"})
                          /\ Current(a, p) => a.ids \subseteq r
  /\ a.at \in {"enqueue", "unqueue"} =>
       a.ids # {} /\ a.ids \subseteq Has(a.doc.media, {"UPLOADING"})
  /\ a.at \in {"complete", "enqueue", "unqueue", "remove", "erase"} => Handed(sl, a.ids)
  /\ a.at = "erase" => a.ids \cap Held(p.media) = {}

Claims ==
  /\ \A c \in Clients : Owns(act[c], post, slot, r2)
  /\ \A c, d \in Clients :
       act[c].at = "initiate" /\ act[d].at = "initiate" /\ c # d =>
         act[c].ids \cap act[d].ids = {}

\* An entry is confirmed at most once: it is not PENDING afterwards, and either a
\* request is about to file it, or one job has it.
Confirming(a) == a.at \in {"enqueue", "unqueue"}

Confirmations ==
  /\ \A j \in MediaIds :
       /\ job[j].items \cap Has(post.media, {"PENDING"}) = {}
       /\ Handed(slot, job[j].items)
       /\ job[j].st # "none" => j \in job[j].items
  /\ \A c \in Clients :
       /\ Confirming(act[c]) => act[c].ids \cap Has(post.media, {"PENDING"}) = {}
       /\ act[c].at = "enqueue" => \A j \in MediaIds : act[c].ids \cap job[j].items = {}
  /\ \A c, d \in Clients :
       Confirming(act[c]) /\ Confirming(act[d]) /\ c # d =>
         act[c].ids \cap act[d].ids = {}

\* A job is run by one worker at a time and has attempts left while it is.
Executions ==
  /\ \A j \in MediaIds :
       /\ job[j].tries <= Attempts /\ job[j].stalls <= MaxStalls + 1
       /\ job[j].st \in {"waiting", "active", "orphan"} => job[j].tries < Attempts
       /\ job[j].st \in {"active", "orphan"} => job[j].stalls <= MaxStalls
  /\ \A w \in Workers :
       /\ exec[w].at = "rest" <=> exec[w].j = NoId
       /\ exec[w].at = "fail" => job[exec[w].j].st = "over"
       /\ exec[w].at \in Running => job[exec[w].j].st = "active"
       /\ exec[w].at # "rest" => exec[w].todo \subseteq job[exec[w].j].items
       /\ exec[w].at \in AtHand => exec[w].i \in exec[w].todo
  /\ \A v, w \in Workers :
       exec[v].at \in Running /\ exec[w].at \in Running /\ v # w => exec[v].j # exec[w].j

\* Nothing waits for these any more.
Over == MediaIds \ (Uploading \ (undone \cup forgotten))

Objects ==
  /\ Uploading \ (undone \cup forgotten) \subseteq r2
  /\ \A w \in Workers :
       /\ exec[w].at = "clean" => exec[w].i \in Over
       /\ exec[w].at = "fail" => job[exec[w].j].items \ exec[w].todo \subseteq Over

\* The media of a post are of one type.
Uniform(media) == \A i, k \in Held(media) : media[i].type = media[k].type

Kinds ==
  /\ Uniform(post.media)
  /\ \A c \in Clients : act[c].at = "initiate" => Held(act[c].doc.media) = Of(act[c].doc.media, act[c].type)

\* Where the one request is that is under way while none overlaps another.
Stands(a, p, st) ==
  /\ a.at # "idle" => p.status # "PUBLISHED"
  /\ a.at \in Deciding \cup {"enqueue", "unqueue", "erase"} => p.status # "SCHEDULED"
  /\ a.at # "idle" => a.doc.status \in {"DRAFT", "SCHEDULED", "FAILED"}
  /\ a.at \in Sharing /\ p.status # "DELETED" =>
       Publishable(p.media) /\ a.doc.media = p.media
  /\ a.at = "published" /\ p.status # "DELETED" => st = Held(p.media)

Shares == ~overlaps =>
  /\ \A c, d \in Clients : act[c].at # "idle" /\ act[d].at # "idle" => c = d
  /\ \A c \in Clients : Stands(act[c], post, sent)
  /\ post.status \in {"SCHEDULED", "PUBLISHED"} => Publishable(post.media)
  /\ post.status = "PUBLISHED" => sent = Held(post.media)

\* A request saves at most twice.
Twice == {c \in Clients : act[c].at \in Deciding}
Once  == {c \in Clients : act[c].at \in {"enqueue", "unqueue"}}

Revs ==
  /\ IsFiniteSet(Twice) /\ IsFiniteSet(Once)
  /\ post.rev + 2 * Cardinality(Twice) + Cardinality(Once) <= 2 * calls

MediaInv ==
  Types /\ Copies /\ Claims /\ Confirmations /\ Executions /\ Objects /\ Kinds /\ Shares /\ Revs

-----------------------------------------------------------------------------
(* The building blocks                                                      *)

Media == [MediaIds -> Entry]

\* What an entry of a well-typed array is.
LEMMA EntryTyped ==
  ASSUME NEW m \in Media, NEW i \in MediaIds
  PROVE  /\ m[i] \in Entry /\ m[i].status \in MediaStatus /\ m[i].type \in MediaType
         /\ m[i] = [status |-> m[i].status, type |-> m[i].type]
  BY DEF Media, Entry

LEMMA NoMediaTyped ==
  /\ NoMedia \in Media
  /\ \A i \in MediaIds : NoMedia[i].status = "NONE" /\ NoMedia[i].type = "IMAGE"
  BY DEF Media, NoMedia, Entry, MediaStatus, MediaType

\* Set changes the status of the entries named, and nothing else.
LEMMA SetTyped ==
  ASSUME NEW m \in Media, NEW ids \in SUBSET MediaIds, NEW s \in MediaStatus
  PROVE  /\ Set(m, ids, s) \in Media
         /\ \A i \in MediaIds :
              /\ i \in ids => Set(m, ids, s)[i].status = s
              /\ i \notin ids => Set(m, ids, s)[i] = m[i]
              /\ Set(m, ids, s)[i].type = m[i].type
  BY EntryTyped DEF Set, Media, Entry

\* Drop leaves the other entries alone.
LEMMA DropTyped ==
  ASSUME NEW m \in Media, NEW ids
  PROVE  /\ Drop(m, ids) \in Media
         /\ \A i \in MediaIds :
              Drop(m, ids)[i] = IF i \in ids THEN NoMedia[i] ELSE m[i]
  BY EntryTyped, NoMediaTyped DEF Drop, Media

\* The purge drops the expired entries that wait for their file.
LEMMA PurgeTyped ==
  ASSUME NEW m \in Media
  PROVE  /\ PurgeExpiredPendingMedia(m) \in Media
         /\ \A i \in MediaIds :
              \/ PurgeExpiredPendingMedia(m)[i] = m[i]
              \/ /\ PurgeExpiredPendingMedia(m)[i] = NoMedia[i]
                 /\ m[i].status = "PENDING" /\ slot[i] = "expired"
  BY DropTyped DEF PurgeExpiredPendingMedia, Has

\* Has and Held name the entries by their status.
LEMMA HasMeaning ==
  ASSUME NEW m \in Media
  PROVE  /\ \A s, i : i \in Has(m, s) <=> i \in MediaIds /\ m[i].status \in s
         /\ \A i : i \in Held(m) <=> i \in MediaIds /\ m[i].status # "NONE"
         /\ \A t, i : i \in Of(m, t) <=> i \in Held(m) /\ m[i].type = t
         /\ Held(m) \in SUBSET MediaIds
  BY EntryTyped DEF Has, Held, Of

\* A document, field by field.
LEMMA DocTyped ==
  ASSUME NEW d \in Docs
  PROVE  /\ d.status \in PostStatus /\ d.rev \in Nat /\ d.media \in Media
         /\ d = [status |-> d.status, rev |-> d.rev, media |-> d.media]
  BY DEF Docs, Media

\* A document of its fields.
LEMMA DocMade ==
  ASSUME NEW s \in PostStatus, NEW r \in Nat, NEW m \in Media
  PROVE  [status |-> s, rev |-> r, media |-> m] \in Docs
  BY DEF Docs, Media

LEMMA ReturnTyped ==
  ASSUME NEW s \in PostStatus
  PROVE  /\ ReturnFailedPostToDraft(s) \in PostStatus
         /\ \/ ReturnFailedPostToDraft(s) = s
            \/ s = "FAILED" /\ ReturnFailedPostToDraft(s) = "DRAFT"
  BY DEF ReturnFailedPostToDraft, PostStatus

LEMMA IdleTyped == Idle \in Acts /\ Idle.at = "idle" /\ Idle.doc.rev = 0
  BY NoMediaTyped DEF Idle, Acts, Fresh, Docs, Media, PostStatus, MediaType, Places

LEMMA RestingTyped ==
  /\ Resting \in Execs /\ Resting.at = "rest" /\ Resting.j = NoId /\ Resting.todo = {}
  /\ Resting.i = NoId /\ Resting.type = "IMAGE"
  BY DEF Resting, Execs, MediaType

LEMMA NoJobTyped == NoJob \in Jobs /\ NoJob.st = "none" /\ NoJob.items = {}
  BY DEF NoJob, Jobs

\* A request, a job and an execution, field by field.
LEMMA ActTyped ==
  ASSUME NEW a \in Acts
  PROVE  /\ a.at \in Places /\ a.doc \in Docs /\ a.ids \in SUBSET MediaIds
         /\ a.type \in MediaType /\ a.next \in {"idle", "schedule", "publish"}
         /\ a = [at |-> a.at, doc |-> a.doc, ids |-> a.ids, type |-> a.type, next |-> a.next]
  BY DEF Acts

-----------------------------------------------------------------------------
(* What each step does to the record it changes                             *)

\* A request that ends.
LEMMA DoneMade ==
  ASSUME Types, NEW c \in Clients, Done(c)
  PROVE  \E a \in Acts : act' = [act EXCEPT ![c] = a] /\ a = Idle
  BY IdleTyped DEF Done

\* A request that saves the array it loaded.
LEMMA ReplaceMade ==
  ASSUME Types, NEW d \in Docs, NEW s \in PostStatus, NEW m \in Media,
         CanReplace(d), Replace(d, s, m)
  PROVE  /\ post' \in Docs /\ post'.rev = post.rev + 1 /\ post'.media = m
         /\ post'.status = IF s # d.status THEN s ELSE post.status
         /\ d.rev = post.rev /\ post.status # "DELETED"
         /\ undone' \in SUBSET MediaIds /\ undone \subseteq undone'
         /\ \A i \in MediaIds :
              m[i].status = "UPLOADING" /\ post.media[i].status \in {"READY", "FAILED"}
                => i \in undone'
<1> DEFINE st == IF s # d.status THEN s ELSE post.status
<1>1. post \in Docs /\ post.status \in PostStatus /\ post.rev \in Nat /\ post.media \in Media
  BY DocTyped DEF Types
<1>2. post' = [status |-> st, rev |-> post.rev + 1, media |-> m]
  BY DEF Replace
<1>3. st \in PostStatus
  BY <1>1
<1> HIDE DEF st
<1>4. post' \in Docs
  <2>1. post.rev + 1 \in Nat
    BY <1>1
  <2> QED
    BY <1>2, <1>3, <2>1, DocMade
<1>5. undone' = undone \cup (Has(post.media, {"READY", "FAILED"}) \cap Has(m, {"UPLOADING"}))
  BY DEF Replace
<1>6. undone' \in SUBSET MediaIds
  BY <1>1, <1>5, HasMeaning DEF Types
<1>7. \A i \in MediaIds :
        m[i].status = "UPLOADING" /\ post.media[i].status \in {"READY", "FAILED"}
          => i \in undone'
  BY <1>1, <1>5, HasMeaning
<1> QED
  BY <1>2, <1>4, <1>5, <1>6, <1>7 DEF CanReplace, Exists, st

\* A request that saves the status alone.
LEMMA StatusMade ==
  ASSUME Types, NEW d \in Docs, NEW s \in PostStatus, SaveStatus(d, s)
  PROVE  /\ post' \in Docs /\ post'.rev = post.rev /\ post'.media = post.media
         /\ post'.status = IF s # d.status THEN s ELSE post.status
         /\ post.status # "DELETED"
<1>1. post = [status |-> post.status, rev |-> post.rev, media |-> post.media]
      /\ post.status \in PostStatus /\ post.rev \in Nat /\ post.media \in Media
  BY DocTyped DEF Types
<1>2. CASE s # d.status
  <2>1. post' = [status |-> s, rev |-> post.rev, media |-> post.media]
    BY <1>1, <1>2 DEF SaveStatus
  <2> QED
    BY <1>1, <1>2, <2>1, DocMade DEF SaveStatus, Exists
<1>3. CASE s = d.status
  BY <1>1, <1>3 DEF SaveStatus, Exists, Types
<1> QED
  BY <1>2, <1>3

\* The worker settles an entry.
LEMMA MarkMade ==
  ASSUME Types, NEW i \in MediaIds, NEW s \in {"READY", "FAILED"}, MarkEntry(i, s)
  PROVE  /\ post' \in Docs /\ post'.rev = post.rev /\ post'.status = post.status
         /\ post'.media[i].status # "UPLOADING"
         /\ \A k \in MediaIds :
              \/ post'.media[k] = post.media[k]
              \/ /\ k = i /\ post.media[k].status = "UPLOADING"
                 /\ post'.media[k].status = s /\ post'.media[k].type = post.media[k].type
<1>1. post = [status |-> post.status, rev |-> post.rev, media |-> post.media]
      /\ post.status \in PostStatus /\ post.rev \in Nat /\ post.media \in Media
  BY DocTyped DEF Types
<1>2. CASE i \in Uploading
  <2> DEFINE e == [post.media[i] EXCEPT !.status = s]
             m == [post.media EXCEPT ![i] = e]
  <2>1. e = [status |-> s, type |-> post.media[i].type]
    BY <1>1 DEF Media, Entry
  <2>2. e \in Entry
    BY <1>1, <2>1, EntryTyped DEF Entry, MediaStatus
  <2>3. m \in Media
    BY <1>1, <2>2 DEF Media
  <2>4. post' = [status |-> post.status, rev |-> post.rev, media |-> m]
    BY <1>1, <1>2 DEF MarkEntry
  <2>5. post' \in Docs
    BY <1>1, <2>3, <2>4, DocMade
  <2>6. post.media[i].status = "UPLOADING"
    BY <1>1, <1>2, HasMeaning DEF Uploading
  <2>7. \A k \in MediaIds : k # i => m[k] = post.media[k]
    BY <1>1 DEF Media
  <2>8. m[i] = e
    BY <1>1 DEF Media
  <2> HIDE DEF m, e
  <2> QED
    BY <2>1, <2>4, <2>5, <2>6, <2>7, <2>8
<1>3. CASE i \notin Uploading
  <2>1. post' = post
    BY <1>3 DEF MarkEntry
  <2>2. post.media[i].status # "UPLOADING"
    BY <1>1, <1>3, HasMeaning DEF Uploading
  <2> QED
    BY <2>1, <2>2 DEF Types
<1> QED
  BY <1>2, <1>3

-----------------------------------------------------------------------------
(* The requests that load the post                                          *)

\* What request c, now a, has loaded.
LoadsTo(c, a) ==
  /\ act' = [act EXCEPT ![c] = a]
  /\ act[c].at = "idle" /\ calls < MaxCalls /\ calls' = calls + 1
  /\ overlaps' = (overlaps \/ \E d \in Clients : act[d].at # "idle")
  /\ a.doc.status = post.status /\ a.doc.rev = post.rev
  /\ UNCHANGED <<post, r2, job, exec, sent, undone, forgotten, faults>>

Loads(c, a) ==
  /\ LoadsTo(c, a)
  /\ \/ /\ a.at = "initiate" /\ Editable
        /\ a.doc.media = PurgeExpiredPendingMedia(post.media)
        /\ Held(a.doc.media) = Of(a.doc.media, a.type)
        /\ \A i \in a.ids : slot[i] = "free"
        /\ slot' = [i \in MediaIds |-> IF i \in a.ids THEN "taken" ELSE slot[i]]
     \/ /\ a.at \in {"complete", "update", "remove"} /\ Editable
        /\ a.doc.media = post.media /\ UNCHANGED slot
        /\ a.at = "complete" => /\ a.ids # {} /\ a.ids \subseteq Has(post.media, {"PENDING"})
                                /\ a.ids \subseteq r2
        /\ a.at = "remove" => a.ids \subseteq Held(post.media)
     \/ /\ a.at = "purge" /\ post.status \in {"DRAFT", "SCHEDULED", "FAILED"}
        /\ a.doc.media = PurgeExpiredPendingMedia(post.media)
        /\ a.doc.media # post.media /\ UNCHANGED slot
     \/ /\ a.at \in {"schedule", "publish"} /\ post.status \in {"DRAFT", "SCHEDULED", "FAILED"}
        /\ a.doc.media = post.media /\ Publishable(post.media) /\ UNCHANGED slot

LEMMA LoadsToMade ==
  ASSUME Types, NEW c \in Clients, NEW at \in Places, NEW m \in Media,
         NEW ids \in SUBSET MediaIds, NEW t \in MediaType,
         NEW n \in {"idle", "schedule", "publish"}, Load(c, at, m, ids, t, n)
  PROVE  \E a \in Acts :
           LoadsTo(c, a) /\ a.at = at /\ a.doc.media = m /\ a.ids = ids /\ a.type = t
<1> DEFINE d == [post EXCEPT !.media = m]
           a == [at |-> at, doc |-> d, ids |-> ids, type |-> t, next |-> n]
<1>1. d = [status |-> post.status, rev |-> post.rev, media |-> m]
  BY DEF Types, Docs
<1>2. d \in Docs
  BY <1>1, DocTyped, DocMade DEF Types
<1>3. a \in Acts
  BY <1>2 DEF Acts
<1>4. LoadsTo(c, a)
  BY <1>1 DEF Load, LoadsTo
<1> QED
  BY <1>1, <1>3, <1>4

LEMMA InitiateLoads ==
  ASSUME Types, NEW c \in Clients, InitiateMediaUpload(c)
  PROVE  \E a \in Acts : Loads(c, a)
<1> DEFINE m == PurgeExpiredPendingMedia(post.media)
<1>1. m \in Media
  BY PurgeTyped, DocTyped DEF Types
<1>2. PICK ids \in SUBSET {i \in MediaIds : slot[i] = "free"}, t \in MediaType :
        /\ Editable /\ ValidateMediaFiles(m, t, Cardinality(ids))
        /\ slot' = [i \in MediaIds |-> IF i \in ids THEN "taken" ELSE slot[i]]
        /\ Load(c, "initiate", m, ids, t, "idle")
  BY DEF InitiateMediaUpload
<1> HIDE DEF m
<1>3. PICK a \in Acts :
        LoadsTo(c, a) /\ a.at = "initiate" /\ a.doc.media = m /\ a.ids = ids /\ a.type = t
  BY <1>1, <1>2, LoadsToMade DEF Places, Deciding
<1>4. Loads(c, a)
  BY <1>2, <1>3 DEF Loads, ValidateMediaFiles, m
<1> QED
  BY <1>4

LEMMA CompleteLoads ==
  ASSUME Types, NEW c \in Clients, CompleteMediaUpload(c)
  PROVE  \E a \in Acts : Loads(c, a)
<1>1. post.media \in Media
  BY DocTyped DEF Types
<1>2. PICK ids \in SUBSET Has(post.media, {"PENDING"}) :
        /\ ids # {} /\ Editable /\ ids \subseteq r2
        /\ Load(c, "complete", post.media, ids, "IMAGE", "idle") /\ UNCHANGED slot
  BY DEF CompleteMediaUpload
<1>3. ids \in SUBSET MediaIds
  BY <1>1, HasMeaning
<1>4. PICK a \in Acts :
        LoadsTo(c, a) /\ a.at = "complete" /\ a.doc.media = post.media /\ a.ids = ids
  BY <1>1, <1>2, <1>3, LoadsToMade DEF Places, Deciding, MediaType
<1>5. Loads(c, a)
  BY <1>2, <1>4 DEF Loads
<1> QED
  BY <1>5

LEMMA UpdateLoads ==
  ASSUME Types, NEW c \in Clients, UpdateMedia(c)
  PROVE  \E a \in Acts : Loads(c, a)
<1>1. post.media \in Media
  BY DocTyped DEF Types
<1>2. PICK a \in Acts : LoadsTo(c, a) /\ a.at = "update" /\ a.doc.media = post.media
  BY <1>1, LoadsToMade DEF UpdateMedia, Places, Deciding, MediaType
<1>3. Loads(c, a)
  BY <1>2 DEF Loads, UpdateMedia
<1> QED
  BY <1>3

LEMMA RemoveLoads ==
  ASSUME Types, NEW c \in Clients, RemoveMedia(c)
  PROVE  \E a \in Acts : Loads(c, a)
<1>1. post.media \in Media
  BY DocTyped DEF Types
<1>2. PICK i \in Held(post.media) :
        Editable /\ Load(c, "remove", post.media, {i}, "IMAGE", "idle") /\ UNCHANGED slot
  BY DEF RemoveMedia
<1>3. {i} \in SUBSET MediaIds
  BY <1>1, HasMeaning
<1>4. PICK a \in Acts :
        LoadsTo(c, a) /\ a.at = "remove" /\ a.doc.media = post.media /\ a.ids = {i}
  BY <1>1, <1>2, <1>3, LoadsToMade DEF Places, Deciding, MediaType
<1>5. Loads(c, a)
  BY <1>2, <1>4 DEF Loads
<1> QED
  BY <1>5

LEMMA AssertLoads ==
  ASSUME Types, NEW c \in Clients, NEW n \in {"schedule", "publish"}, AssertMediaReady(c, n)
  PROVE  \E a \in Acts : Loads(c, a)
<1> DEFINE m == PurgeExpiredPendingMedia(post.media)
<1>1. m \in Media
  BY PurgeTyped, DocTyped DEF Types
<1>2. CASE m # post.media
  <2>1. Load(c, "purge", m, {}, "IMAGE", n) /\ UNCHANGED slot
        /\ post.status \in {"DRAFT", "SCHEDULED", "FAILED"}
    BY <1>2 DEF AssertMediaReady
  <2> HIDE DEF m
  <2>2. PICK a \in Acts : LoadsTo(c, a) /\ a.at = "purge" /\ a.doc.media = m
    BY <1>1, <2>1, LoadsToMade DEF Places, Deciding, MediaType
  <2>3. Loads(c, a)
    BY <1>2, <2>1, <2>2 DEF Loads, m
  <2> QED
    BY <2>3
<1>3. CASE m = post.media
  <2>1. Load(c, n, post.media, {}, "IMAGE", "idle") /\ UNCHANGED slot
        /\ post.status \in {"DRAFT", "SCHEDULED", "FAILED"} /\ Publishable(post.media)
    BY <1>3 DEF AssertMediaReady
  <2>2. post.media \in Media
    BY <1>1, <1>3
  <2>3. PICK a \in Acts : LoadsTo(c, a) /\ a.at = n /\ a.doc.media = post.media
    BY <2>1, <2>2, LoadsToMade DEF Places, Sharing, MediaType
  <2>4. Loads(c, a)
    BY <2>1, <2>3 DEF Loads
  <2> QED
    BY <2>4
<1> QED
  BY <1>2, <1>3

-----------------------------------------------------------------------------
(* The requests that save the array                                         *)

\* What o makes of the array it loaded: entries of its own, and the expired ones
\* and those it removes are gone.
Merged(o, m, sl) == \A i \in MediaIds :
  \/ m[i] = o.doc.media[i]
  \/ i \in o.ids /\ o.at = "initiate" /\ m[i] = [status |-> "PENDING", type |-> o.type]
  \/ /\ i \in o.ids /\ o.at = "complete" /\ m[i].status = "UPLOADING"
     /\ m[i].type = o.doc.media[i].type
  \/ /\ i \in o.ids /\ o.at = "unqueue" /\ m[i].status = "FAILED"
     /\ m[i].type = o.doc.media[i].type
  \/ m[i] = NoMedia[i] /\ o.at = "remove" /\ i \in o.ids
  \/ m[i] = NoMedia[i] /\ o.doc.media[i].status = "PENDING" /\ sl[i] = "expired"

\* Request c saves what it has and becomes a.
SavesTo(c, a) ==
  LET o == act[c] IN
  /\ act' = [act EXCEPT ![c] = a]
  /\ post' \in Docs /\ post'.rev = post.rev + 1
  /\ o.doc.rev = post.rev /\ post.status # "DELETED"
  /\ post'.status = post.status \/ post'.status = "DRAFT"
  /\ undone' \in SUBSET MediaIds /\ undone \subseteq undone'
  /\ \A i \in MediaIds :
       post'.media[i].status = "UPLOADING" /\ post.media[i].status \in {"READY", "FAILED"}
         => i \in undone'
  /\ Merged(o, post'.media, slot)
  /\ UNCHANGED <<r2, job, exec, sent, forgotten, overlaps, calls, faults>>

Saves(c, a) ==
  LET o == act[c] IN
  /\ SavesTo(c, a)
  /\ \/ /\ o.at = "initiate" /\ a = Idle
        /\ slot' = [i \in MediaIds |-> IF i \in o.ids THEN "open" ELSE slot[i]]
        /\ \A i \in o.ids : post'.media[i].type = o.type
     \/ /\ o.at = "complete" /\ a.at = "enqueue" /\ a.ids = o.ids
        /\ a.doc.media = post'.media /\ a.doc.rev = post'.rev
        /\ a.doc.status = o.doc.status \/ a.doc.status = "DRAFT"
        /\ \A i \in o.ids : post'.media[i].status = "UPLOADING"
        /\ UNCHANGED slot
     \/ o.at \in {"unqueue", "update"} /\ a = Idle /\ UNCHANGED slot
     \/ /\ o.at = "remove" /\ UNCHANGED slot
        /\ \A i \in o.ids : post'.media[i] = NoMedia[i]
        /\ \/ a = Idle
           \/ a.at = "erase" /\ a.ids = o.ids /\ a.doc = o.doc
     \/ /\ o.at = "purge" /\ UNCHANGED slot /\ post'.media = o.doc.media
        /\ \/ a = Idle
           \/ /\ a.at = o.next /\ a.doc.media = post'.media /\ a.doc.rev = post'.rev
              /\ a.doc.status = o.doc.status /\ Publishable(post'.media)

\* One proof for the six of them: what is saved, and what is left of it.
LEMMA SavesToMade ==
  ASSUME Types, NEW c \in Clients, NEW a \in Acts, NEW s, NEW m \in Media,
         s = act[c].doc.status \/ s = ReturnFailedPostToDraft(act[c].doc.status),
         CanReplace(act[c].doc), Replace(act[c].doc, s, m), Merged(act[c], m, slot),
         act' = [act EXCEPT ![c] = a],
         UNCHANGED <<r2, job, exec, sent, forgotten, overlaps, calls, faults>>
  PROVE  SavesTo(c, a) /\ post'.media = m
<1>1. act[c] \in Acts
  BY DEF Types
<1>2. act[c].doc \in Docs /\ act[c].doc.status \in PostStatus
  BY <1>1, ActTyped, DocTyped
<1>3. s \in PostStatus /\ (s = act[c].doc.status \/ s = "DRAFT")
  BY <1>2, ReturnTyped
<1>4. /\ post' \in Docs /\ post'.rev = post.rev + 1 /\ post'.media = m
      /\ post'.status = IF s # act[c].doc.status THEN s ELSE post.status
      /\ act[c].doc.rev = post.rev /\ post.status # "DELETED"
      /\ undone' \in SUBSET MediaIds /\ undone \subseteq undone'
      /\ \A i \in MediaIds :
           m[i].status = "UPLOADING" /\ post.media[i].status \in {"READY", "FAILED"}
             => i \in undone'
  BY <1>2, <1>3, ReplaceMade
<1> QED
  BY <1>3, <1>4 DEF SavesTo

\* What a request that saves knows of itself.
LEMMA ActKnown ==
  ASSUME Types, NEW c \in Clients
  PROVE  /\ act[c] \in Acts /\ act[c].doc \in Docs /\ act[c].doc.media \in Media
         /\ act[c].ids \in SUBSET MediaIds /\ act[c].type \in MediaType
         /\ act[c].next \in {"idle", "schedule", "publish"}
         /\ act[c].doc.status \in PostStatus /\ act[c].doc.rev \in Nat
         /\ act[c].at \in Places
  BY ActTyped, DocTyped DEF Types

\* A request that goes on, with another document or another __v of its document.
Moved(a, p)      == [a EXCEPT !.at = p]
Given(a, p, d)   == [a EXCEPT !.at = p, !.doc = d]
Revised(a, p, r) == [a EXCEPT !.at = p, !.doc.rev = r]

LEMMA ActMoved ==
  ASSUME NEW a \in Acts, NEW p \in Places
  PROVE  /\ Moved(a, p) \in Acts /\ Moved(a, p).at = p /\ Moved(a, p).ids = a.ids
         /\ Moved(a, p).doc = a.doc
  BY DEF Acts, Moved

LEMMA ActGiven ==
  ASSUME NEW a \in Acts, NEW p \in Places, NEW d \in Docs
  PROVE  /\ Given(a, p, d) \in Acts /\ Given(a, p, d).at = p /\ Given(a, p, d).ids = a.ids
         /\ Given(a, p, d).doc = d
  BY DEF Acts, Given

LEMMA ActRevised ==
  ASSUME NEW a \in Acts, NEW p \in Places, NEW r \in Nat
  PROVE  /\ Revised(a, p, r) \in Acts /\ Revised(a, p, r).at = p
         /\ Revised(a, p, r).doc.rev = r /\ Revised(a, p, r).doc.status = a.doc.status
         /\ Revised(a, p, r).doc.media = a.doc.media
  BY DEF Acts, Docs, Revised

LEMMA InitiateSaved ==
  ASSUME Types, NEW c \in Clients, InitiateSaves(c)
  PROVE  \E a \in Acts : Saves(c, a)
<1> DEFINE m == [i \in MediaIds |->
      IF i \in act[c].ids THEN [status |-> "PENDING", type |-> act[c].type]
                           ELSE act[c].doc.media[i]]
<1>1. m \in Media
  BY ActKnown, EntryTyped DEF Media, Entry, MediaStatus
<1>2. Merged(act[c], m, slot) /\ \A i \in act[c].ids : m[i].type = act[c].type
  BY ActKnown DEF Merged, InitiateSaves
<1>3. Replace(act[c].doc, ReturnFailedPostToDraft(act[c].doc.status), m)
  BY DEF InitiateSaves
<1> HIDE DEF m
<1>4. SavesTo(c, Idle) /\ post'.media = m
  BY <1>1, <1>2, <1>3, SavesToMade, IdleTyped DEF InitiateSaves, Done
<1>5. Saves(c, Idle)
  BY <1>2, <1>4 DEF Saves, InitiateSaves
<1> QED
  BY <1>5, IdleTyped

LEMMA CompleteSaved ==
  ASSUME Types, NEW c \in Clients, CompleteSaves(c)
  PROVE  \E a \in Acts : Saves(c, a)
<1> DEFINE o == act[c]
           n == Set(o.doc.media, o.ids, "UPLOADING")
           m == PurgeExpiredPendingMedia(n)
           s == ReturnFailedPostToDraft(o.doc.status)
           d == [status |-> s, rev |-> post.rev + 1, media |-> m]
           a == Given(o, "enqueue", d)
<1>1. n \in Media /\ \A i \in MediaIds :
        /\ i \in o.ids => n[i].status = "UPLOADING"
        /\ i \notin o.ids => n[i] = o.doc.media[i]
        /\ n[i].type = o.doc.media[i].type
  BY ActKnown, SetTyped DEF MediaStatus
<1> HIDE DEF n
<1>2. m \in Media /\ \A i \in MediaIds :
        \/ m[i] = n[i]
        \/ m[i] = NoMedia[i] /\ n[i].status = "PENDING" /\ slot[i] = "expired"
  BY <1>1, PurgeTyped
<1>3. Replace(o.doc, s, m) /\ CanReplace(o.doc) /\ o.at = "complete"
  BY DEF CompleteSaves, n
<1>4. act' = [act EXCEPT ![c] = a]
  BY DEF CompleteSaves, n, Given
<1>5. UNCHANGED <<slot, r2, job, exec, sent, forgotten, overlaps, calls, faults>>
  BY DEF CompleteSaves
<1> HIDE DEF m
<1>6. s \in PostStatus /\ (s = o.doc.status \/ s = "DRAFT") /\ post.rev + 1 \in Nat
  BY ActKnown, ReturnTyped, DocTyped DEF Types
<1>7. d \in Docs
  BY <1>2, <1>6, DocMade
<1>8. a \in Acts /\ a.at = "enqueue" /\ a.ids = o.ids /\ a.doc = d
  <2> HIDE DEF d
  <2>1. "enqueue" \in Places
    BY DEF Places
  <2>2. o \in Acts
    BY ActKnown
  <2> QED
    BY <1>7, <2>1, <2>2, ActGiven
<1> HIDE DEF a
<1>10. Merged(o, m, slot)
  BY <1>1, <1>2, <1>3 DEF Merged
<1>11. SavesTo(c, a) /\ post'.media = m
  BY <1>2, <1>3, <1>4, <1>5, <1>8, <1>10, SavesToMade
<1>12. \A i \in o.ids : m[i].status = "UPLOADING"
  BY <1>1, <1>2, ActKnown
<1>13. Saves(c, a)
  BY <1>3, <1>5, <1>6, <1>8, <1>11, <1>12 DEF Saves, SavesTo
<1> QED
  BY <1>8, <1>13

LEMMA MarkedSaved ==
  ASSUME Types, NEW c \in Clients, CompleteMarksFailed(c)
  PROVE  \E a \in Acts : Saves(c, a)
<1> DEFINE m == Set(act[c].doc.media, act[c].ids, "FAILED")
<1>1. m \in Media /\ Merged(act[c], m, slot)
  BY ActKnown, SetTyped DEF MediaStatus, Merged, CompleteMarksFailed
<1>2. Replace(act[c].doc, act[c].doc.status, m)
  BY DEF CompleteMarksFailed
<1> HIDE DEF m
<1>3. SavesTo(c, Idle)
  BY <1>1, <1>2, SavesToMade, IdleTyped DEF CompleteMarksFailed, Done
<1> QED
  BY <1>3, IdleTyped DEF Saves, CompleteMarksFailed

LEMMA UpdateSaved ==
  ASSUME Types, NEW c \in Clients, UpdateSaves(c)
  PROVE  \E a \in Acts : Saves(c, a)
<1>1. Merged(act[c], act[c].doc.media, slot)
  BY DEF Merged
<1>2. SavesTo(c, Idle)
  BY <1>1, ActKnown, SavesToMade, IdleTyped DEF UpdateSaves, Done
<1> QED
  BY <1>2, IdleTyped DEF Saves, UpdateSaves

LEMMA RemoveSaved ==
  ASSUME Types, NEW c \in Clients, RemoveSaves(c)
  PROVE  \E a \in Acts : Saves(c, a)
<1> DEFINE o == act[c]
           m == Drop(o.doc.media, o.ids)
           b == Moved(o, "erase")
<1>1. m \in Media /\ Merged(o, m, slot) /\ \A i \in o.ids : m[i] = NoMedia[i]
  BY ActKnown, DropTyped DEF Merged, RemoveSaves
<1>2. Replace(o.doc, ReturnFailedPostToDraft(o.doc.status), m)
  BY DEF RemoveSaves
<1>3. b \in Acts /\ b.at = "erase" /\ b.ids = o.ids /\ b.doc = o.doc
  BY ActKnown, ActMoved DEF Places
<1>4. act' = [act EXCEPT ![c] = Idle] \/ act' = [act EXCEPT ![c] = b]
  BY DEF RemoveSaves, Done, Moved
<1> HIDE DEF m, b
<1>5. CASE act' = [act EXCEPT ![c] = Idle]
  <2>1. SavesTo(c, Idle) /\ post'.media = m
    BY <1>1, <1>2, <1>5, SavesToMade, IdleTyped DEF RemoveSaves
  <2> QED
    BY <1>1, <2>1, IdleTyped DEF Saves, RemoveSaves
<1>6. CASE act' = [act EXCEPT ![c] = b]
  <2>1. SavesTo(c, b) /\ post'.media = m
    BY <1>1, <1>2, <1>3, <1>6, SavesToMade DEF RemoveSaves
  <2>2. Saves(c, b)
    BY <1>1, <1>3, <2>1 DEF Saves, RemoveSaves
  <2> QED
    BY <1>3, <2>2
<1> QED
  BY <1>4, <1>5, <1>6

LEMMA PurgeSaved ==
  ASSUME Types, NEW c \in Clients, PurgeSaves(c)
  PROVE  \E a \in Acts : Saves(c, a)
<1> DEFINE o == act[c]
           b == Revised(o, o.next, post.rev + 1)
<1>1. Merged(o, o.doc.media, slot)
  BY DEF Merged
<1>2. post.rev + 1 \in Nat
  BY DocTyped DEF Types
<1>3. /\ b \in Acts /\ b.at = o.next /\ b.doc.rev = post.rev + 1
      /\ b.doc.status = o.doc.status /\ b.doc.media = o.doc.media
  <2>1. o.next \in Places /\ o \in Acts
    BY ActKnown DEF Places, Sharing
  <2> HIDE DEF o
  <2> QED
    BY <1>2, <2>1, ActRevised
<1>4. \/ act' = [act EXCEPT ![c] = Idle]
      \/ act' = [act EXCEPT ![c] = b] /\ Publishable(o.doc.media)
  BY DEF PurgeSaves, Done, Revised
<1> HIDE DEF b
<1>5. CASE act' = [act EXCEPT ![c] = Idle]
  <2>1. SavesTo(c, Idle) /\ post'.media = o.doc.media
    BY <1>1, <1>5, SavesToMade, ActKnown, IdleTyped DEF PurgeSaves
  <2> QED
    BY <2>1, IdleTyped DEF Saves, PurgeSaves
<1>6. CASE act' = [act EXCEPT ![c] = b] /\ Publishable(o.doc.media)
  <2>1. /\ CanReplace(o.doc) /\ Replace(o.doc, o.doc.status, o.doc.media)
        /\ UNCHANGED <<r2, job, exec, sent, forgotten, overlaps, calls, faults>>
    BY DEF PurgeSaves
  <2>2. o.doc.media \in Media
    BY ActKnown
  <2>3. SavesTo(c, b) /\ post'.media = o.doc.media
    BY <1>1, <1>3, <1>6, <2>1, <2>2, SavesToMade
  <2>4. Saves(c, b)
    BY <1>3, <1>6, <2>3 DEF Saves, SavesTo, PurgeSaves
  <2> QED
    BY <1>3, <2>4
<1> QED
  BY <1>4, <1>5, <1>6

-----------------------------------------------------------------------------
(* The upload worker                                                        *)

\* A job that moves on, with one more attempt or stall, and an execution that does.
Put(x, st)       == [x EXCEPT !.st = st]
Tried(x, st, n)  == [x EXCEPT !.tries = n, !.st = st]
Waiting(x, n)    == [x EXCEPT !.st = "waiting", !.stalls = n]
Goes(e, p)       == [e EXCEPT !.at = p]
Takes(e, i, t)   == [e EXCEPT !.at = "upload", !.i = i, !.type = t]
Leaves(e, k)     == [e EXCEPT !.todo = k]
Cleaned(e, k)    == [e EXCEPT !.at = "item", !.i = NoId, !.type = "IMAGE", !.todo = k]
On(p, j, k)      == [Resting EXCEPT !.at = p, !.j = j, !.todo = k]

Stations == {"rest", "fail"} \cup Running

JobStates == {"none", "waiting", "active", "orphan", "over"}

LEMMA JobPut ==
  ASSUME NEW x \in Jobs, NEW st \in JobStates
  PROVE  /\ Put(x, st) \in Jobs /\ Put(x, st).st = st /\ Put(x, st).items = x.items
         /\ Put(x, st).tries = x.tries /\ Put(x, st).stalls = x.stalls
  BY DEF Jobs, JobStates, Put

LEMMA JobTried ==
  ASSUME NEW x \in Jobs, NEW st \in JobStates, NEW n \in Nat
  PROVE  /\ Tried(x, st, n) \in Jobs /\ Tried(x, st, n).st = st
         /\ Tried(x, st, n).items = x.items /\ Tried(x, st, n).tries = n
         /\ Tried(x, st, n).stalls = x.stalls
  BY DEF Jobs, JobStates, Tried

LEMMA JobWaiting ==
  ASSUME NEW x \in Jobs, NEW n \in Nat
  PROVE  /\ Waiting(x, n) \in Jobs /\ Waiting(x, n).st = "waiting"
         /\ Waiting(x, n).items = x.items /\ Waiting(x, n).tries = x.tries
         /\ Waiting(x, n).stalls = n
  BY DEF Jobs, Waiting

LEMMA ExecGoes ==
  ASSUME NEW e \in Execs, NEW p \in Stations
  PROVE  /\ Goes(e, p) \in Execs /\ Goes(e, p).at = p /\ Goes(e, p).j = e.j
         /\ Goes(e, p).todo = e.todo /\ Goes(e, p).i = e.i
  BY DEF Execs, Goes, Stations

LEMMA ExecTakes ==
  ASSUME NEW e \in Execs, NEW i \in MediaIds, NEW t \in MediaType
  PROVE  /\ Takes(e, i, t) \in Execs /\ Takes(e, i, t).at = "upload" /\ Takes(e, i, t).j = e.j
         /\ Takes(e, i, t).todo = e.todo /\ Takes(e, i, t).i = i
  BY DEF Execs, Takes, Running

LEMMA ExecLeaves ==
  ASSUME NEW e \in Execs, NEW k \in SUBSET MediaIds
  PROVE  /\ Leaves(e, k) \in Execs /\ Leaves(e, k).at = e.at /\ Leaves(e, k).j = e.j
         /\ Leaves(e, k).todo = k /\ Leaves(e, k).i = e.i
         /\ Cleaned(e, k) \in Execs /\ Cleaned(e, k).at = "item" /\ Cleaned(e, k).j = e.j
         /\ Cleaned(e, k).todo = k
<1>1. /\ Leaves(e, k) \in Execs /\ Leaves(e, k).at = e.at /\ Leaves(e, k).j = e.j
      /\ Leaves(e, k).todo = k /\ Leaves(e, k).i = e.i
  BY DEF Execs, Leaves
<1>2. /\ Cleaned(e, k) \in Execs /\ Cleaned(e, k).at = "item" /\ Cleaned(e, k).j = e.j
      /\ Cleaned(e, k).todo = k
  BY DEF Execs, Cleaned, MediaType, Running
<1> QED
  BY <1>1, <1>2

LEMMA ExecOn ==
  ASSUME NEW p \in Stations, NEW j \in MediaIds, NEW k \in SUBSET MediaIds
  PROVE  /\ On(p, j, k) \in Execs /\ On(p, j, k).at = p /\ On(p, j, k).j = j
         /\ On(p, j, k).todo = k
  BY DEF On, Resting, Execs, MediaType, Stations

\* What a worker knows of itself.
LEMMA ExecKnown ==
  ASSUME Types, Executions, NEW w \in Workers
  PROVE  /\ exec[w] \in Execs /\ exec[w].at \in Stations /\ exec[w].todo \in SUBSET MediaIds
         /\ exec[w].at # "rest" =>
              exec[w].j \in MediaIds /\ job[exec[w].j] \in Jobs
         /\ exec[w].at \in AtHand => exec[w].i \in MediaIds
         /\ exec[w].at # "rest" => exec[w].todo \subseteq job[exec[w].j].items
  BY DEF Types, Executions, Execs, Stations

LEMMA JobKnown ==
  ASSUME Types, NEW j \in MediaIds
  PROVE  /\ job[j] \in Jobs /\ job[j].items \in SUBSET MediaIds
         /\ job[j].tries \in Nat /\ job[j].stalls \in Nat
         /\ job[j].st \in {"none", "waiting", "active", "orphan", "over"}
  BY DEF Types, Jobs

\* Worker w becomes e, its job j becomes x.
RunsTo(w, e, j, x) ==
  /\ exec' = [exec EXCEPT ![w] = e] /\ job' = [job EXCEPT ![j] = x]
  /\ exec[w].at # "rest" => j = exec[w].j
  /\ x.items = job[j].items
  /\ forgotten' \in SUBSET MediaIds /\ forgotten \subseteq forgotten'
  /\ faults' \in 0..MaxFaults
  /\ UNCHANGED <<slot, act, sent, undone, overlaps, calls>>

\* It goes on with its job.
Keeps(o, e) == e.j = o.j /\ e.todo = o.todo

Runs(w, e, j, x) ==
  LET o == exec[w]  job0 == job[j] IN
  /\ RunsTo(w, e, j, x)
  /\ \/ /\ o.at = "rest" /\ job0.st = "waiting" /\ x.tries = job0.tries /\ x.stalls = job0.stalls
        /\ \/ e = o /\ x.st = "over"
           \/ /\ job0.stalls <= MaxStalls /\ x.st = "active"
              /\ e.at = "start" /\ e.j = j /\ e.todo = job0.items
        /\ UNCHANGED <<post, r2, faults>>
     \/ /\ o.at = "start" /\ post.status = "DELETED" /\ e = Resting
        /\ x.st = "over" /\ x.tries = job0.tries /\ x.stalls = job0.stalls
        /\ r2' = r2 \ job0.items /\ UNCHANGED <<post, forgotten, faults>>
     \/ /\ o.at \in {"start", "item"} /\ x = job0 /\ Keeps(o, e)
        /\ \/ o.at = "start" /\ e.at = "item"
           \/ o.at = "item" /\ e.at = "upload" /\ e.i \in o.todo
        /\ UNCHANGED <<post, r2, forgotten, faults>>
     \/ /\ o.at = "item" /\ x = job0 /\ e.at = "item" /\ e.j = o.j
        /\ \E i \in o.todo : /\ i \notin Uploading /\ r2' = r2 \ {i}
                             /\ e.todo = o.todo \ {i}
        /\ UNCHANGED <<post, forgotten, faults>>
     \/ /\ o.at \in {"upload", "wait"} /\ e.at \in {"wait", "mark"} /\ x = job0
        /\ Keeps(o, e) /\ e.i = o.i
        /\ UNCHANGED <<post, r2, forgotten, faults>>
     \/ /\ o.at = "mark" /\ e.at = "clean" /\ x = job0 /\ Keeps(o, e) /\ e.i = o.i
        /\ MarkEntry(o.i, "READY") /\ UNCHANGED <<r2, forgotten, faults>>
     \/ /\ o.at = "clean" /\ e.at = "item" /\ x = job0 /\ e.j = o.j
        /\ e.todo = o.todo \ {o.i} /\ r2' = r2 \ {o.i}
        /\ UNCHANGED <<post, forgotten, faults>>
     \/ /\ o.at = "item" /\ o.todo = {} /\ e = Resting
        /\ x.st = "over" /\ x.tries = job0.tries /\ x.stalls = job0.stalls
        /\ UNCHANGED <<post, r2, forgotten, faults>>
     \/ /\ o.at \in Running \ {"clean"}
        /\ UNCHANGED post \/ (o.at = "mark" /\ MarkEntry(o.i, "READY"))
        /\ x.tries = job0.tries + 1 /\ x.stalls = job0.stalls
        /\ \/ /\ x.tries >= Attempts /\ x.st = "over"
              /\ e.at = "fail" /\ e.j = j /\ e.todo = job0.items
           \/ x.tries < Attempts /\ x.st = "waiting" /\ e = Resting
        /\ UNCHANGED <<r2, forgotten>>
     \/ /\ o.at = "fail" /\ e.at = "fail" /\ e.j = o.j /\ x = job0
        /\ \E i \in o.todo : /\ e.todo = o.todo \ {i}
                             /\ \/ MarkEntry(i, "FAILED") /\ UNCHANGED <<forgotten, faults>>
                                \/ /\ UNCHANGED post /\ forgotten' = forgotten \cup {i} /\ Fault
        /\ UNCHANGED r2
     \/ /\ o.at = "fail" /\ o.todo = {} /\ e = Resting /\ x = job0
        /\ r2' = r2 \ job0.items /\ UNCHANGED <<post, forgotten, faults>>
     \/ /\ o.at # "rest" /\ e = Resting
        /\ \/ o.at = "fail" /\ x = job0
           \/ /\ o.at \in Running /\ x.st = "orphan"
              /\ x.tries = job0.tries /\ x.stalls = job0.stalls /\ UNCHANGED forgotten
        /\ UNCHANGED <<post, r2>>

LEMMA PickUpRuns ==
  ASSUME Types, Executions, NEW w \in Workers, NEW j \in MediaIds, PickUp(w, j)
  PROVE  \E e \in Execs, x \in Jobs : Runs(w, e, j, x)
<1> DEFINE e == On("start", j, job[j].items)
<1>1. exec[w] \in Execs /\ exec[w].at = "rest" /\ job[j].st = "waiting"
  BY ExecKnown DEF PickUp
<1>2. faults' \in 0..MaxFaults /\ forgotten' \in SUBSET MediaIds /\ forgotten \subseteq forgotten'
  BY JobKnown DEF PickUp, Types
<1>3. CASE job[j].stalls > MaxStalls
  <2> DEFINE x == Put(job[j], "over")
  <2>1. /\ x \in Jobs /\ x.items = job[j].items /\ x.st = "over"
        /\ x.tries = job[j].tries /\ x.stalls = job[j].stalls
    BY JobKnown, JobPut DEF JobStates
  <2>2. job' = [job EXCEPT ![j] = x] /\ exec' = [exec EXCEPT ![w] = exec[w]]
    BY <1>3 DEF PickUp, Put, Types
  <2> HIDE DEF x
  <2>3. Runs(w, exec[w], j, x)
    BY <1>1, <1>2, <2>1, <2>2 DEF Runs, RunsTo, PickUp
  <2> QED
    BY <1>1, <2>1, <2>3
<1>4. CASE ~(job[j].stalls > MaxStalls)
  <2> DEFINE x == Put(job[j], "active")
  <2>1. /\ x \in Jobs /\ x.items = job[j].items /\ x.st = "active"
        /\ x.tries = job[j].tries /\ x.stalls = job[j].stalls
    BY JobKnown, JobPut DEF JobStates
  <2>2. job' = [job EXCEPT ![j] = x] /\ exec' = [exec EXCEPT ![w] = e]
    BY <1>4 DEF PickUp, Put, On
  <2>3. e \in Execs /\ e.at = "start" /\ e.j = j /\ e.todo = job[j].items
    BY JobKnown, ExecOn DEF Stations, Running
  <2>4. job[j].stalls <= MaxStalls
    BY <1>4, JobKnown, MediaAssumption
  <2> HIDE DEF x, e
  <2>5. Runs(w, e, j, x)
    BY <1>1, <1>2, <2>1, <2>2, <2>3, <2>4 DEF Runs, RunsTo, PickUp
  <2> QED
    BY <2>1, <2>3, <2>5
<1> QED
  BY <1>3, <1>4


LEMMA DiscardRuns ==
  ASSUME Types, Executions, NEW w \in Workers, Discard(w)
  PROVE  \E e \in Execs, j \in MediaIds, x \in Jobs : Runs(w, e, j, x)
<1> DEFINE o == exec[w]  j == o.j  x == Put(job[j], "over")
<1>1. o \in Execs /\ j \in MediaIds /\ o.at = "start"
  BY ExecKnown DEF Discard
<1>2. /\ x \in Jobs /\ x.items = job[j].items /\ x.st = "over"
      /\ x.tries = job[j].tries /\ x.stalls = job[j].stalls
  BY <1>1, JobKnown, JobPut DEF JobStates
<1>3. job' = [job EXCEPT ![j] = x] /\ exec' = [exec EXCEPT ![w] = Resting]
  BY DEF Discard, Put
<1> HIDE DEF x
<1>4. Runs(w, Resting, j, x)
  BY <1>1, <1>2, <1>3 DEF Runs, RunsTo, Discard, Types, Exists
<1> QED
  BY <1>1, <1>2, <1>4, RestingTyped

LEMMA JobCompletesRuns ==
  ASSUME Types, Executions, NEW w \in Workers, JobCompletes(w)
  PROVE  \E e \in Execs, j \in MediaIds, x \in Jobs : Runs(w, e, j, x)
<1> DEFINE o == exec[w]  j == o.j  x == Put(job[j], "over")
<1>1. o \in Execs /\ j \in MediaIds /\ o.at = "item"
  BY ExecKnown DEF JobCompletes
<1>2. /\ x \in Jobs /\ x.items = job[j].items /\ x.st = "over"
      /\ x.tries = job[j].tries /\ x.stalls = job[j].stalls
  BY <1>1, JobKnown, JobPut DEF JobStates
<1>3. job' = [job EXCEPT ![j] = x] /\ exec' = [exec EXCEPT ![w] = Resting]
  BY DEF JobCompletes, Put
<1> HIDE DEF x
<1>4. Runs(w, Resting, j, x)
  BY <1>1, <1>2, <1>3 DEF Runs, RunsTo, JobCompletes, Types
<1> QED
  BY <1>1, <1>2, <1>4, RestingTyped

LEMMA ProcessMediaUploadRuns ==
  ASSUME Types, Executions, NEW w \in Workers, ProcessMediaUpload(w)
  PROVE  \E e \in Execs, j \in MediaIds, x \in Jobs : Runs(w, e, j, x)
<1> DEFINE o == exec[w]  j == o.j  e == Goes(o, "item")
<1>1. o \in Execs /\ j \in MediaIds /\ job[j] \in Jobs /\ o.at = "start"
  BY ExecKnown DEF ProcessMediaUpload
<1>2. e \in Execs /\ e.at = "item" /\ e.j = j /\ e.todo = o.todo /\ e.i = o.i
  BY <1>1, ExecGoes DEF Stations, Running
<1>3. job' = [job EXCEPT ![j] = job[j]] /\ exec' = [exec EXCEPT ![w] = e]
  BY <1>1 DEF ProcessMediaUpload, Goes, Types
<1> HIDE DEF e
<1>4. Runs(w, e, j, job[j])
  BY <1>1, <1>2, <1>3 DEF Runs, RunsTo, Keeps, ProcessMediaUpload, Types
<1> QED
  BY <1>1, <1>2, <1>4

LEMMA UploadImageRuns ==
  ASSUME Types, Executions, NEW w \in Workers, UploadImage(w)
  PROVE  \E e \in Execs, j \in MediaIds, x \in Jobs : Runs(w, e, j, x)
<1> DEFINE o == exec[w]  j == o.j  e == Goes(o, "mark")
<1>1. o \in Execs /\ j \in MediaIds /\ job[j] \in Jobs /\ o.at = "upload"
  BY ExecKnown DEF UploadImage, UploadTo
<1>2. e \in Execs /\ e.at = "mark" /\ e.j = j /\ e.todo = o.todo /\ e.i = o.i
  BY <1>1, ExecGoes DEF Stations, Running
<1>3. job' = [job EXCEPT ![j] = job[j]] /\ exec' = [exec EXCEPT ![w] = e]
  BY <1>1 DEF UploadImage, UploadTo, Goes, Types
<1> HIDE DEF e
<1>4. Runs(w, e, j, job[j])
  BY <1>1, <1>2, <1>3 DEF Runs, RunsTo, Keeps, UploadImage, UploadTo, Types
<1> QED
  BY <1>1, <1>2, <1>4

LEMMA UploadVideoRuns ==
  ASSUME Types, Executions, NEW w \in Workers, UploadVideo(w)
  PROVE  \E e \in Execs, j \in MediaIds, x \in Jobs : Runs(w, e, j, x)
<1> DEFINE o == exec[w]  j == o.j  e == Goes(o, "wait")
<1>1. o \in Execs /\ j \in MediaIds /\ job[j] \in Jobs /\ o.at = "upload"
  BY ExecKnown DEF UploadVideo, UploadTo
<1>2. e \in Execs /\ e.at = "wait" /\ e.j = j /\ e.todo = o.todo /\ e.i = o.i
  BY <1>1, ExecGoes DEF Stations, Running
<1>3. job' = [job EXCEPT ![j] = job[j]] /\ exec' = [exec EXCEPT ![w] = e]
  BY <1>1 DEF UploadVideo, UploadTo, Goes, Types
<1> HIDE DEF e
<1>4. Runs(w, e, j, job[j])
  BY <1>1, <1>2, <1>3 DEF Runs, RunsTo, Keeps, UploadVideo, UploadTo, Types
<1> QED
  BY <1>1, <1>2, <1>4

LEMMA WaitForMediaAvailableRuns ==
  ASSUME Types, Executions, NEW w \in Workers, WaitForMediaAvailable(w)
  PROVE  \E e \in Execs, j \in MediaIds, x \in Jobs : Runs(w, e, j, x)
<1> DEFINE o == exec[w]  j == o.j  e == Goes(o, "mark")
<1>1. o \in Execs /\ j \in MediaIds /\ job[j] \in Jobs /\ o.at = "wait"
  BY ExecKnown DEF WaitForMediaAvailable
<1>2. e \in Execs /\ e.at = "mark" /\ e.j = j /\ e.todo = o.todo /\ e.i = o.i
  BY <1>1, ExecGoes DEF Stations, Running
<1>3. job' = [job EXCEPT ![j] = job[j]] /\ exec' = [exec EXCEPT ![w] = e]
  BY <1>1 DEF WaitForMediaAvailable, Goes, Types
<1> HIDE DEF e
<1>4. Runs(w, e, j, job[j])
  BY <1>1, <1>2, <1>3 DEF Runs, RunsTo, Keeps, WaitForMediaAvailable, Types
<1> QED
  BY <1>1, <1>2, <1>4

LEMMA MarkReadyRuns ==
  ASSUME Types, Executions, NEW w \in Workers, MarkReady(w)
  PROVE  \E e \in Execs, j \in MediaIds, x \in Jobs : Runs(w, e, j, x)
<1> DEFINE o == exec[w]  j == o.j  e == Goes(o, "clean")
<1>1. o \in Execs /\ j \in MediaIds /\ job[j] \in Jobs /\ o.at = "mark"
  BY ExecKnown DEF MarkReady
<1>2. e \in Execs /\ e.at = "clean" /\ e.j = j /\ e.todo = o.todo /\ e.i = o.i
  BY <1>1, ExecGoes DEF Stations, Running
<1>3. job' = [job EXCEPT ![j] = job[j]] /\ exec' = [exec EXCEPT ![w] = e]
  BY <1>1 DEF MarkReady, Goes, Types
<1> HIDE DEF e
<1>4. Runs(w, e, j, job[j])
  BY <1>1, <1>2, <1>3 DEF Runs, RunsTo, Keeps, MarkReady, Types
<1> QED
  BY <1>1, <1>2, <1>4

LEMMA NextItemRuns ==
  ASSUME Types, Executions, NEW w \in Workers, NextItem(w)
  PROVE  \E e \in Execs, j \in MediaIds, x \in Jobs : Runs(w, e, j, x)
<1> DEFINE o == exec[w]  j == o.j
<1>1. o \in Execs /\ j \in MediaIds /\ job[j] \in Jobs /\ o.at = "item" /\ o.todo \in SUBSET MediaIds
  BY ExecKnown DEF NextItem
<1>2. PICK i \in o.todo :
        /\ IF Attached(i)
             THEN /\ exec' = [exec EXCEPT ![w] = Takes(o, i, post.media[i].type)]
                  /\ UNCHANGED r2
             ELSE /\ exec' = [exec EXCEPT ![w] = Leaves(o, o.todo \ {i})]
                  /\ r2' = r2 \ {i}
        /\ UNCHANGED <<post, slot, job, act, sent, undone, forgotten, overlaps, calls, faults>>
  BY DEF NextItem, Takes, Leaves
<1>3. job' = [job EXCEPT ![j] = job[j]]
  BY <1>1, <1>2 DEF Types
<1>4. i \in MediaIds /\ post.media[i].type \in MediaType /\ o.todo \ {i} \in SUBSET MediaIds
  BY <1>1, EntryTyped, DocTyped DEF Types
<1>5. CASE Attached(i)
  <2> DEFINE e == Takes(o, i, post.media[i].type)
  <2>1. e \in Execs /\ e.at = "upload" /\ e.j = j /\ e.todo = o.todo /\ e.i = i
    BY <1>1, <1>4, ExecTakes
  <2>2. exec' = [exec EXCEPT ![w] = e] /\ UNCHANGED r2
    BY <1>2, <1>5
  <2> HIDE DEF e
  <2>3. Runs(w, e, j, job[j])
    BY <1>1, <1>2, <1>3, <2>1, <2>2 DEF Runs, RunsTo, Keeps, Types
  <2> QED
    BY <1>1, <2>1, <2>3
<1>6. CASE ~Attached(i)
  <2> DEFINE e == Leaves(o, o.todo \ {i})
  <2>1. e \in Execs /\ e.at = "item" /\ e.j = j /\ e.todo = o.todo \ {i}
    BY <1>1, <1>4, ExecLeaves
  <2>2. exec' = [exec EXCEPT ![w] = e] /\ r2' = r2 \ {i} /\ i \notin Uploading
    BY <1>2, <1>6 DEF Attached
  <2> HIDE DEF e
  <2>3. Runs(w, e, j, job[j])
    BY <1>1, <1>2, <1>3, <2>1, <2>2 DEF Runs, RunsTo, Keeps, Types
  <2> QED
    BY <1>1, <2>1, <2>3
<1> QED
  BY <1>5, <1>6

LEMMA CleanRuns ==
  ASSUME Types, Executions, NEW w \in Workers, Clean(w)
  PROVE  \E e \in Execs, j \in MediaIds, x \in Jobs : Runs(w, e, j, x)
<1> DEFINE o == exec[w]  j == o.j  e == Cleaned(o, o.todo \ {o.i})
<1>1. /\ o \in Execs /\ j \in MediaIds /\ job[j] \in Jobs /\ o.at = "clean"
      /\ o.todo \ {o.i} \in SUBSET MediaIds /\ o.i \in MediaIds
  BY ExecKnown DEF Clean, AtHand
<1>2. e \in Execs /\ e.at = "item" /\ e.j = j /\ e.todo = o.todo \ {o.i}
  BY <1>1, ExecLeaves
<1>3. job' = [job EXCEPT ![j] = job[j]] /\ exec' = [exec EXCEPT ![w] = e]
  BY <1>1 DEF Clean, Cleaned, Types
<1> HIDE DEF e
<1>4. Runs(w, e, j, job[j])
  BY <1>1, <1>2, <1>3 DEF Runs, RunsTo, Clean, Types
<1> QED
  BY <1>1, <1>2, <1>4

LEMMA AttemptFailsRuns ==
  ASSUME Types, Executions, NEW w \in Workers, AttemptFails(w)
  PROVE  \E e \in Execs, j \in MediaIds, x \in Jobs : Runs(w, e, j, x)
<1> DEFINE o == exec[w]  j == o.j  n == job[j].tries + 1
           st == IF n >= Attempts THEN "over" ELSE "waiting"
           x == Tried(job[j], st, n)
<1>1. o \in Execs /\ j \in MediaIds /\ job[j] \in Jobs /\ o.at \in Running \ {"clean"}
  BY ExecKnown DEF AttemptFails, Running
<1>2. n \in Nat /\ st \in JobStates
  BY <1>1, JobKnown DEF JobStates
<1> HIDE DEF n, st
<1>3. /\ x \in Jobs /\ x.items = job[j].items /\ x.st = st
      /\ x.tries = n /\ x.stalls = job[j].stalls
  BY <1>1, <1>2, JobTried
<1>4. job' = [job EXCEPT ![j] = x]
  BY DEF AttemptFails, QueueGivesUp, Tried, n, st
<1>5. faults' \in 0..MaxFaults
  BY MediaAssumption DEF AttemptFails, Fault, Types
<1>6. UNCHANGED post \/ (o.at = "mark" /\ MarkEntry(o.i, "READY"))
  BY DEF AttemptFails
<1>7. UNCHANGED <<slot, r2, act, sent, undone, forgotten, overlaps, calls>>
  BY DEF AttemptFails
<1>8. CASE n >= Attempts
  <2> DEFINE e == On("fail", j, job[j].items)
  <2>1. e \in Execs /\ e.at = "fail" /\ e.j = j /\ e.todo = job[j].items
    BY <1>1, JobKnown, ExecOn DEF Stations
  <2>2. exec' = [exec EXCEPT ![w] = e]
    BY <1>8 DEF AttemptFails, IsLastAttempt, On, n
  <2>3. x.st = "over" /\ x.tries >= Attempts
    BY <1>3, <1>8 DEF st
  <2> HIDE DEF x, e
  <2>4. Runs(w, e, j, x)
    BY <1>1, <1>3, <1>4, <1>5, <1>6, <1>7, <2>1, <2>2, <2>3 DEF Runs, RunsTo, Types, n
  <2> QED
    BY <1>1, <1>3, <2>1, <2>4
<1>9. CASE ~(n >= Attempts)
  <2>1. exec' = [exec EXCEPT ![w] = Resting]
    BY <1>9 DEF AttemptFails, IsLastAttempt, n
  <2>2. x.st = "waiting" /\ x.tries < Attempts
    BY <1>2, <1>3, <1>9, MediaAssumption DEF st
  <2> HIDE DEF x
  <2>3. Runs(w, Resting, j, x)
    BY <1>1, <1>3, <1>4, <1>5, <1>6, <1>7, <2>1, <2>2 DEF Runs, RunsTo, Types, n
  <2> QED
    BY <1>1, <1>3, <2>3, RestingTyped
<1> QED
  BY <1>8, <1>9

LEMMA FailItemRuns ==
  ASSUME Types, Executions, NEW w \in Workers, FailItem(w)
  PROVE  \E e \in Execs, j \in MediaIds, x \in Jobs : Runs(w, e, j, x)
<1> DEFINE o == exec[w]  j == o.j
<1>1. o \in Execs /\ j \in MediaIds /\ job[j] \in Jobs /\ o.at = "fail" /\ o.todo \in SUBSET MediaIds
  BY ExecKnown DEF FailItem
<1>2. PICK i \in o.todo :
        /\ \/ MarkEntry(i, "FAILED") /\ UNCHANGED <<forgotten, faults>>
           \/ Fault /\ forgotten' = forgotten \cup {i} /\ UNCHANGED post
        /\ exec' = [exec EXCEPT ![w] = Leaves(o, o.todo \ {i})]
        /\ UNCHANGED <<slot, r2, job, act, sent, undone, overlaps, calls>>
  BY DEF FailItem, Leaves
<1> DEFINE e == Leaves(o, o.todo \ {i})
<1>3. job' = [job EXCEPT ![j] = job[j]]
  BY <1>1, <1>2 DEF Types
<1>4. i \in MediaIds /\ o.todo \ {i} \in SUBSET MediaIds
  BY <1>1
<1>5. e \in Execs /\ e.at = "fail" /\ e.j = j /\ e.todo = o.todo \ {i}
  BY <1>1, <1>4, ExecLeaves
<1>6. /\ faults' \in 0..MaxFaults /\ forgotten' \in SUBSET MediaIds
      /\ forgotten \subseteq forgotten'
  BY <1>2, <1>4, MediaAssumption DEF Fault, Types
<1>7. RunsTo(w, e, j, job[j])
  BY <1>2, <1>3, <1>6 DEF RunsTo
<1> HIDE DEF e
<1>8. Runs(w, e, j, job[j])
  BY <1>1, <1>2, <1>5, <1>7 DEF Runs
<1> QED
  BY <1>1, <1>5, <1>8

LEMMA FailureErasesRuns ==
  ASSUME Types, Executions, NEW w \in Workers, FailureErases(w)
  PROVE  \E e \in Execs, j \in MediaIds, x \in Jobs : Runs(w, e, j, x)
<1> DEFINE o == exec[w]  j == o.j
<1>1. j \in MediaIds /\ job[j] \in Jobs /\ o.at = "fail"
  BY ExecKnown DEF FailureErases
<1>2. job' = [job EXCEPT ![j] = job[j]]
  BY <1>1 DEF FailureErases, Types
<1>3. Runs(w, Resting, j, job[j])
  BY <1>1, <1>2 DEF Runs, RunsTo, FailureErases, Types
<1> QED
  BY <1>1, <1>3, RestingTyped

LEMMA CrashRuns ==
  ASSUME Types, Executions, NEW w \in Workers, Crash(w)
  PROVE  \E e \in Execs, j \in MediaIds, x \in Jobs : Runs(w, e, j, x)
<1> DEFINE o == exec[w]  j == o.j
<1>1. j \in MediaIds /\ job[j] \in Jobs /\ o.at # "rest" /\ o.todo \in SUBSET MediaIds
      /\ o.at \in Stations
  BY ExecKnown DEF Crash
<1>2. /\ faults' \in 0..MaxFaults /\ forgotten' \in SUBSET MediaIds
      /\ forgotten \subseteq forgotten'
  BY <1>1, MediaAssumption DEF Crash, Fault, Types
<1>3. exec' = [exec EXCEPT ![w] = Resting]
      /\ UNCHANGED <<post, slot, r2, act, sent, undone, overlaps, calls>>
  BY DEF Crash
<1>4. CASE o.at = "fail"
  <2>1. job' = [job EXCEPT ![j] = job[j]]
    BY <1>1, <1>4 DEF Crash, Types
  <2>2. Runs(w, Resting, j, job[j])
    BY <1>1, <1>2, <1>3, <1>4, <2>1 DEF Runs, RunsTo
  <2> QED
    BY <1>1, <2>2, RestingTyped
<1>5. CASE o.at # "fail"
  <2> DEFINE x == Put(job[j], "orphan")
  <2>1. /\ x \in Jobs /\ x.items = job[j].items /\ x.st = "orphan"
        /\ x.tries = job[j].tries /\ x.stalls = job[j].stalls
    BY <1>1, JobKnown, JobPut DEF JobStates
  <2>2. job' = [job EXCEPT ![j] = x] /\ UNCHANGED forgotten
    BY <1>5 DEF Crash, Put
  <2>3. o.at \in Running
    BY <1>1, <1>5 DEF Stations
  <2> HIDE DEF x
  <2>4. Runs(w, Resting, j, x)
    BY <1>1, <1>2, <1>3, <2>1, <2>2, <2>3 DEF Runs, RunsTo
  <2> QED
    BY <1>1, <2>1, <2>4, RestingTyped
<1> QED
  BY <1>4, <1>5

\* Whatever a worker does.
LEMMA WorkerRuns ==
  ASSUME Types, Executions, NEW w \in Workers,
         Works(w) \/ Crash(w) \/ \E j \in MediaIds : PickUp(w, j)
  PROVE  \E e \in Execs, j \in MediaIds, x \in Jobs : Runs(w, e, j, x)
<1>1. CASE \E j \in MediaIds : PickUp(w, j)
  BY <1>1, PickUpRuns
<1>2. CASE Crash(w)
  BY <1>2, CrashRuns
<1>3. CASE Works(w)
  BY <1>3, DiscardRuns, ProcessMediaUploadRuns, NextItemRuns, UploadImageRuns,
     UploadVideoRuns, WaitForMediaAvailableRuns, MarkReadyRuns, CleanRuns,
     JobCompletesRuns, AttemptFailsRuns, FailItemRuns, FailureErasesRuns DEF Works
<1> QED
  BY <1>1, <1>2, <1>3

-----------------------------------------------------------------------------
(* The other steps                                                          *)

\* Request c goes on without saving the array, and becomes a.
Proceeds(c, a) ==
  LET o == act[c] IN
  /\ act' = [act EXCEPT ![c] = a]
  /\ sent' \in SUBSET MediaIds /\ faults' \in 0..MaxFaults
  /\ forgotten' \in SUBSET MediaIds /\ forgotten \subseteq forgotten'
  /\ UNCHANGED <<slot, exec, undone, overlaps, calls>>
  /\ \/ /\ o.at = "enqueue"
        /\ \/ a = Idle
           \/ a.at = "unqueue" /\ a.doc = o.doc /\ a.ids = o.ids
        /\ \/ UNCHANGED job /\ a.at = "unqueue"
           \/ \E i \in o.ids, x \in Jobs :
                /\ job' = [job EXCEPT ![i] = x]
                /\ x.st = "waiting" /\ x.items = o.ids /\ x.tries = 0 /\ x.stalls = 0
        /\ UNCHANGED <<post, r2, sent>>
     \/ o.at = "erase" /\ a = Idle /\ r2' = r2 \ o.ids /\ UNCHANGED <<post, job, sent>>
     \/ a = Idle /\ UNCHANGED <<post, r2, job, sent>>
     \/ /\ o.at = "publish" /\ a.doc = o.doc
        /\ \/ a.at = "published" /\ sent' = ComposeUploadedMedia(o.doc.media)
           \/ a.at = "failed" /\ UNCHANGED sent
        /\ UNCHANGED <<post, r2, job>>
     \/ /\ \/ o.at = "schedule" /\ SaveStatus(o.doc, "SCHEDULED")
           \/ o.at = "published" /\ SaveStatus(o.doc, "PUBLISHED")
           \/ o.at = "failed" /\ SaveStatus(o.doc, "FAILED")
        /\ a = Idle /\ UNCHANGED <<r2, job, sent>>

\* A request that is one step.
Edits ==
  /\ post' \in Docs /\ calls < MaxCalls /\ calls' = calls + 1
  /\ UNCHANGED <<slot, r2, job, act, exec, sent, undone, forgotten, overlaps, faults>>
  /\ \/ /\ Editable /\ post'.rev = post.rev + 1 /\ post'.media = post.media
        /\ post'.status = post.status \/ post'.status = "DRAFT"
     \/ /\ post.status = "SCHEDULED" /\ post'.status = "DRAFT"
        /\ post'.rev = post.rev /\ post'.media = post.media
     \/ /\ Exists /\ post'.status = "DELETED" /\ post'.media = NoMedia
        /\ post'.rev = post.rev

\* The browser, the clock and the queue.
Happens ==
  /\ UNCHANGED <<post, act, exec, sent, undone, forgotten, overlaps, calls, faults>>
  /\ \/ \E i \in MediaIds : r2' = r2 \cup {i} /\ UNCHANGED <<slot, job>>
     \/ \E i \in MediaIds :
          slot[i] = "open" /\ slot' = [slot EXCEPT ![i] = "expired"] /\ UNCHANGED <<r2, job>>
     \/ \E j \in MediaIds, x \in Jobs :
          /\ job' = [job EXCEPT ![j] = x] /\ x.st = "waiting" /\ job[j].st = "orphan"
          /\ x.items = job[j].items /\ x.tries = job[j].tries
          /\ x.stalls = job[j].stalls + 1
          /\ UNCHANGED <<slot, r2>>

\* The job of a confirmed batch.
Filed(ids) == [NoJob EXCEPT !.st = "waiting", !.items = ids]

LEMMA FiledMade ==
  ASSUME Types, NEW ids \in SUBSET MediaIds, AddMediaUploadJob(ids)
  PROVE  \E i \in ids, x \in Jobs :
           /\ job' = [job EXCEPT ![i] = x]
           /\ x.st = "waiting" /\ x.items = ids /\ x.tries = 0 /\ x.stalls = 0
<1> DEFINE x == Filed(ids)
<1>1. PICK i \in ids : job' = [job EXCEPT ![i] = x]
  BY DEF AddMediaUploadJob, Filed
<1>2. x \in Jobs /\ x.st = "waiting" /\ x.items = ids /\ x.tries = 0 /\ x.stalls = 0
  BY DEF Jobs, Filed, NoJob
<1> QED
  BY <1>1, <1>2

LEMMA EnqueueProceeds ==
  ASSUME Types, NEW c \in Clients, CompleteEnqueues(c)
  PROVE  \E a \in Acts : Proceeds(c, a)
<1>1. act[c].at = "enqueue" /\ act[c].ids \in SUBSET MediaIds
  BY ActKnown DEF CompleteEnqueues
<1>2. \E i \in act[c].ids, x \in Jobs :
        /\ job' = [job EXCEPT ![i] = x]
        /\ x.st = "waiting" /\ x.items = act[c].ids /\ x.tries = 0 /\ x.stalls = 0
  BY <1>1, FiledMade DEF CompleteEnqueues
<1>3. Proceeds(c, Idle)
  BY <1>1, <1>2 DEF Proceeds, CompleteEnqueues, Done, Types
<1> QED
  BY <1>3, IdleTyped

LEMMA EnqueueFailsProceeds ==
  ASSUME Types, NEW c \in Clients, CompleteEnqueueFails(c)
  PROVE  \E a \in Acts : Proceeds(c, a)
<1> DEFINE o == act[c]  a == Moved(o, "unqueue")
<1>1. o.at = "enqueue" /\ o.ids \in SUBSET MediaIds /\ o \in Acts
  BY ActKnown DEF CompleteEnqueueFails
<1>2. \/ UNCHANGED job
      \/ \E i \in o.ids, x \in Jobs :
           /\ job' = [job EXCEPT ![i] = x]
           /\ x.st = "waiting" /\ x.items = o.ids /\ x.tries = 0 /\ x.stalls = 0
  BY <1>1, FiledMade DEF CompleteEnqueueFails
<1>3. a \in Acts /\ a.at = "unqueue" /\ a.doc = o.doc /\ a.ids = o.ids
  <2>1. "unqueue" \in Places
    BY DEF Places
  <2> HIDE DEF o
  <2> QED
    BY <1>1, <2>1, ActMoved
<1>4. act' = [act EXCEPT ![c] = a]
  BY DEF CompleteEnqueueFails, Moved
<1>5. faults' \in 0..MaxFaults
  BY MediaAssumption DEF CompleteEnqueueFails, Fault, Types
<1> HIDE DEF a
<1>6. Proceeds(c, a)
  BY <1>1, <1>2, <1>3, <1>4, <1>5 DEF Proceeds, CompleteEnqueueFails, Types
<1> QED
  BY <1>3, <1>6

LEMMA EndProceeds ==
  ASSUME Types, NEW c \in Clients,
         RemoveErases(c) \/ SaveRefused(c) \/ RequestDies(c) \/ PostGone(c)
  PROVE  Proceeds(c, Idle)
<1>1. act[c].ids \in SUBSET MediaIds /\ Unqueued(act[c].ids) \in SUBSET MediaIds
  BY ActKnown DEF Unqueued
<1>2. faults' \in 0..MaxFaults
  BY MediaAssumption DEF RemoveErases, SaveRefused, RequestDies, PostGone, Fault, Types
<1>3. CASE RemoveErases(c)
  BY <1>2, <1>3 DEF Proceeds, RemoveErases, Done, Types
<1>4. CASE SaveRefused(c)
  BY <1>1, <1>2, <1>4 DEF Proceeds, SaveRefused, Done, Types
<1>5. CASE RequestDies(c)
  BY <1>1, <1>2, <1>5 DEF Proceeds, RequestDies, Done, Types
<1>6. CASE PostGone(c)
  BY <1>2, <1>6 DEF Proceeds, PostGone, Done, Types
<1> QED
  BY <1>3, <1>4, <1>5, <1>6

LEMMA StatusProceeds ==
  ASSUME Types, NEW c \in Clients, ScheduleSaves(c) \/ PublishSaves(c)
  PROVE  Proceeds(c, Idle)
<1>1. CASE ScheduleSaves(c)
  BY <1>1 DEF Proceeds, ScheduleSaves, Done, Types
<1>2. CASE PublishSaves(c)
  BY <1>2 DEF Proceeds, PublishSaves, Done, Types
<1> QED
  BY <1>1, <1>2

LEMMA SendProceeds ==
  ASSUME Types, NEW c \in Clients, PublishSends(c)
  PROVE  \E a \in Acts : Proceeds(c, a)
<1> DEFINE o == act[c]
<1>1. o.at = "publish" /\ o \in Acts /\ o.doc.media \in Media
  BY ActKnown DEF PublishSends
<1>2. ComposeUploadedMedia(o.doc.media) \in SUBSET MediaIds
  BY <1>1, HasMeaning DEF ComposeUploadedMedia
<1>3. faults' \in 0..MaxFaults
  BY MediaAssumption DEF PublishSends, Fault, Types
<1>4. \A p \in {"published", "failed"} :
        Moved(o, p) \in Acts /\ Moved(o, p).at = p /\ Moved(o, p).doc = o.doc
  <2>1. \A p \in {"published", "failed"} : p \in Places
    BY DEF Places, Sharing
  <2> HIDE DEF o
  <2> QED
    BY <1>1, <2>1, ActMoved
<1>5. CASE sent' = ComposeUploadedMedia(o.doc.media) /\ act' = [act EXCEPT ![c] = Moved(o, "published")]
  <2>1. Proceeds(c, Moved(o, "published"))
    BY <1>1, <1>2, <1>3, <1>4, <1>5 DEF Proceeds, PublishSends, Types
  <2> QED
    BY <1>4, <2>1
<1>6. CASE UNCHANGED sent /\ act' = [act EXCEPT ![c] = Moved(o, "failed")]
  <2>1. Proceeds(c, Moved(o, "failed"))
    BY <1>1, <1>3, <1>4, <1>6 DEF Proceeds, PublishSends, Types
  <2> QED
    BY <1>4, <2>1
<1> QED
  BY <1>5, <1>6 DEF PublishSends, Moved

LEMMA PostEdits ==
  ASSUME Types, NEW c \in Clients, UpdatePost(c) \/ UnschedulePost(c) \/ DeletePost(c)
  PROVE  Edits
<1>1. /\ post = [status |-> post.status, rev |-> post.rev, media |-> post.media]
      /\ post.status \in PostStatus /\ post.rev \in Nat /\ post.media \in Media
  BY DocTyped DEF Types
<1>2. CASE UpdatePost(c)
  <2>1. post' = [status |-> ReturnFailedPostToDraft(post.status), rev |-> post.rev + 1,
                 media |-> post.media]
    BY <1>1, <1>2 DEF UpdatePost
  <2>2. post' \in Docs
    BY <1>1, <2>1, DocMade, ReturnTyped
  <2> QED
    BY <1>1, <1>2, <2>1, <2>2, ReturnTyped DEF UpdatePost, Edits
<1>3. CASE UnschedulePost(c)
  <2>1. post' = [status |-> "DRAFT", rev |-> post.rev, media |-> post.media]
    BY <1>1, <1>3 DEF UnschedulePost
  <2>2. post' \in Docs
    BY <1>1, <2>1, DocMade DEF PostStatus
  <2> QED
    BY <1>3, <2>1, <2>2 DEF UnschedulePost, Edits
<1>4. CASE DeletePost(c)
  <2>1. post' = [status |-> "DELETED", rev |-> post.rev, media |-> NoMedia]
    BY <1>1, <1>4 DEF DeletePost
  <2>2. post' \in Docs
    BY <1>1, <2>1, DocMade, NoMediaTyped DEF PostStatus
  <2> QED
    BY <1>4, <2>1, <2>2 DEF DeletePost, Edits
<1> QED
  BY <1>2, <1>3, <1>4

LEMMA OthersHappen ==
  ASSUME Types, NEW i \in MediaIds, PutObject(i) \/ SlotExpires(i) \/ Stalled(i)
  PROVE  Happens
<1>1. CASE PutObject(i)
  BY <1>1 DEF PutObject, Happens
<1>2. CASE SlotExpires(i)
  BY <1>2 DEF SlotExpires, Happens
<1>3. CASE Stalled(i)
  <2> DEFINE x == Waiting(job[i], job[i].stalls + 1)
  <2>1. job[i].stalls + 1 \in Nat /\ job[i] \in Jobs
    BY JobKnown
  <2>2. /\ x \in Jobs /\ x.st = "waiting" /\ x.items = job[i].items
        /\ x.tries = job[i].tries /\ x.stalls = job[i].stalls + 1
    BY <2>1, JobWaiting
  <2>3. job' = [job EXCEPT ![i] = x]
    BY <1>3 DEF Stalled, Waiting
  <2> HIDE DEF x
  <2> QED
    BY <1>3, <2>2, <2>3 DEF Stalled, Happens
<1> QED
  BY <1>1, <1>2, <1>3

-----------------------------------------------------------------------------
\* Every step is one of these.
LEMMA StepForms ==
  ASSUME Types, Executions, Next
  PROVE  \/ \E c \in Clients, a \in Acts : Loads(c, a)
         \/ \E c \in Clients, a \in Acts : Saves(c, a)
         \/ \E c \in Clients, a \in Acts : Proceeds(c, a)
         \/ Edits
         \/ Happens
         \/ \E w \in Workers, e \in Execs, j \in MediaIds, x \in Jobs : Runs(w, e, j, x)
<1>1. ASSUME NEW c \in Clients, Begins(c)
      PROVE  (\E a \in Acts : Loads(c, a)) \/ Edits
  <2>1. \A n \in {"schedule", "publish"} :
          AssertMediaReady(c, n) => \E a \in Acts : Loads(c, a)
    BY AssertLoads
  <2> QED
    BY <1>1, <2>1, InitiateLoads, CompleteLoads, UpdateLoads, RemoveLoads, PostEdits
    DEF Begins, SchedulePost, PublishPost
<1>2. ASSUME NEW c \in Clients, Continues(c) \/ RequestDies(c)
      PROVE  (\E a \in Acts : Saves(c, a)) \/ (\E a \in Acts : Proceeds(c, a))
  BY <1>2, InitiateSaved, CompleteSaved, MarkedSaved, UpdateSaved, RemoveSaved, PurgeSaved,
     EnqueueProceeds, EnqueueFailsProceeds, EndProceeds, StatusProceeds, SendProceeds,
     IdleTyped DEF Continues
<1>3. ASSUME NEW i \in MediaIds, PutObject(i) \/ SlotExpires(i) \/ Stalled(i)
      PROVE  Happens
  BY <1>3, OthersHappen
<1>4. ASSUME NEW w \in Workers, Works(w) \/ Crash(w) \/ \E j \in MediaIds : PickUp(w, j)
      PROVE  \E e \in Execs, j \in MediaIds, x \in Jobs : Runs(w, e, j, x)
  BY <1>4, WorkerRuns
<1> QED
  BY <1>1, <1>2, <1>3, <1>4 DEF Next

-----------------------------------------------------------------------------
(* Types                                                                    *)

LEMMA TypesStep ==
  ASSUME Types, Executions, Next
  PROVE  Types'
<1>1. ASSUME NEW c \in Clients, NEW a \in Acts, Loads(c, a)
      PROVE  Types'
  <2>1. slot' \in [MediaIds -> Slots]
    BY <1>1 DEF Loads, Types, Slots
  <2>2. calls' \in 0..MaxCalls
    BY <1>1, MediaAssumption DEF Loads, LoadsTo, Types
  <2>3. act' \in [Clients -> Acts] /\ overlaps' \in BOOLEAN
    BY <1>1 DEF Loads, LoadsTo, Types
  <2> QED
    BY <1>1, <2>1, <2>2, <2>3 DEF Loads, LoadsTo, Types
<1>2. ASSUME NEW c \in Clients, NEW a \in Acts, Saves(c, a)
      PROVE  Types'
  <2>1. slot' \in [MediaIds -> Slots]
    BY <1>2 DEF Saves, Types, Slots
  <2>2. act' \in [Clients -> Acts]
    BY <1>2 DEF Saves, SavesTo, Types
  <2> QED
    BY <1>2, <2>1, <2>2 DEF Saves, SavesTo, Types
<1>3. ASSUME NEW c \in Clients, NEW a \in Acts, Proceeds(c, a)
      PROVE  Types'
  <2>1. act' \in [Clients -> Acts]
    BY <1>3 DEF Proceeds, Types
  <2>2. job' \in [MediaIds -> Jobs]
    BY <1>3, ActKnown DEF Proceeds, Types
  <2>3. post' \in Docs
    <3>1. act[c].doc \in Docs
      BY ActKnown
    <3>2. \A s \in PostStatus : SaveStatus(act[c].doc, s) => post' \in Docs
      BY <3>1, StatusMade
    <3> QED
      BY <1>3, <3>2 DEF Proceeds, Types, PostStatus
  <2>4. r2' \in SUBSET MediaIds
    BY <1>3 DEF Proceeds, Types
  <2> QED
    BY <1>3, <2>1, <2>2, <2>3, <2>4 DEF Proceeds, Types
<1>4. ASSUME Edits
      PROVE  Types'
  BY <1>4, MediaAssumption DEF Edits, Types
<1>5. ASSUME Happens
      PROVE  Types'
  <2>1. slot' \in [MediaIds -> Slots]
    BY <1>5 DEF Happens, Types, Slots
  <2>2. job' \in [MediaIds -> Jobs] /\ r2' \in SUBSET MediaIds
    BY <1>5 DEF Happens, Types
  <2> QED
    BY <1>5, <2>1, <2>2 DEF Happens, Types
<1>6. ASSUME NEW w \in Workers, NEW e \in Execs, NEW j \in MediaIds, NEW x \in Jobs,
             Runs(w, e, j, x)
      PROVE  Types'
  <2>1. job' \in [MediaIds -> Jobs] /\ exec' \in [Workers -> Execs]
    BY <1>6 DEF Runs, RunsTo, Types
  <2>2. r2' \in SUBSET MediaIds
    BY <1>6 DEF Runs, Types
  <2>3. post' \in Docs
    <3>1. exec[w].at = "mark" => exec[w].i \in MediaIds
      BY ExecKnown DEF AtHand
    <3>2. exec[w].todo \in SUBSET MediaIds
      BY ExecKnown
    <3>3. \A i \in MediaIds, s \in {"READY", "FAILED"} : MarkEntry(i, s) => post' \in Docs
      BY MarkMade
    <3> QED
      BY <1>6, <3>1, <3>2, <3>3 DEF Runs, Types
  <2>4. /\ UNCHANGED <<slot, act, sent, undone, overlaps, calls>>
        /\ forgotten' \in SUBSET MediaIds /\ faults' \in 0..MaxFaults
    BY <1>6 DEF Runs, RunsTo
  <2> QED
    BY <2>1, <2>2, <2>3, <2>4 DEF Types
<1> QED
  BY <1>1, <1>2, <1>3, <1>4, <1>5, <1>6, StepForms

-----------------------------------------------------------------------------
(* What a step does to the entries, their slots and their objects           *)

Settles(e, f) ==
  \/ f = e
  \/ e.status = "UPLOADING" /\ f.status \in {"READY", "FAILED"} /\ f.type = e.type

SlotMoves == \A i \in MediaIds :
  \/ slot'[i] = slot[i]
  \/ slot[i] = "free" /\ slot'[i] = "taken"
  \/ slot[i] = "taken" /\ slot'[i] = "open"
  \/ slot[i] = "open" /\ slot'[i] = "expired"

PostMoves ==
  /\ post.rev <= post'.rev
  /\ post.status = "DELETED" => post'.status = "DELETED"
  /\ post'.status = "DELETED" => post'.media = NoMedia
  /\ post'.rev = post.rev /\ post'.status # "DELETED" =>
       \A i \in MediaIds : Settles(post.media[i], post'.media[i])
  /\ Uniform(post'.media)

EntriesMove == \A i \in MediaIds :
  /\ post'.media[i].status # "NONE" =>
       post.media[i].status # "NONE" \/ (slot[i] = "taken" /\ slot'[i] = "open")
  /\ post'.media[i].status = "PENDING" => post.media[i].status = "PENDING" \/ slot[i] = "taken"
  /\ post'.media[i].status = "UPLOADING" =>
       \/ post.media[i].status = "UPLOADING" \/ i \in undone'
       \/ post.media[i].status = "PENDING" /\ i \in r2

Erased == \A i \in r2 \ r2' :
  UNCHANGED post /\ i \in Over /\ post.media[i].status # "PENDING"

EntryInv == Types /\ Copies /\ Claims /\ Confirmations /\ Executions /\ Objects /\ Kinds

\* Steps that leave the media alone.
LEMMA MediaStill ==
  ASSUME EntryInv, post' \in Docs, post'.media = post.media, post.rev <= post'.rev,
         post.status = "DELETED" <=> post'.status = "DELETED"
  PROVE  PostMoves /\ EntriesMove
  BY DEF PostMoves, EntriesMove, EntryInv, Copies, Kinds, Settles

\* A saved array, entry by entry, next to the one it replaces.
LEMMA SavedEntry ==
  ASSUME EntryInv, NEW c \in Clients, NEW a \in Acts, Saves(c, a), NEW i \in MediaIds
  PROVE  LET e == post.media[i]  f == post'.media[i]  o == act[c] IN
         \/ f = e
         \/ f.status = "NONE" /\ e.status = "PENDING" /\ slot[i] = "expired"
         \/ f.status = "NONE" /\ o.at = "remove" /\ i \in o.ids
         \/ f.status = "PENDING" /\ f.type = o.type /\ i \in o.ids /\ o.at = "initiate"
         \/ /\ f.status = "UPLOADING" /\ e.status = "PENDING" /\ f.type = e.type
            /\ i \in o.ids /\ o.at = "complete"
         \/ f.status = "FAILED" /\ e.status \in {"UPLOADING", "READY", "FAILED"} /\ f.type = e.type
         \/ f.status = "UPLOADING" /\ e.status \in {"READY", "FAILED"} /\ f.type = e.type
<1> DEFINE o == act[c]  e == post.media[i]  f == post'.media[i]  m == o.doc.media[i]
<1>1. o.at \in Deciding \cup {"unqueue"} /\ post.status # "DELETED" /\ o.doc.rev = post.rev
  BY DEF Saves, SavesTo, Deciding
<1>2. Agree(o.doc.media, post.media, slot)
  BY <1>1 DEF EntryInv, Copies, CopyOf, Current
<1>3. \/ e = m
      \/ m.status = "UPLOADING" /\ e.status \in {"READY", "FAILED"} /\ e.type = m.type
      \/ m = NoMedia[i] /\ e.status = "PENDING" /\ slot[i] = "expired"
  BY <1>2 DEF Agree
<1>4. \/ f = m
      \/ i \in o.ids /\ o.at = "initiate" /\ f = [status |-> "PENDING", type |-> o.type]
      \/ i \in o.ids /\ o.at = "complete" /\ f.status = "UPLOADING" /\ f.type = m.type
      \/ i \in o.ids /\ o.at = "unqueue" /\ f.status = "FAILED" /\ f.type = m.type
      \/ f = NoMedia[i] /\ o.at = "remove" /\ i \in o.ids
      \/ f = NoMedia[i] /\ m.status = "PENDING" /\ slot[i] = "expired"
  BY DEF Saves, SavesTo, Merged
<1>5. /\ o.at = "complete" /\ i \in o.ids => m.status = "PENDING"
      /\ o.at = "unqueue" /\ i \in o.ids => m.status = "UPLOADING"
  BY ActKnown, HasMeaning DEF EntryInv, Claims, Owns
<1>6. NoMedia[i].status = "NONE"
  BY NoMediaTyped
<1> HIDE DEF e, f, m, o
<1>7. \/ f = e
      \/ f.status = "NONE" /\ e.status = "PENDING" /\ slot[i] = "expired"
      \/ f.status = "NONE" /\ o.at = "remove" /\ i \in o.ids
      \/ f.status = "PENDING" /\ f.type = o.type /\ i \in o.ids /\ o.at = "initiate"
      \/ /\ f.status = "UPLOADING" /\ e.status = "PENDING" /\ f.type = e.type
         /\ i \in o.ids /\ o.at = "complete"
      \/ f.status = "FAILED" /\ e.status \in {"UPLOADING", "READY", "FAILED"} /\ f.type = e.type
      \/ f.status = "UPLOADING" /\ e.status \in {"READY", "FAILED"} /\ f.type = e.type
  BY <1>3, <1>4, <1>5, <1>6
<1> QED
  BY <1>7 DEF e, f, o

Moves == /\ PostMoves /\ EntriesMove /\ SlotMoves /\ Erased
         /\ undone \subseteq undone' /\ forgotten \subseteq forgotten'

LEMMA SlotsStill == ASSUME UNCHANGED slot PROVE SlotMoves
  BY DEF SlotMoves

LEMMA LoadsMoves ==
  ASSUME EntryInv, NEW c \in Clients, NEW a \in Acts, Loads(c, a)
  PROVE  Moves
<1>1. post' = post /\ r2' = r2 /\ undone' = undone /\ forgotten' = forgotten /\ post \in Docs
  BY DEF Loads, LoadsTo, EntryInv, Types
<1>2. PostMoves /\ EntriesMove
  BY <1>1, MediaStill, DocTyped
<1>3. SlotMoves
  BY DEF Loads, SlotMoves
<1> QED
  BY <1>1, <1>2, <1>3 DEF Moves, Erased

LEMMA SavesUniform ==
  ASSUME EntryInv, NEW c \in Clients, NEW a \in Acts, Saves(c, a)
  PROVE  Uniform(post'.media)
<1> DEFINE o == act[c]
<1>1. post.media \in Media /\ post'.media \in Media /\ o.doc.media \in Media
  BY DocTyped, ActKnown DEF EntryInv, Types, Saves, SavesTo
<1>2. CASE o.at = "initiate"
  <2>1. Held(o.doc.media) = Of(o.doc.media, o.type)
    BY <1>2 DEF EntryInv, Kinds
  <2>2. \A i \in MediaIds : o.doc.media[i].status # "NONE" => o.doc.media[i].type = o.type
    BY <1>1, <2>1, HasMeaning
  <2>3. \A i \in MediaIds : post'.media[i].status # "NONE" => post'.media[i].type = o.type
    BY <1>2, <2>2, NoMediaTyped DEF Saves, SavesTo, Merged
  <2> QED
    BY <1>1, <2>3, HasMeaning DEF Uniform
<1>3. CASE o.at # "initiate"
  <2>1. \A i \in MediaIds : post'.media[i].status # "NONE" =>
          post.media[i].status # "NONE" /\ post'.media[i].type = post.media[i].type
    BY <1>3, SavedEntry
  <2> QED
    BY <1>1, <2>1, HasMeaning DEF Uniform, EntryInv, Kinds
<1> QED
  BY <1>2, <1>3

LEMMA SavesMoves ==
  ASSUME EntryInv, NEW c \in Clients, NEW a \in Acts, Saves(c, a)
  PROVE  Moves
<1> DEFINE o == act[c]
<1>1. /\ post'.rev = post.rev + 1 /\ post.rev \in Nat /\ post.status # "DELETED"
      /\ post'.status # "DELETED" /\ r2' = r2 /\ undone \subseteq undone'
      /\ forgotten' = forgotten
  BY DocTyped DEF Saves, SavesTo, EntryInv, Types
<1>2. PostMoves
  BY <1>1, SavesUniform DEF PostMoves
<1>3. SlotMoves
  BY DEF Saves, SlotMoves, EntryInv, Claims, Owns
<1>4. EntriesMove
  <2> SUFFICES ASSUME NEW i \in MediaIds
      PROVE  /\ post'.media[i].status # "NONE" =>
                  post.media[i].status # "NONE" \/ (slot[i] = "taken" /\ slot'[i] = "open")
             /\ post'.media[i].status = "PENDING" =>
                  post.media[i].status = "PENDING" \/ slot[i] = "taken"
             /\ post'.media[i].status = "UPLOADING" =>
                  \/ post.media[i].status = "UPLOADING" \/ i \in undone'
                  \/ post.media[i].status = "PENDING" /\ i \in r2
    BY DEF EntriesMove
  <2>1. o.at = "initiate" /\ i \in o.ids => slot[i] = "taken" /\ slot'[i] = "open"
    BY DEF Saves, EntryInv, Claims, Owns
  <2>2. o.at = "complete" /\ i \in o.ids => i \in r2
    <3>1. Current(o, post)
      BY DEF Saves, SavesTo, Current
    <3> QED
      BY <3>1 DEF EntryInv, Claims, Owns
  <2>3. post'.media[i].status = "UPLOADING" /\ post.media[i].status \in {"READY", "FAILED"}
          => i \in undone'
    BY DEF Saves, SavesTo
  <2> QED
    BY <2>1, <2>2, <2>3, SavedEntry
<1> QED
  BY <1>1, <1>2, <1>3, <1>4 DEF Moves, Erased

LEMMA ProceedsMoves ==
  ASSUME EntryInv, NEW c \in Clients, NEW a \in Acts, Proceeds(c, a)
  PROVE  Moves
<1> DEFINE o == act[c]
<1>1. /\ post' \in Docs /\ post'.media = post.media /\ post'.rev = post.rev
      /\ post.status = "DELETED" <=> post'.status = "DELETED"
  <2>1. o.doc \in Docs
    BY ActKnown DEF EntryInv
  <2>2. \A s \in {"SCHEDULED", "PUBLISHED", "FAILED"} : SaveStatus(o.doc, s) =>
          /\ post' \in Docs /\ post'.media = post.media /\ post'.rev = post.rev
          /\ post.status = "DELETED" <=> post'.status = "DELETED"
    BY <2>1, StatusMade DEF EntryInv, PostStatus
  <2>3. UNCHANGED post \/ SaveStatus(o.doc, "SCHEDULED") \/ SaveStatus(o.doc, "PUBLISHED")
          \/ SaveStatus(o.doc, "FAILED")
    BY DEF Proceeds
  <2> QED
    BY <2>2, <2>3 DEF EntryInv, Types
<1>2. PostMoves /\ EntriesMove
  <2>1. post.rev <= post'.rev
    BY <1>1, DocTyped
  <2> QED
    BY <1>1, <2>1, MediaStill
<1>3. Erased
  <2>1. CASE r2' = r2
    BY <2>1 DEF Erased
  <2>2. CASE o.at = "erase" /\ r2' = r2 \ o.ids /\ UNCHANGED post
    <3>1. o.ids \in SUBSET MediaIds /\ o.ids \cap Held(post.media) = {} /\ post.media \in Media
      BY <2>2, ActKnown, DocTyped DEF EntryInv, Claims, Owns, Types
    <3>2. \A i \in o.ids : post.media[i].status = "NONE" /\ i \notin Uploading
      BY <3>1, HasMeaning DEF Uploading
    <3> QED
      BY <2>2, <3>1, <3>2 DEF Erased, Over
  <2> QED
    BY <2>1, <2>2 DEF Proceeds
<1>4. undone' = undone /\ forgotten \subseteq forgotten' /\ slot' = slot
  BY DEF Proceeds
<1> QED
  BY <1>2, <1>3, <1>4, SlotsStill DEF Moves

LEMMA EditsMoves ==
  ASSUME EntryInv, Edits
  PROVE  Moves
<1>1. post.rev \in Nat /\ post'.rev \in Nat
  BY DocTyped DEF EntryInv, Types, Edits
<1>2. PostMoves /\ EntriesMove
  <2>1. CASE post'.media = post.media /\ post.rev <= post'.rev /\ post.status # "DELETED"
             /\ post'.status # "DELETED"
    BY <2>1, MediaStill DEF Edits
  <2>2. CASE post'.media = NoMedia /\ post'.status = "DELETED" /\ post'.rev = post.rev
    <3>1. Uniform(NoMedia)
      BY NoMediaTyped, HasMeaning DEF Uniform
    <3> QED
      BY <1>1, <2>2, <3>1, NoMediaTyped DEF PostMoves, EntriesMove
  <2> QED
    BY <1>1, <2>1, <2>2 DEF Edits, Editable, Exists
<1>3. slot' = slot /\ r2' = r2 /\ undone' = undone /\ forgotten' = forgotten
  BY DEF Edits
<1> QED
  BY <1>2, <1>3, SlotsStill DEF Moves, Erased

LEMMA HappensMoves ==
  ASSUME EntryInv, Happens
  PROVE  Moves
<1>1. post' = post /\ undone' = undone /\ forgotten' = forgotten /\ post \in Docs
      /\ post.rev <= post'.rev
  BY DocTyped DEF Happens, EntryInv, Types
<1>2. PostMoves /\ EntriesMove
  BY <1>1, MediaStill
<1>3. SlotMoves
  BY DEF Happens, SlotMoves, EntryInv, Types
<1>4. Erased
  BY DEF Happens, Erased
<1> QED
  BY <1>1, <1>2, <1>3, <1>4 DEF Moves

\* Settling an entry moves nothing else.
LEMMA MarkMoves ==
  ASSUME EntryInv, NEW i \in MediaIds, NEW s \in {"READY", "FAILED"}, MarkEntry(i, s)
  PROVE  PostMoves /\ EntriesMove /\ post'.media[i].status # "UPLOADING"
<1>1. /\ post' \in Docs /\ post'.rev = post.rev /\ post'.status = post.status
      /\ post'.media[i].status # "UPLOADING"
      /\ \A k \in MediaIds :
           \/ post'.media[k] = post.media[k]
           \/ /\ k = i /\ post.media[k].status = "UPLOADING"
              /\ post'.media[k].status = s /\ post'.media[k].type = post.media[k].type
  BY MarkMade DEF EntryInv
<1>2. post.media \in Media /\ post'.media \in Media /\ post.rev \in Nat
  BY <1>1, DocTyped DEF EntryInv, Types
<1>3. \A k \in MediaIds : Settles(post.media[k], post'.media[k])
  BY <1>1 DEF Settles
<1>4. Uniform(post'.media)
  <2>1. \A k \in MediaIds : post'.media[k].status # "NONE" =>
          post.media[k].status # "NONE" /\ post'.media[k].type = post.media[k].type
    BY <1>1
  <2> QED
    BY <1>2, <2>1, HasMeaning DEF Uniform, EntryInv, Kinds
<1>5. post'.status = "DELETED" => post'.media = NoMedia
  <2>1. post.status = "DELETED" => post.media = NoMedia
    BY DEF EntryInv, Copies
  <2>2. post.media = NoMedia => \A k \in MediaIds : post'.media[k] = post.media[k]
    BY <1>1, NoMediaTyped
  <2>3. post.media = NoMedia => post'.media = NoMedia
    BY <1>2, <2>2 DEF Media, NoMedia
  <2> QED
    BY <1>1, <2>1, <2>3
<1>6. PostMoves
  BY <1>1, <1>2, <1>3, <1>4, <1>5 DEF PostMoves
<1>7. EntriesMove
  BY <1>1 DEF EntriesMove
<1> QED
  BY <1>1, <1>6, <1>7

LEMMA RunsMoves ==
  ASSUME EntryInv, NEW w \in Workers, NEW e \in Execs, NEW j \in MediaIds, NEW x \in Jobs,
         Runs(w, e, j, x)
  PROVE  Moves
<1> DEFINE o == exec[w]
<1>1. /\ o.at # "rest" => o.j \in MediaIds /\ o.todo \subseteq job[o.j].items
      /\ o.todo \in SUBSET MediaIds
      /\ o.at \in AtHand => o.i \in MediaIds /\ o.i \in o.todo
  BY ExecKnown DEF EntryInv, Executions
<1>2. slot' = slot /\ undone' = undone /\ forgotten \subseteq forgotten'
  BY DEF Runs, RunsTo
<1>3. PostMoves /\ EntriesMove
  <2>1. CASE UNCHANGED post
    <3>1. post' \in Docs /\ post.rev <= post'.rev
      BY <2>1, DocTyped DEF EntryInv, Types
    <3> QED
      BY <2>1, <3>1, MediaStill
  <2>2. CASE ~UNCHANGED post
    <3>1. PICK i \in MediaIds, s \in {"READY", "FAILED"} : MarkEntry(i, s)
      BY <1>1, <2>2 DEF Runs, AtHand
    <3> QED
      BY <3>1, MarkMoves
  <2> QED
    BY <2>1, <2>2
<1>4. \A k \in MediaIds : job[k].items \in SUBSET MediaIds
                        /\ \A i \in job[k].items : post.media[i].status # "PENDING"
  <2>1. post.media \in Media
    BY DocTyped DEF EntryInv, Types
  <2> QED
    BY <2>1, JobKnown, HasMeaning DEF EntryInv, Confirmations
<1>5. Erased
  <2>1. CASE r2' = r2
    BY <2>1 DEF Erased
  <2>2. CASE o.at = "start" /\ post.status = "DELETED" /\ UNCHANGED post
    <3>1. \A i \in MediaIds : post.media[i].status = "NONE"
      BY <2>2, NoMediaTyped DEF EntryInv, Copies
    <3>2. Uploading = {}
      BY <3>1 DEF Uploading, Has
    <3> QED
      BY <2>2, <3>1, <3>2 DEF Erased, Over, EntryInv, Types
  <2>3. CASE o.at = "item" /\ UNCHANGED post
             /\ \E i \in o.todo : i \notin Uploading /\ r2' = r2 \ {i}
    BY <1>1, <1>4, <2>3 DEF Erased, Over
  <2>4. CASE o.at = "clean" /\ r2' = r2 \ {o.i} /\ UNCHANGED post
    <3>1. o.i \in Over
      BY <2>4 DEF EntryInv, Objects
    <3> QED
      BY <1>1, <1>4, <2>4, <3>1 DEF Erased, AtHand
  <2>5. CASE o.at = "fail" /\ o.todo = {} /\ r2' = r2 \ job[j].items /\ UNCHANGED post
    <3>1. job[o.j].items \subseteq Over /\ j = o.j
      BY <2>5 DEF EntryInv, Objects, Runs, RunsTo
    <3> QED
      BY <1>1, <1>4, <2>5, <3>1 DEF Erased
  <2> QED
    BY <2>1, <2>2, <2>3, <2>4, <2>5 DEF Runs
<1> QED
  BY <1>2, <1>3, <1>5, SlotsStill DEF Moves

\* Every step moves entries, slots and objects like this.
LEMMA StepMoves ==
  ASSUME EntryInv, Next
  PROVE  Moves
  BY StepForms, LoadsMoves, SavesMoves, ProceedsMoves, EditsMoves, HappensMoves, RunsMoves
  DEF EntryInv

-----------------------------------------------------------------------------
(* The copies of the requests                                               *)

LEMMA HandedStays ==
  ASSUME SlotMoves, NEW ids \in SUBSET MediaIds, Handed(slot, ids)
  PROVE  Handed(slot', ids)
  BY DEF SlotMoves, Handed

\* What a request becomes that a step does not touch, or leaves as it was.
LEMMA CurrentStays ==
  ASSUME EntryInv, Moves, Types', NEW a \in Acts, a.doc.rev <= post.rev, Current(a, post')
  PROVE  /\ Current(a, post) /\ post'.rev = post.rev
         /\ \A i \in MediaIds : Settles(post.media[i], post'.media[i])
<1>1. a.doc.rev \in Nat /\ post.rev \in Nat /\ post'.rev \in Nat /\ post.rev <= post'.rev
  BY ActTyped, DocTyped DEF EntryInv, Types, Moves, PostMoves
<1>2. a.doc.rev = post.rev /\ post'.rev = post.rev
  BY <1>1 DEF Current
<1>3. post.status # "DELETED" /\ post'.status # "DELETED"
  BY DEF Current, Moves, PostMoves
<1> QED
  BY <1>2, <1>3 DEF Current, Moves, PostMoves

LEMMA CopyStays ==
  ASSUME EntryInv, Moves, Types', NEW a \in Acts, CopyOf(a, post, slot)
  PROVE  CopyOf(a, post', slot')
<1>1. a.doc.rev \in Nat /\ post.rev \in Nat /\ post'.rev \in Nat /\ post.rev <= post'.rev
  BY ActTyped, DocTyped DEF EntryInv, Types, Moves, PostMoves
<1>2. a.doc.rev <= post'.rev
  BY <1>1 DEF CopyOf
<1>3. ASSUME a.at \in Deciding \cup {"enqueue", "unqueue"}, Current(a, post')
      PROVE  Agree(a.doc.media, post'.media, slot')
  <2>1. /\ Agree(a.doc.media, post.media, slot)
        /\ \A i \in MediaIds : Settles(post.media[i], post'.media[i])
    BY <1>3, CurrentStays DEF CopyOf
  <2>2. \A i \in MediaIds : slot[i] = "expired" => slot'[i] = "expired"
    BY DEF Moves, SlotMoves
  <2> SUFFICES ASSUME NEW i \in MediaIds
      PROVE  \/ post'.media[i] = a.doc.media[i]
             \/ /\ a.doc.media[i].status = "UPLOADING"
                /\ post'.media[i].status \in {"READY", "FAILED"}
                /\ post'.media[i].type = a.doc.media[i].type
             \/ /\ a.doc.media[i] = NoMedia[i] /\ post'.media[i].status = "PENDING"
                /\ slot'[i] = "expired"
    BY DEF Agree
  <2> QED
    BY <2>1, <2>2 DEF Agree, Settles
<1> QED
  BY <1>2, <1>3 DEF CopyOf

LEMMA IdleCopy == ASSUME Types' PROVE CopyOf(Idle, post', slot')
<1>1. post'.rev \in Nat
  BY DocTyped DEF Types
<1> QED
  BY <1>1, IdleTyped DEF CopyOf, Deciding

LEMMA CopiesStep ==
  ASSUME EntryInv, Next, Types'
  PROVE  Copies'
<1>1. Moves
  BY StepMoves
<1>2. post.media \in Media /\ post'.media \in Media /\ post.rev \in Nat /\ post'.rev \in Nat
  BY DocTyped DEF EntryInv, Types
<1>3. Handed(slot', Held(post'.media))
  <2> SUFFICES ASSUME NEW i \in Held(post'.media)
      PROVE  slot'[i] \in {"open", "expired"}
    BY DEF Handed
  <2>1. i \in MediaIds /\ post'.media[i].status # "NONE"
    BY <1>2, HasMeaning
  <2>2. post.media[i].status # "NONE" => slot[i] \in {"open", "expired"}
    BY <1>2, <2>1, HasMeaning DEF EntryInv, Copies, Handed
  <2> QED
    BY <1>1, <2>1, <2>2 DEF Moves, EntriesMove, SlotMoves
<1>4. post'.status = "DELETED" => post'.media = NoMedia
  BY <1>1 DEF Moves, PostMoves
<1>5. \A c \in Clients : act[c] \in Acts /\ act'[c] \in Acts /\ CopyOf(act[c], post, slot)
  BY DEF EntryInv, Types, Copies
<1>6. \A a \in Acts : CopyOf(a, post, slot) => CopyOf(a, post', slot')
  BY <1>1, CopyStays
<1>7. \A c \in Clients : CopyOf(act'[c], post', slot')
  <2>1. CASE UNCHANGED act
    BY <1>5, <1>6, <2>1
  <2>2. ASSUME NEW c \in Clients, NEW a \in Acts, Loads(c, a)
        PROVE  CopyOf(a, post', slot')
    <3>1. a.doc.rev = post'.rev /\ post' = post
      BY <2>2 DEF Loads, LoadsTo
    <3>2. a.doc.media = post.media \/ a.doc.media = PurgeExpiredPendingMedia(post.media)
      BY <2>2 DEF Loads
    <3>3. Agree(a.doc.media, post.media, slot)
      BY <1>2, <3>2, PurgeTyped DEF Agree
    <3>4. CopyOf(a, post, slot)
      BY <1>2, <3>1, <3>3 DEF CopyOf
    <3> QED
      BY <1>6, <3>4
  <2>3. ASSUME NEW c \in Clients, NEW a \in Acts, Saves(c, a)
        PROVE  CopyOf(a, post', slot')
    <3>1. CASE a = Idle
      BY <3>1, IdleCopy
    <3>2. CASE a.at = "enqueue" /\ a.doc.media = post'.media /\ a.doc.rev = post'.rev
      BY <1>2, <3>2 DEF CopyOf, Agree
    <3>3. CASE a.at = "erase" /\ a.doc = act[c].doc
      <4>1. post.rev <= post'.rev
        BY <1>1 DEF Moves, PostMoves
      <4> QED
        BY <1>2, <1>5, <3>3, <4>1, ActKnown DEF CopyOf, Deciding, EntryInv
    <3>4. CASE a.at \in {"idle", "schedule", "publish"} /\ a.doc.rev = post'.rev
      BY <1>2, <3>4 DEF CopyOf, Deciding
    <3> QED
      BY <2>3, <3>1, <3>2, <3>3, <3>4, ActKnown DEF Saves, EntryInv
  <2>4. ASSUME NEW c \in Clients, NEW a \in Acts, Proceeds(c, a)
        PROVE  CopyOf(a, post', slot')
    <3>1. CASE a = Idle
      BY <3>1, IdleCopy
    <3>2. CASE a.at = "unqueue" /\ act[c].at = "enqueue" /\ a.doc = act[c].doc
      <4>1. CopyOf(a, post, slot)
        BY <1>5, <3>2 DEF CopyOf, Current
      <4> QED
        BY <1>6, <4>1
    <3>3. CASE a.at \in {"published", "failed"} /\ a.doc = act[c].doc
      <4>1. CopyOf(a, post, slot)
        BY <1>5, <3>3 DEF CopyOf, Deciding
      <4> QED
        BY <1>6, <4>1
    <3> QED
      BY <2>4, <3>1, <3>2, <3>3 DEF Proceeds
  <2>5. ASSUME NEW c \in Clients, NEW a \in Acts, act' = [act EXCEPT ![c] = a],
               CopyOf(a, post', slot')
        PROVE  \A d \in Clients : CopyOf(act'[d], post', slot')
    BY <1>5, <1>6, <2>5 DEF EntryInv, Types
  <2>6. Edits \/ Happens => UNCHANGED act
    BY DEF Edits, Happens
  <2>7. \A w \in Workers, e \in Execs, j \in MediaIds, x \in Jobs :
          Runs(w, e, j, x) => UNCHANGED act
    BY DEF Runs, RunsTo
  <2>8. \A c \in Clients, a \in Acts : Loads(c, a) \/ Saves(c, a) \/ Proceeds(c, a) =>
          act' = [act EXCEPT ![c] = a]
    BY DEF Loads, LoadsTo, Saves, SavesTo, Proceeds
  <2> QED
    BY <2>1, <2>2, <2>3, <2>4, <2>5, <2>6, <2>7, <2>8, StepForms DEF EntryInv
<1> QED
  BY <1>3, <1>4, <1>7 DEF Copies

-----------------------------------------------------------------------------
(* The entries the requests are about                                       *)

\* Slots that were taken stay so, unless their own request saves.
TakenStays == \A i \in MediaIds : slot[i] = "taken" => slot'[i] = "taken"

LEMMA OwnsStays ==
  ASSUME EntryInv, Moves, Types', NEW a \in Acts, Owns(a, post, slot, r2),
         CopyOf(a, post, slot),
         a.at = "initiate" => \A i \in a.ids : slot'[i] = "taken"
  PROVE  Owns(a, post', slot', r2')
<1>1. /\ a.ids \in SUBSET MediaIds /\ a.doc.media \in Media
      /\ post.media \in Media /\ post'.media \in Media
  BY ActTyped, DocTyped DEF EntryInv, Types
<1>2. Handed(slot, a.ids) => Handed(slot', a.ids)
  BY <1>1, HandedStays DEF Moves
<1>3. ASSUME a.at = "complete", Current(a, post')
      PROVE  a.ids \subseteq r2'
  <2>1. Current(a, post) /\ Agree(a.doc.media, post.media, slot)
    BY <1>3, CurrentStays DEF CopyOf, Deciding
  <2>2. a.ids \subseteq r2 /\ \A i \in a.ids : a.doc.media[i].status = "PENDING"
    BY <1>1, <1>3, <2>1, HasMeaning DEF Owns
  <2>3. \A i \in a.ids : post.media[i].status = "PENDING"
    BY <1>1, <2>1, <2>2, NoMediaTyped DEF Agree
  <2> QED
    BY <2>2, <2>3 DEF Moves, Erased
<1>4. ASSUME a.at = "erase"
      PROVE  a.ids \cap Held(post'.media) = {}
  <2> SUFFICES ASSUME NEW i \in a.ids, i \in Held(post'.media)
      PROVE  FALSE
    OBVIOUS
  <2>1. i \in MediaIds /\ post.media[i].status = "NONE" /\ slot[i] \in {"open", "expired"}
    BY <1>1, <1>4, HasMeaning DEF Owns, Handed
  <2>2. post'.media[i].status # "NONE"
    BY <1>1, HasMeaning
  <2> QED
    BY <2>1, <2>2 DEF Moves, EntriesMove
<1> QED
  BY <1>2, <1>3, <1>4 DEF Owns

\* A request that has nothing to say of its entries.
LEMMA OwnsNothing ==
  ASSUME NEW a, NEW p, NEW sl, NEW r, a.at \in {"idle"} \cup Sharing
  PROVE  Owns(a, p, sl, r)
  BY DEF Owns, Sharing

LEMMA LoadsOwns ==
  ASSUME EntryInv, NEW c \in Clients, NEW a \in Acts, Loads(c, a)
  PROVE  Owns(a, post', slot', r2')
<1>1. post' = post /\ r2' = r2 /\ post.media \in Media /\ a.ids \in SUBSET MediaIds
  BY ActTyped, DocTyped DEF Loads, LoadsTo, EntryInv, Types
<1>2. CASE a.at = "initiate"
  BY <1>1, <1>2 DEF Loads, Owns
<1>3. CASE a.at = "complete"
  <2>1. a.ids \subseteq Has(post.media, {"PENDING"}) /\ a.ids # {} /\ a.ids \subseteq r2
        /\ a.doc.media = post.media /\ slot' = slot
    BY <1>3 DEF Loads
  <2>2. \A i \in a.ids : i \in Held(post.media)
    BY <1>1, <2>1, HasMeaning
  <2>3. Handed(slot, a.ids)
    BY <2>2 DEF EntryInv, Copies, Handed
  <2> QED
    BY <1>1, <1>3, <2>1, <2>3 DEF Owns
<1>4. CASE a.at = "remove"
  <2>1. a.ids \subseteq Held(post.media) /\ slot' = slot
    BY <1>4 DEF Loads
  <2>2. Handed(slot, a.ids)
    BY <2>1 DEF EntryInv, Copies, Handed
  <2> QED
    BY <1>4, <2>1, <2>2 DEF Owns
<1>5. CASE a.at \in {"update", "purge"}
  BY <1>5 DEF Owns
<1>6. CASE a.at \in {"schedule", "publish"}
  BY <1>6, OwnsNothing DEF Sharing
<1> QED
  BY <1>2, <1>3, <1>4, <1>5, <1>6 DEF Loads

LEMMA SavesOwns ==
  ASSUME EntryInv, Moves, Types', NEW c \in Clients, NEW a \in Acts, Saves(c, a)
  PROVE  Owns(a, post', slot', r2')
<1> DEFINE o == act[c]
<1>1. post'.media \in Media /\ o.ids \in SUBSET MediaIds
  BY ActKnown, DocTyped DEF EntryInv, Types
<1>2. Handed(slot, o.ids) => Handed(slot', o.ids)
  BY <1>1, HandedStays DEF Moves
<1>3. Owns(o, post, slot, r2)
  BY DEF EntryInv, Claims
<1>4. CASE a = Idle
  BY <1>4, IdleTyped, OwnsNothing
<1>5. CASE o.at = "complete" /\ a.at = "enqueue" /\ a.ids = o.ids /\ a.doc.media = post'.media
           /\ \A i \in o.ids : post'.media[i].status = "UPLOADING"
  <2>1. o.ids # {} /\ Handed(slot, o.ids)
    BY <1>3, <1>5 DEF Owns
  <2>2. a.ids \subseteq Has(a.doc.media, {"UPLOADING"})
    BY <1>1, <1>5, HasMeaning
  <2> QED
    BY <1>2, <1>5, <2>1, <2>2 DEF Owns
<1>6. CASE o.at = "remove" /\ a.at = "erase" /\ a.ids = o.ids
           /\ \A i \in o.ids : post'.media[i] = NoMedia[i]
  <2>1. Handed(slot', a.ids)
    BY <1>2, <1>3, <1>6 DEF Owns
  <2>2. a.ids \cap Held(post'.media) = {}
    BY <1>1, <1>6, HasMeaning, NoMediaTyped
  <2> QED
    BY <1>6, <2>1, <2>2 DEF Owns
<1>7. CASE a.at \in {"idle", "schedule", "publish"}
  BY <1>7, OwnsNothing DEF Sharing
<1> QED
  BY <1>4, <1>5, <1>6, <1>7, ActKnown DEF Saves, EntryInv

LEMMA ProceedsOwns ==
  ASSUME EntryInv, Moves, Types', NEW c \in Clients, NEW a \in Acts, Proceeds(c, a)
  PROVE  Owns(a, post', slot', r2')
<1> DEFINE o == act[c]
<1>1. CASE a = Idle
  BY <1>1, IdleTyped, OwnsNothing
<1>2. CASE a.at = "unqueue" /\ o.at = "enqueue" /\ a.doc = o.doc /\ a.ids = o.ids
  <2>1. Owns(o, post, slot, r2) /\ o.ids \in SUBSET MediaIds
    BY ActKnown DEF EntryInv, Claims
  <2>2. Handed(slot', o.ids)
    BY <1>2, <2>1, HandedStays DEF Moves, Owns
  <2> QED
    BY <1>2, <2>1, <2>2 DEF Owns
<1>3. CASE a.at \in {"published", "failed"}
  BY <1>3, OwnsNothing DEF Sharing
<1> QED
  BY <1>1, <1>2, <1>3 DEF Proceeds

LEMMA ClaimsStep ==
  ASSUME EntryInv, Next, Types'
  PROVE  Claims'
<1>1. Moves
  BY StepMoves
<1>2. \A c \in Clients : /\ act[c] \in Acts /\ act'[c] \in Acts /\ act[c].ids \in SUBSET MediaIds
                         /\ CopyOf(act[c], post, slot) /\ Owns(act[c], post, slot, r2)
  BY ActKnown DEF EntryInv, Types, Copies, Claims
<1>3. \A a \in Acts : /\ Owns(a, post, slot, r2) /\ CopyOf(a, post, slot)
                      /\ a.at = "initiate" => \A i \in a.ids : slot'[i] = "taken"
                      => Owns(a, post', slot', r2')
  BY <1>1, OwnsStays
<1>4. CASE TakenStays /\ UNCHANGED act
  <2>1. \A c \in Clients : act[c].at = "initiate" => \A i \in act[c].ids : slot'[i] = "taken"
    BY <1>2, <1>4 DEF Owns, TakenStays
  <2> QED
    BY <1>2, <1>3, <1>4, <2>1 DEF Claims, EntryInv
<1>5. ASSUME NEW c \in Clients, NEW a \in Acts, Loads(c, a)
      PROVE  Claims'
  <2>1. TakenStays
    BY <1>5 DEF Loads, TakenStays
  <2>2. Owns(a, post', slot', r2')
    BY <1>5, LoadsOwns
  <2>3. \A d \in Clients : act[d].at = "initiate" => \A i \in act[d].ids : slot[i] = "taken"
    BY <1>2 DEF Owns
  <2>4. act' = [act EXCEPT ![c] = a]
    BY <1>5 DEF Loads, LoadsTo
  <2>5. \A d \in Clients : Owns(act'[d], post', slot', r2')
    BY <1>2, <1>3, <2>1, <2>2, <2>3, <2>4 DEF TakenStays, EntryInv, Types
  <2>6. a.at = "initiate" => \A i \in a.ids : slot[i] = "free"
    BY <1>5 DEF Loads
  <2>7. \A d, e \in Clients : act'[d].at = "initiate" /\ act'[e].at = "initiate" /\ d # e =>
          act'[d].ids \cap act'[e].ids = {}
    BY <2>3, <2>4, <2>6 DEF EntryInv, Types, Claims
  <2> QED
    BY <2>5, <2>7 DEF Claims
<1>6. ASSUME NEW c \in Clients, NEW a \in Acts, Saves(c, a)
      PROVE  Claims'
  <2>1. Owns(a, post', slot', r2')
    BY <1>1, <1>6, SavesOwns
  <2>2. act' = [act EXCEPT ![c] = a] /\ a.at # "initiate"
    BY <1>6, IdleTyped, ActKnown DEF Saves, SavesTo, EntryInv
  <2>3. ASSUME NEW d \in Clients, d # c, act[d].at = "initiate"
        PROVE  \A i \in act[d].ids : slot'[i] = "taken"
    <3>1. \A i \in act[d].ids : slot[i] = "taken"
      BY <1>2, <2>3 DEF Owns
    <3>2. act[c].at = "initiate" => act[c].ids \cap act[d].ids = {}
      BY <2>3 DEF EntryInv, Claims
    <3> QED
      BY <1>2, <1>6, <3>1, <3>2 DEF Saves
  <2>4. \A d \in Clients : Owns(act'[d], post', slot', r2')
    BY <1>2, <1>3, <2>1, <2>2, <2>3 DEF EntryInv, Types
  <2>5. \A d, e \in Clients : act'[d].at = "initiate" /\ act'[e].at = "initiate" /\ d # e =>
          act'[d].ids \cap act'[e].ids = {}
    BY <2>2 DEF EntryInv, Types, Claims
  <2> QED
    BY <2>4, <2>5 DEF Claims
<1>7. ASSUME NEW c \in Clients, NEW a \in Acts, Proceeds(c, a)
      PROVE  Claims'
  <2>1. Owns(a, post', slot', r2')
    BY <1>1, <1>7, ProceedsOwns
  <2>2. act' = [act EXCEPT ![c] = a] /\ a.at # "initiate" /\ slot' = slot
    BY <1>7, IdleTyped DEF Proceeds
  <2>3. \A d \in Clients : act[d].at = "initiate" => \A i \in act[d].ids : slot'[i] = "taken"
    BY <1>2, <2>2 DEF Owns
  <2>4. \A d \in Clients : Owns(act'[d], post', slot', r2')
    BY <1>2, <1>3, <2>1, <2>2, <2>3 DEF EntryInv, Types
  <2>5. \A d, e \in Clients : act'[d].at = "initiate" /\ act'[e].at = "initiate" /\ d # e =>
          act'[d].ids \cap act'[e].ids = {}
    BY <2>2 DEF EntryInv, Types, Claims
  <2> QED
    BY <2>4, <2>5 DEF Claims
<1>8. Edits \/ Happens => TakenStays /\ UNCHANGED act
  BY DEF Edits, Happens, TakenStays, EntryInv, Types
<1>9. \A w \in Workers, e \in Execs, j \in MediaIds, x \in Jobs :
        Runs(w, e, j, x) => TakenStays /\ UNCHANGED act
  BY DEF Runs, RunsTo, TakenStays
<1> QED
  BY <1>4, <1>5, <1>6, <1>7, <1>8, <1>9, StepForms DEF EntryInv

\* Files of one type, as initiateMediaUpload wants them.
LEMMA KindsStep ==
  ASSUME EntryInv, Next, Types'
  PROVE  Kinds'
<1>1. Uniform(post'.media)
  BY StepMoves DEF Moves, PostMoves
<1>2. ASSUME NEW c \in Clients, NEW a \in Acts, act' = [act EXCEPT ![c] = a],
             a.at = "initiate" => Held(a.doc.media) = Of(a.doc.media, a.type)
      PROVE  Kinds'
  BY <1>1, <1>2 DEF EntryInv, Types, Kinds
<1>3. CASE UNCHANGED act
  BY <1>1, <1>3 DEF EntryInv, Kinds
<1>4. \A c \in Clients, a \in Acts : Loads(c, a) =>
        /\ act' = [act EXCEPT ![c] = a]
        /\ a.at = "initiate" => Held(a.doc.media) = Of(a.doc.media, a.type)
  BY DEF Loads, LoadsTo
<1>5. \A c \in Clients, a \in Acts : Saves(c, a) \/ Proceeds(c, a) =>
        act' = [act EXCEPT ![c] = a] /\ a.at # "initiate"
  BY IdleTyped, ActKnown DEF Saves, SavesTo, Proceeds, EntryInv
<1>6. /\ Edits \/ Happens => UNCHANGED act
      /\ \A w \in Workers, e \in Execs, j \in MediaIds, x \in Jobs :
           Runs(w, e, j, x) => UNCHANGED act
  BY DEF Edits, Happens, Runs, RunsTo
<1> QED
  BY <1>2, <1>3, <1>4, <1>5, <1>6, StepForms DEF EntryInv

-----------------------------------------------------------------------------
(* What is confirmed and filed                                              *)

\* Entries past their confirmation do not wait for a file again.
LEMMA NotPendingStays ==
  ASSUME Moves, Types, Types', NEW ids \in SUBSET MediaIds, Handed(slot, ids),
         ids \cap Has(post.media, {"PENDING"}) = {}
  PROVE  ids \cap Has(post'.media, {"PENDING"}) = {}
<1>1. post.media \in Media /\ post'.media \in Media
  BY DocTyped DEF Types
<1> SUFFICES ASSUME NEW i \in ids, i \in Has(post'.media, {"PENDING"})
    PROVE  FALSE
  OBVIOUS
<1>2. i \in MediaIds /\ post.media[i].status # "PENDING" /\ post'.media[i].status = "PENDING"
  BY <1>1, HasMeaning
<1> QED
  BY <1>2 DEF Handed, Moves, EntriesMove

\* The jobs after a step that files none.
FilesNone == \A j \in MediaIds :
  job'[j].items = job[j].items /\ (job'[j].st # "none" => job[j].st # "none")

FiledInv(j) ==
  /\ job[j].items \cap Has(post.media, {"PENDING"}) = {}
  /\ Handed(slot, job[j].items)
  /\ job[j].st # "none" => j \in job[j].items

LEMMA FiledStays ==
  ASSUME EntryInv, Moves, Types', NEW j \in MediaIds, job'[j].items = job[j].items,
         job'[j].st # "none" => job[j].st # "none"
  PROVE  FiledInv(j)'
<1>1. FiledInv(j) /\ job[j].items \in SUBSET MediaIds
  BY JobKnown DEF EntryInv, Confirmations, FiledInv
<1>2. Handed(slot', job[j].items)
  BY <1>1, HandedStays DEF Moves, FiledInv
<1>3. job[j].items \cap Has(post'.media, {"PENDING"}) = {}
  BY <1>1, NotPendingStays DEF EntryInv, FiledInv
<1> QED
  BY <1>1, <1>2, <1>3 DEF FiledInv

\* What a request that is confirming its entries knows of the others.
ConfirmInv(a, p, jb) ==
  /\ Confirming(a) => a.ids \cap Has(p.media, {"PENDING"}) = {}
  /\ a.at = "enqueue" => \A j \in MediaIds : a.ids \cap jb[j].items = {}

LEMMA ConfirmStays ==
  ASSUME EntryInv, Moves, Types', NEW c \in Clients, NEW jb,
         act[c].at = "enqueue" => \A j \in MediaIds : act[c].ids \cap jb[j].items = {}
  PROVE  ConfirmInv(act[c], post', jb)
<1>1. Confirming(act[c]) => act[c].ids \cap Has(post'.media, {"PENDING"}) = {}
  <2>1. Confirming(act[c]) => /\ Handed(slot, act[c].ids)
                              /\ act[c].ids \cap Has(post.media, {"PENDING"}) = {}
    BY DEF Confirming, EntryInv, Claims, Owns, Confirmations
  <2> QED
    BY <2>1, ActKnown, NotPendingStays DEF EntryInv
<1> QED
  BY <1>1 DEF ConfirmInv

LEMMA ConfirmationsMade ==
  ASSUME \A j \in MediaIds : FiledInv(j)',
         \A c \in Clients : ConfirmInv(act'[c], post', job'),
         \A c, d \in Clients : Confirming(act'[c]) /\ Confirming(act'[d]) /\ c # d =>
           act'[c].ids \cap act'[d].ids = {}
  PROVE  Confirmations'
  BY DEF FiledInv, ConfirmInv, Confirmations

LEMMA ConfirmationsStep ==
  ASSUME EntryInv, Next, Types'
  PROVE  Confirmations'
<1>1. Moves
  BY StepMoves
<1>2. \A c, d \in Clients : Confirming(act[c]) /\ Confirming(act[d]) /\ c # d =>
        act[c].ids \cap act[d].ids = {}
  BY DEF EntryInv, Confirmations
<1>3. \A c \in Clients : act[c].at = "enqueue" =>
        \A j \in MediaIds : act[c].ids \cap job[j].items = {}
  BY DEF EntryInv, Confirmations
<1>4. ASSUME FilesNone, UNCHANGED act
      PROVE  Confirmations'
  <2>1. \A j \in MediaIds : FiledInv(j)'
    BY <1>1, <1>4, FiledStays DEF FilesNone
  <2>2. \A c \in Clients : ConfirmInv(act[c], post', job')
    BY <1>1, <1>3, <1>4, ConfirmStays DEF FilesNone
  <2> QED
    BY <1>2, <1>4, <2>1, <2>2, ConfirmationsMade
<1>5. ASSUME FilesNone, NEW c \in Clients, NEW a \in Acts, act' = [act EXCEPT ![c] = a],
             \/ ~Confirming(a)
             \/ Confirming(act[c]) /\ a.at = "unqueue" /\ a.ids = act[c].ids
      PROVE  Confirmations'
  <2>1. \A j \in MediaIds : FiledInv(j)'
    BY <1>1, <1>5, FiledStays DEF FilesNone
  <2>2. \A d \in Clients : ConfirmInv(act[d], post', job')
    BY <1>1, <1>3, <1>5, ConfirmStays DEF FilesNone
  <2>3. ConfirmInv(a, post', job')
    BY <1>5, <2>2 DEF ConfirmInv, Confirming
  <2>4. \A d \in Clients : ConfirmInv(act'[d], post', job')
    BY <1>5, <2>2, <2>3 DEF EntryInv, Types
  <2>5. \A d, e \in Clients : Confirming(act'[d]) /\ Confirming(act'[e]) /\ d # e =>
          act'[d].ids \cap act'[e].ids = {}
    BY <1>2, <1>5 DEF EntryInv, Types
  <2> QED
    BY <2>1, <2>4, <2>5, ConfirmationsMade
<1>6. ASSUME NEW c \in Clients, NEW a \in Acts, Saves(c, a), act[c].at = "complete",
             a.at = "enqueue", a.ids = act[c].ids,
             \A i \in a.ids : post'.media[i].status = "UPLOADING"
      PROVE  Confirmations'
  <2> DEFINE o == act[c]
  <2>1. /\ act' = [act EXCEPT ![c] = a] /\ job' = job /\ o.ids \in SUBSET MediaIds
        /\ o.doc.media \in Media /\ post.media \in Media /\ post'.media \in Media
    BY <1>6, ActKnown, DocTyped DEF Saves, SavesTo, EntryInv, Types
  <2>2. \A i \in o.ids : post.media[i].status = "PENDING"
    <3>1. Current(o, post) /\ o.ids \subseteq Has(o.doc.media, {"PENDING"})
      BY <1>6 DEF Saves, SavesTo, Current, EntryInv, Claims, Owns
    <3>2. Agree(o.doc.media, post.media, slot)
      BY <1>6, <3>1 DEF EntryInv, Copies, CopyOf, Deciding
    <3> QED
      BY <2>1, <3>1, <3>2, HasMeaning, NoMediaTyped DEF Agree
  <2>3. o.ids \subseteq Has(post.media, {"PENDING"})
    BY <2>1, <2>2, HasMeaning
  <2>4. \A j \in MediaIds : FiledInv(j)'
    BY <1>1, <2>1, FiledStays
  <2>5. \A d \in Clients : ConfirmInv(act[d], post', job')
    BY <1>1, <1>3, <2>1, ConfirmStays
  <2>6. ConfirmInv(a, post', job')
    <3>1. a.ids \cap Has(post'.media, {"PENDING"}) = {}
      BY <1>6, <2>1, HasMeaning
    <3>2. \A j \in MediaIds : a.ids \cap job[j].items = {}
      BY <1>6, <2>3 DEF EntryInv, Confirmations
    <3> QED
      BY <2>1, <3>1, <3>2 DEF ConfirmInv
  <2>7. \A d \in Clients : ConfirmInv(act'[d], post', job')
    BY <2>1, <2>5, <2>6 DEF EntryInv, Types
  <2>8. \A d \in Clients : Confirming(act[d]) => act[d].ids \cap a.ids = {}
    BY <1>6, <2>3 DEF EntryInv, Confirmations
  <2>9. \A d, e \in Clients : Confirming(act'[d]) /\ Confirming(act'[e]) /\ d # e =>
          act'[d].ids \cap act'[e].ids = {}
    BY <1>2, <2>1, <2>8 DEF EntryInv, Types
  <2> QED
    BY <2>4, <2>7, <2>9, ConfirmationsMade
<1>7. ASSUME NEW c \in Clients, NEW a \in Acts, act' = [act EXCEPT ![c] = a],
             act[c].at = "enqueue",
             a = Idle \/ (a.at = "unqueue" /\ a.ids = act[c].ids),
             NEW i \in act[c].ids, NEW x \in Jobs, job' = [job EXCEPT ![i] = x],
             x.items = act[c].ids
      PROVE  Confirmations'
  <2> DEFINE o == act[c]
  <2>1. /\ o.ids \in SUBSET MediaIds /\ Handed(slot, o.ids)
        /\ o.ids \cap Has(post.media, {"PENDING"}) = {}
    BY <1>7, ActKnown DEF EntryInv, Claims, Owns, Confirmations, Confirming
  <2>2. \A j \in MediaIds : job'[j] = IF j = i THEN x ELSE job[j]
    BY <1>7 DEF EntryInv, Types
  <2>3. \A j \in MediaIds : FiledInv(j)'
    <3>1. \A j \in MediaIds : j # i => FiledInv(j)'
      BY <1>1, <2>2, FiledStays
    <3>2. Handed(slot', o.ids) /\ o.ids \cap Has(post'.media, {"PENDING"}) = {}
      BY <1>1, <2>1, HandedStays, NotPendingStays DEF Moves, EntryInv
    <3>3. i \in MediaIds /\ job'[i] = x
      BY <2>1, <2>2
    <3>4. FiledInv(i)'
      BY <1>7, <3>2, <3>3 DEF FiledInv
    <3> QED
      BY <3>1, <3>4
  <2>4. \A d \in Clients : d # c => ConfirmInv(act[d], post', job')
    <3> SUFFICES ASSUME NEW d \in Clients, d # c
        PROVE  ConfirmInv(act[d], post', job')
      OBVIOUS
    <3>1. act[d].at = "enqueue" => act[d].ids \cap o.ids = {}
      BY <1>2, <1>7 DEF Confirming
    <3>2. act[d].at = "enqueue" => \A j \in MediaIds : act[d].ids \cap job'[j].items = {}
      BY <1>3, <1>7, <2>2, <3>1
    <3> QED
      BY <1>1, <3>2, ConfirmStays
  <2>5. ConfirmInv(a, post', job')
    <3>1. o.ids \cap Has(post'.media, {"PENDING"}) = {}
      BY <1>1, <2>1, NotPendingStays DEF EntryInv
    <3> QED
      BY <1>7, <3>1, IdleTyped DEF ConfirmInv, Confirming
  <2>6. \A d \in Clients : ConfirmInv(act'[d], post', job')
    BY <1>7, <2>4, <2>5 DEF EntryInv, Types
  <2>7. \A d, e \in Clients : Confirming(act'[d]) /\ Confirming(act'[e]) /\ d # e =>
          act'[d].ids \cap act'[e].ids = {}
    BY <1>2, <1>7, IdleTyped DEF Confirming, EntryInv, Types
  <2> QED
    BY <2>3, <2>6, <2>7, ConfirmationsMade
<1>8. ASSUME NEW c \in Clients, NEW a \in Acts, Loads(c, a)
      PROVE  Confirmations'
  <2>1. act' = [act EXCEPT ![c] = a] /\ ~Confirming(a) /\ FilesNone
    BY <1>8 DEF Loads, LoadsTo, Confirming, FilesNone
  <2> QED
    BY <1>5, <2>1
<1>9. ASSUME NEW c \in Clients, NEW a \in Acts, Saves(c, a)
      PROVE  Confirmations'
  <2>1. act' = [act EXCEPT ![c] = a] /\ FilesNone
    BY <1>9 DEF Saves, SavesTo, FilesNone
  <2>2. CASE Confirming(a)
    <3>1. act[c].at = "complete"
      BY <1>9, <2>2, IdleTyped, ActKnown DEF Saves, Confirming, EntryInv
    <3> QED
      BY <1>6, <1>9, <3>1 DEF Saves
  <2> QED
    BY <1>5, <2>1, <2>2
<1>10. ASSUME NEW c \in Clients, NEW a \in Acts, Proceeds(c, a)
       PROVE  Confirmations'
  <2>1. act' = [act EXCEPT ![c] = a]
    BY <1>10 DEF Proceeds
  <2>2. CASE UNCHANGED job
    <3>1. FilesNone
      BY <2>2 DEF FilesNone
    <3>2. \/ ~Confirming(a)
          \/ Confirming(act[c]) /\ a.at = "unqueue" /\ a.ids = act[c].ids
      BY <1>10, IdleTyped DEF Proceeds, Confirming
    <3> QED
      BY <1>5, <2>1, <3>1, <3>2
  <2>3. CASE /\ act[c].at = "enqueue"
             /\ a = Idle \/ (a.at = "unqueue" /\ a.ids = act[c].ids)
             /\ \E i \in act[c].ids, x \in Jobs :
                  job' = [job EXCEPT ![i] = x] /\ x.items = act[c].ids
    BY <1>7, <2>1, <2>3
  <2> QED
    BY <1>10, <2>2, <2>3 DEF Proceeds
<1>11. Edits => FilesNone /\ UNCHANGED act
  BY DEF Edits, FilesNone
<1>12. Happens => FilesNone /\ UNCHANGED act
  BY DEF Happens, FilesNone, EntryInv, Types
<1>13. ASSUME NEW w \in Workers, NEW e \in Execs, NEW j \in MediaIds, NEW x \in Jobs,
              Runs(w, e, j, x)
       PROVE  FilesNone /\ UNCHANGED act
  <2>1. job[j].st # "none"
    BY <1>13 DEF Runs, RunsTo, EntryInv, Executions, Running
  <2>2. x.items = job[j].items /\ job' = [job EXCEPT ![j] = x] /\ UNCHANGED act
    BY <1>13 DEF Runs, RunsTo
  <2> QED
    BY <2>1, <2>2 DEF FilesNone, EntryInv, Types
<1> QED
  BY <1>4, <1>8, <1>9, <1>10, <1>11, <1>12, <1>13, StepForms DEF EntryInv

-----------------------------------------------------------------------------
(* The executions                                                           *)

JobInv(x) ==
  /\ x.tries <= Attempts /\ x.stalls <= MaxStalls + 1
  /\ x.st \in {"waiting", "active", "orphan"} => x.tries < Attempts
  /\ x.st \in {"active", "orphan"} => x.stalls <= MaxStalls

ExecInv(e, jb) ==
  /\ e.at = "rest" <=> e.j = NoId
  /\ e.at = "fail" => jb[e.j].st = "over"
  /\ e.at \in Running => jb[e.j].st = "active"
  /\ e.at # "rest" => e.todo \subseteq jb[e.j].items
  /\ e.at \in AtHand => e.i \in e.todo

LEMMA ExecutionsMean ==
  Executions <=> /\ \A j \in MediaIds : JobInv(job[j])
                 /\ \A w \in Workers : ExecInv(exec[w], job)
                 /\ \A v, w \in Workers :
                      exec[v].at \in Running /\ exec[w].at \in Running /\ v # w =>
                        exec[v].j # exec[w].j
  BY DEF Executions, JobInv, ExecInv

LEMMA ExecutionsMade ==
  ASSUME \A j \in MediaIds : JobInv(job'[j]),
         \A w \in Workers : ExecInv(exec'[w], job'),
         \A v, w \in Workers : exec'[v].at \in Running /\ exec'[w].at \in Running /\ v # w =>
           exec'[v].j # exec'[w].j
  PROVE  Executions'
  BY DEF Executions, JobInv, ExecInv

\* Nobody else is at the job of a worker that moves on.
LEMMA RunsAlone ==
  ASSUME EntryInv, NEW w \in Workers, NEW e \in Execs, NEW j \in MediaIds, NEW x \in Jobs,
         Runs(w, e, j, x), NEW v \in Workers, v # w, exec[v].at # "rest"
  PROVE  /\ exec[v].j \in MediaIds /\ job'[exec[v].j] = job[exec[v].j]
         /\ exec[w].at = "rest" => exec[v].j # j
<1> DEFINE o == exec[w]
<1>1. exec[v].j \in MediaIds /\ exec[v].at \in {"fail"} \cup Running
  BY ExecKnown DEF EntryInv, Stations
<1>2. job[exec[v].j].st \in {"active", "over"}
  BY <1>1 DEF EntryInv, Executions
<1>3. job' = [job EXCEPT ![j] = x] /\ (o.at # "rest" => j = o.j)
  BY DEF Runs, RunsTo
<1>4. CASE o.at = "rest"
  <2>1. job[j].st = "waiting"
    BY <1>4 DEF Runs, Running
  <2> QED
    BY <1>1, <1>2, <1>3, <1>4, <2>1 DEF EntryInv, Types
<1>5. CASE o.at = "fail"
  <2>1. x = job[j]
    BY <1>5 DEF Runs, Running
  <2> QED
    BY <1>1, <1>3, <1>5, <2>1 DEF EntryInv, Types
<1>6. CASE o.at \in Running
  <2>1. exec[v].j # o.j
    BY <1>1, <1>6 DEF EntryInv, Executions
  <2> QED
    BY <1>1, <1>3, <1>6, <2>1 DEF EntryInv, Types, Running
<1> QED
  BY <1>4, <1>5, <1>6, ExecKnown DEF EntryInv, Stations

LEMMA RunsExecutions ==
  ASSUME EntryInv, NEW w \in Workers, NEW e \in Execs, NEW j \in MediaIds, NEW x \in Jobs,
         Runs(w, e, j, x)
  PROVE  Executions'
<1> DEFINE o == exec[w]
<1>1. /\ job' = [job EXCEPT ![j] = x] /\ exec' = [exec EXCEPT ![w] = e]
      /\ (o.at # "rest" => j = o.j) /\ x.items = job[j].items
  BY DEF Runs, RunsTo
<1>2. /\ \A k \in MediaIds : job'[k] = IF k = j THEN x ELSE job[k]
      /\ \A v \in Workers : exec'[v] = IF v = w THEN e ELSE exec[v]
  BY <1>1 DEF EntryInv, Types
<1>3. /\ \A k \in MediaIds : JobInv(job[k])
      /\ \A v \in Workers : ExecInv(exec[v], job)
  BY ExecutionsMean DEF EntryInv
<1>4. /\ job[j].tries \in Nat /\ job[j].stalls \in Nat /\ x.tries \in Nat /\ x.stalls \in Nat
      /\ j # NoId
  BY JobKnown, MediaAssumption DEF EntryInv, Jobs
<1>5. JobInv(x)
  <2>1. o.at \in Running => job[j].st = "active"
    BY <1>1, <1>3 DEF ExecInv, Running
  <2>2. CASE x = job[j]
    BY <1>3, <2>2
  <2>3. CASE x.st \in {"over", "orphan"} /\ x.tries = job[j].tries /\ x.stalls = job[j].stalls
             /\ (x.st = "orphan" => job[j].st = "active")
    BY <1>3, <1>4, <2>3 DEF JobInv
  <2>4. CASE x.st = "active" /\ x.tries = job[j].tries /\ x.stalls = job[j].stalls
             /\ job[j].st = "waiting" /\ job[j].stalls <= MaxStalls
    BY <1>3, <1>4, <2>4 DEF JobInv
  <2>5. CASE /\ x.tries = job[j].tries + 1 /\ x.stalls = job[j].stalls
             /\ job[j].st = "active"
             /\ x.st = "over" \/ (x.st = "waiting" /\ x.tries < Attempts)
    BY <1>3, <1>4, <2>5, MediaAssumption DEF JobInv
  <2> QED
    BY <2>1, <2>2, <2>3, <2>4, <2>5 DEF Runs, Running
<1>6. ExecInv(e, job')
  <2>1. ExecInv(o, job) /\ o.todo \subseteq o.todo
    BY <1>3
  <2>2. job'[j] = x
    BY <1>2
  <2>3. CASE e = Resting
    BY <2>3, RestingTyped DEF ExecInv, Running, AtHand
  <2>4. CASE e = o /\ o.at = "rest"
    BY <2>1, <2>4 DEF ExecInv, Running, AtHand
  <2>5. CASE o.at = "rest" /\ e.at = "start" /\ e.j = j /\ e.todo = job[j].items
             /\ x.st = "active"
    BY <1>1, <1>4, <2>2, <2>5 DEF ExecInv, Running, AtHand
  <2>6. CASE o.at # "rest" /\ e.at = "fail" /\ e.j = j /\ e.todo = job[j].items
             /\ x.st = "over"
    BY <1>1, <1>4, <2>2, <2>6 DEF ExecInv, Running, AtHand
  <2>7. CASE o.at = "fail" /\ x = job[j] /\ e.at = "fail" /\ e.j = o.j /\ e.todo \subseteq o.todo
    BY <1>1, <1>4, <2>1, <2>2, <2>7 DEF ExecInv, Running, AtHand
  <2>8. CASE o.at \in Running /\ x = job[j] /\ e.at \in Running /\ e.j = o.j
             /\ e.todo \subseteq o.todo /\ (e.at \in AtHand => e.i \in e.todo)
    BY <1>1, <1>4, <2>1, <2>2, <2>8 DEF ExecInv, Running, AtHand
  <2>9. \/ e = Resting \/ (e = o /\ o.at = "rest")
        \/ o.at = "rest" /\ e.at = "start" /\ e.j = j /\ e.todo = job[j].items
             /\ x.st = "active"
        \/ o.at # "rest" /\ e.at = "fail" /\ e.j = j /\ e.todo = job[j].items /\ x.st = "over"
        \/ o.at = "fail" /\ x = job[j] /\ e.at = "fail" /\ e.j = o.j /\ e.todo \subseteq o.todo
        \/ o.at \in Running /\ x = job[j] /\ e.at \in Running /\ e.j = o.j
             /\ e.todo \subseteq o.todo /\ (e.at \in AtHand => e.i \in e.todo)
    <3>1. o.at \in AtHand => o.i \in o.todo
      BY <2>1 DEF ExecInv
    <3> QED
      BY <3>1 DEF Runs, Keeps, Running, AtHand
  <2> QED
    BY <2>3, <2>4, <2>5, <2>6, <2>7, <2>8, <2>9
<1>7. \A v \in Workers : v # w => ExecInv(exec[v], job')
  <2> SUFFICES ASSUME NEW v \in Workers, v # w
      PROVE  ExecInv(exec[v], job')
    OBVIOUS
  <2>1. CASE exec[v].at = "rest"
    BY <1>3, <2>1 DEF ExecInv, Running, AtHand
  <2>2. CASE exec[v].at # "rest"
    <3>1. job'[exec[v].j] = job[exec[v].j]
      BY <2>2, RunsAlone
    <3> QED
      BY <1>3, <3>1 DEF ExecInv
  <2> QED
    BY <2>1, <2>2
<1>8. \A v \in Workers : v # w /\ exec[v].at \in Running /\ e.at \in Running => exec[v].j # e.j
  <2> SUFFICES ASSUME NEW v \in Workers, v # w, exec[v].at \in Running, e.at \in Running
      PROVE  exec[v].j # e.j
    OBVIOUS
  <2>1. exec[v].at # "rest"
    BY DEF Running
  <2>2. CASE o.at = "rest"
    <3>1. e.j = j
      BY <2>2 DEF Runs, Running
    <3> QED
      BY <2>1, <2>2, <3>1, RunsAlone
  <2>3. CASE o.at # "rest"
    <3>1. o.at \in Running /\ e.j = o.j
      BY <2>3, RestingTyped DEF Runs, Keeps, Running
    <3> QED
      BY <3>1 DEF EntryInv, Executions
  <2> QED
    BY <2>2, <2>3
<1>9. \A u, v \in Workers : exec'[u].at \in Running /\ exec'[v].at \in Running /\ u # v =>
        exec'[u].j # exec'[v].j
  BY <1>2, <1>8 DEF EntryInv, Executions
<1>10. \A k \in MediaIds : JobInv(job'[k])
  BY <1>2, <1>3, <1>5
<1>11. \A v \in Workers : ExecInv(exec'[v], job')
  BY <1>2, <1>6, <1>7
<1> QED
  BY <1>9, <1>10, <1>11, ExecutionsMade

\* A new job, or one that waits again: no worker is at it.
LEMMA JobAlone ==
  ASSUME EntryInv, NEW j \in MediaIds, NEW x \in Jobs, job' = [job EXCEPT ![j] = x],
         exec' = exec, JobInv(x), job[j].st \notin {"active", "over"}
  PROVE  Executions'
<1>1. \A k \in MediaIds : job'[k] = IF k = j THEN x ELSE job[k]
  BY DEF EntryInv, Types
<1>2. /\ \A k \in MediaIds : JobInv(job[k])
      /\ \A v \in Workers : ExecInv(exec[v], job)
  BY ExecutionsMean DEF EntryInv
<1>3. \A v \in Workers : ExecInv(exec[v], job')
  <2> SUFFICES ASSUME NEW v \in Workers
      PROVE  ExecInv(exec[v], job')
    OBVIOUS
  <2>1. exec[v].at # "rest" => exec[v].j \in MediaIds /\ exec[v].at \in {"fail"} \cup Running
    BY ExecKnown DEF EntryInv, Stations
  <2>2. exec[v].at # "rest" => job'[exec[v].j] = job[exec[v].j]
    BY <1>1, <1>2, <2>1 DEF ExecInv
  <2> QED
    BY <1>2, <2>2 DEF ExecInv, Running, AtHand
<1>4. \A k \in MediaIds : JobInv(job'[k])
  BY <1>1, <1>2
<1>5. \A u, v \in Workers : exec'[u].at \in Running /\ exec'[v].at \in Running /\ u # v =>
        exec'[u].j # exec'[v].j
  BY DEF EntryInv, Executions
<1> QED
  BY <1>3, <1>4, <1>5, ExecutionsMade

LEMMA ExecutionsStep ==
  ASSUME EntryInv, Next
  PROVE  Executions'
<1>1. CASE UNCHANGED <<job, exec>>
  BY <1>1 DEF EntryInv, Executions
<1>2. ASSUME NEW c \in Clients, NEW a \in Acts, Proceeds(c, a)
      PROVE  Executions'
  <2>1. CASE UNCHANGED job
    BY <1>1, <1>2, <2>1 DEF Proceeds
  <2>2. CASE act[c].at = "enqueue" /\ \E i \in act[c].ids, x \in Jobs :
               /\ job' = [job EXCEPT ![i] = x]
               /\ x.st = "waiting" /\ x.items = act[c].ids /\ x.tries = 0 /\ x.stalls = 0
    <3>1. PICK i \in act[c].ids, x \in Jobs :
            /\ job' = [job EXCEPT ![i] = x]
            /\ x.st = "waiting" /\ x.tries = 0 /\ x.stalls = 0
      BY <2>2
    <3>2. i \in MediaIds
      BY ActKnown DEF EntryInv
    <3>3. job[i].st = "none"
      BY <2>2, <3>2 DEF EntryInv, Confirmations
    <3>4. JobInv(x)
      BY <3>1, MediaAssumption DEF JobInv
    <3>5. exec' = exec
      BY <1>2 DEF Proceeds
    <3> QED
      BY <3>1, <3>2, <3>3, <3>4, <3>5, JobAlone
  <2> QED
    BY <1>2, <2>1, <2>2 DEF Proceeds
<1>3. ASSUME Happens
      PROVE  Executions'
  <2>1. CASE UNCHANGED job
    BY <1>1, <1>3, <2>1 DEF Happens
  <2>2. CASE \E j \in MediaIds, x \in Jobs :
          /\ job' = [job EXCEPT ![j] = x] /\ x.st = "waiting" /\ job[j].st = "orphan"
          /\ x.items = job[j].items /\ x.tries = job[j].tries
          /\ x.stalls = job[j].stalls + 1
    <3>1. PICK j \in MediaIds, x \in Jobs :
            /\ job' = [job EXCEPT ![j] = x] /\ x.st = "waiting" /\ job[j].st = "orphan"
            /\ x.tries = job[j].tries /\ x.stalls = job[j].stalls + 1
      BY <2>2
    <3>2. JobInv(job[j]) /\ job[j].stalls \in Nat /\ job[j].tries \in Nat
      BY ExecutionsMean, JobKnown DEF EntryInv
    <3>3. JobInv(x)
      BY <3>1, <3>2, MediaAssumption DEF JobInv
    <3>4. exec' = exec
      BY <1>3 DEF Happens
    <3> QED
      BY <3>1, <3>3, <3>4, JobAlone
  <2> QED
    BY <1>3, <2>1, <2>2 DEF Happens
<1>4. \A c \in Clients, a \in Acts : Loads(c, a) \/ Saves(c, a) => UNCHANGED <<job, exec>>
  BY DEF Loads, LoadsTo, Saves, SavesTo
<1>5. Edits => UNCHANGED <<job, exec>>
  BY DEF Edits
<1> QED
  BY <1>1, <1>2, <1>3, <1>4, <1>5, RunsExecutions, StepForms DEF EntryInv

-----------------------------------------------------------------------------
(* The objects                                                              *)

\* What nothing waits for stays so, once it was confirmed.
LEMMA OverStays ==
  ASSUME Types, Types', Moves, NEW i \in Over, post.media[i].status # "PENDING"
  PROVE  i \in Over'
<1>1. i \in MediaIds /\ post.media \in Media /\ post'.media \in Media
  BY DocTyped DEF Over, Types
<1>2. \/ post.media[i].status # "UPLOADING"
      \/ i \in undone \cup forgotten
  BY <1>1, HasMeaning DEF Over, Uploading
<1>3. \/ post'.media[i].status # "UPLOADING"
      \/ i \in undone' \cup forgotten'
  BY <1>1, <1>2 DEF Moves, EntriesMove
<1> QED
  BY <1>1, <1>3, HasMeaning DEF Over, Uploading

\* A job that was filed keeps its items.
ItemsStay == \A j \in MediaIds : job[j].st # "none" => job'[j].items = job[j].items

LEMMA StepItems ==
  ASSUME EntryInv, Next
  PROVE  ItemsStay
<1>1. \A c \in Clients, a \in Acts : Loads(c, a) \/ Saves(c, a) => UNCHANGED job
  BY DEF Loads, LoadsTo, Saves, SavesTo
<1>2. Edits => UNCHANGED job
  BY DEF Edits
<1>3. ASSUME NEW c \in Clients, NEW a \in Acts, Proceeds(c, a)
      PROVE  ItemsStay
  <2>1. CASE UNCHANGED job
    BY <2>1 DEF ItemsStay
  <2>2. CASE act[c].at = "enqueue" /\ \E i \in act[c].ids, x \in Jobs : job' = [job EXCEPT ![i] = x]
    <3>1. PICK i \in act[c].ids, x \in Jobs : job' = [job EXCEPT ![i] = x]
      BY <2>2
    <3>2. i \in MediaIds
      BY ActKnown DEF EntryInv
    <3>3. job[i].st = "none"
      BY <2>2, <3>2 DEF EntryInv, Confirmations
    <3> QED
      BY <3>1, <3>3 DEF ItemsStay, EntryInv, Types
  <2> QED
    BY <1>3, <2>1, <2>2 DEF Proceeds
<1>4. Happens => ItemsStay
  BY DEF Happens, ItemsStay, EntryInv, Types
<1>5. \A w \in Workers, e \in Execs, j \in MediaIds, x \in Jobs : Runs(w, e, j, x) => ItemsStay
  BY DEF Runs, RunsTo, ItemsStay, EntryInv, Types
<1>6. UNCHANGED job => ItemsStay
  BY DEF ItemsStay
<1> QED
  BY <1>1, <1>2, <1>3, <1>4, <1>5, <1>6, StepForms DEF EntryInv

\* What a worker knows of the objects it is about to delete.
OverInv(e, jb, ov) ==
  /\ e.at = "clean" => e.i \in ov
  /\ e.at = "fail" => jb[e.j].items \ e.todo \subseteq ov

LEMMA ItemsNotPending ==
  ASSUME EntryInv, NEW j \in MediaIds, NEW i \in job[j].items
  PROVE  i \in MediaIds /\ post.media[i].status # "PENDING"
<1>1. i \in MediaIds /\ post.media \in Media
  BY JobKnown, DocTyped DEF EntryInv, Types
<1> QED
  BY <1>1, HasMeaning DEF EntryInv, Confirmations

LEMMA OverInvStays ==
  ASSUME EntryInv, Next, Types', NEW w \in Workers
  PROVE  OverInv(exec[w], job', Over')
<1> DEFINE o == exec[w]
<1>1. Moves /\ ItemsStay
  BY StepMoves, StepItems
<1>2. ASSUME o.at # "rest"
      PROVE  /\ o.j \in MediaIds /\ o.todo \subseteq job[o.j].items
             /\ job'[o.j].items = job[o.j].items
  <2>1. o.j \in MediaIds /\ o.at \in {"fail"} \cup Running
    BY <1>2, ExecKnown DEF EntryInv, Stations
  <2>2. job[o.j].st # "none" /\ o.todo \subseteq job[o.j].items
    BY <1>2, <2>1 DEF EntryInv, Executions
  <2> QED
    BY <1>1, <2>1, <2>2 DEF ItemsStay
<1>3. ASSUME o.at = "clean"
      PROVE  o.i \in Over'
  <2>1. o.i \in Over /\ o.i \in o.todo
    BY <1>3 DEF EntryInv, Objects, Executions, AtHand
  <2>2. post.media[o.i].status # "PENDING"
    BY <1>2, <1>3, <2>1, ItemsNotPending
  <2> QED
    BY <1>1, <2>1, <2>2, OverStays DEF EntryInv
<1>4. ASSUME o.at = "fail"
      PROVE  job'[o.j].items \ o.todo \subseteq Over'
  <2> SUFFICES ASSUME NEW i \in job[o.j].items, i \notin o.todo
      PROVE  i \in Over'
    BY <1>2, <1>4
  <2>1. i \in Over
    BY <1>4 DEF EntryInv, Objects
  <2>2. post.media[i].status # "PENDING"
    BY <1>2, <1>4, ItemsNotPending
  <2> QED
    BY <1>1, <2>1, <2>2, OverStays DEF EntryInv
<1> QED
  BY <1>3, <1>4 DEF OverInv

LEMMA ObjectsMade ==
  ASSUME EntryInv, Next, Types', \A w \in Workers : OverInv(exec'[w], job', Over')
  PROVE  Objects'
<1>1. Moves
  BY StepMoves
<1>2. post.media \in Media /\ post'.media \in Media
  BY DocTyped DEF EntryInv, Types
<1>3. ASSUME NEW i \in Uploading', i \notin undone' \cup forgotten'
      PROVE  i \in r2'
  <2>1. i \in MediaIds /\ post'.media[i].status = "UPLOADING"
    BY <1>2, <1>3, HasMeaning DEF Uploading
  <2>2. CASE post.media[i].status = "UPLOADING"
    <3>1. i \in Uploading /\ i \notin undone \cup forgotten
      BY <1>1, <1>2, <1>3, <2>1, <2>2, HasMeaning DEF Uploading, Moves
    <3>2. i \in r2 /\ i \notin Over
      BY <3>1 DEF EntryInv, Objects, Over
    <3> QED
      BY <1>1, <3>2 DEF Moves, Erased
  <2>3. CASE post.media[i].status = "PENDING" /\ i \in r2
    BY <1>1, <2>3 DEF Moves, Erased
  <2> QED
    BY <1>1, <1>3, <2>1, <2>2, <2>3 DEF Moves, EntriesMove
<1> QED
  BY <1>3 DEF Objects, OverInv

LEMMA ObjectsStep ==
  ASSUME EntryInv, Next, Types'
  PROVE  Objects'
<1>1. \A v \in Workers : OverInv(exec[v], job', Over')
  BY OverInvStays
<1>2. CASE UNCHANGED exec
  BY <1>1, <1>2, ObjectsMade
<1>3. ASSUME NEW w \in Workers, NEW e \in Execs, NEW j \in MediaIds, NEW x \in Jobs,
             Runs(w, e, j, x)
      PROVE  Objects'
  <2> DEFINE o == exec[w]
  <2>1. /\ job' = [job EXCEPT ![j] = x] /\ exec' = [exec EXCEPT ![w] = e]
        /\ (o.at # "rest" => j = o.j) /\ x.items = job[j].items
    BY <1>3 DEF Runs, RunsTo
  <2>2. job'[j] = x /\ \A v \in Workers : exec'[v] = IF v = w THEN e ELSE exec[v]
    BY <2>1 DEF EntryInv, Types
  <2>3. OverInv(o, job', Over')
    BY <1>1
  <2>4. post'.media \in Media
    BY DocTyped DEF Types
  <2>5. OverInv(e, job', Over')
    <3>1. CASE e.at \notin {"clean", "fail"}
      BY <3>1 DEF OverInv
    <3>2. CASE o.at = "mark" /\ e.at = "clean" /\ e.i = o.i /\ MarkEntry(o.i, "READY")
      <4>1. o.i \in MediaIds
        BY <3>2, ExecKnown DEF EntryInv, AtHand
      <4>2. post'.media[o.i].status # "UPLOADING"
        BY <3>2, <4>1, MarkMoves
      <4>3. o.i \in Over'
        BY <2>4, <4>1, <4>2, HasMeaning DEF Over, Uploading
      <4> QED
        BY <3>2, <4>3 DEF OverInv
    <3>3. CASE e.at = "fail" /\ e.j = j /\ e.todo = job[j].items
      BY <2>1, <2>2, <3>3 DEF OverInv
    <3>4. CASE /\ o.at = "fail" /\ e.at = "fail" /\ e.j = o.j
               /\ \E i \in o.todo : /\ e.todo = o.todo \ {i}
                                    /\ MarkEntry(i, "FAILED") \/ i \in forgotten'
      <4>1. PICK i \in o.todo : e.todo = o.todo \ {i} /\ (MarkEntry(i, "FAILED") \/ i \in forgotten')
        BY <3>4
      <4>2. i \in MediaIds
        BY ExecKnown DEF EntryInv
      <4>3. i \in Over'
        <5>1. CASE i \in forgotten'
          BY <4>2, <5>1 DEF Over
        <5>2. CASE MarkEntry(i, "FAILED")
          <6>1. post'.media[i].status # "UPLOADING"
            BY <4>2, <5>2, MarkMoves
          <6> QED
            BY <2>4, <4>2, <6>1, HasMeaning DEF Over, Uploading
        <5> QED
          BY <4>1, <5>1, <5>2
      <4> QED
        BY <2>3, <3>4, <4>1, <4>3 DEF OverInv
    <3>5. CASE e = o /\ o.at = "rest"
      BY <3>5 DEF OverInv
    <3> QED
      BY <1>3, <3>1, <3>2, <3>3, <3>4, <3>5, RestingTyped DEF Runs
  <2> QED
    BY <1>1, <2>2, <2>5, ObjectsMade
<1>4. /\ \A c \in Clients, a \in Acts : Loads(c, a) \/ Saves(c, a) \/ Proceeds(c, a)
           => UNCHANGED exec
      /\ Edits \/ Happens => UNCHANGED exec
  BY DEF Loads, LoadsTo, Saves, SavesTo, Proceeds, Edits, Happens
<1> QED
  BY <1>2, <1>3, <1>4, StepForms DEF EntryInv

-----------------------------------------------------------------------------
(* Requests that follow one another                                         *)

Alone(ac) == \A c, d \in Clients : ac[c].at # "idle" /\ ac[d].at # "idle" => c = d

Published(p, st) ==
  /\ p.status \in {"SCHEDULED", "PUBLISHED"} => Publishable(p.media)
  /\ p.status = "PUBLISHED" => st = Held(p.media)

LEMMA SharesMade ==
  ASSUME ~overlaps' => /\ Alone(act') /\ \A c \in Clients : Stands(act'[c], post', sent')
                       /\ Published(post', sent')
  PROVE  Shares'
  BY DEF Shares, Alone, Published

LEMMA SharesMean ==
  ASSUME Shares, ~overlaps
  PROVE  /\ Alone(act) /\ \A c \in Clients : Stands(act[c], post, sent)
         /\ Published(post, sent)
  BY DEF Shares, Alone, Published

LEMMA IdleStands ==
  ASSUME NEW a, NEW p, NEW st, a.at = "idle"
  PROVE  Stands(a, p, st)
  BY DEF Stands, Deciding, Sharing

\* In a publishable array nothing is purged or settled.
LEMMA PublishableMeans ==
  ASSUME NEW m \in Media, Publishable(m)
  PROVE  \A i \in MediaIds : m[i].status \in {"NONE", "READY"}
  BY HasMeaning DEF Publishable

LEMMA PublishableKept ==
  ASSUME Types, Publishable(post.media)
  PROVE  /\ PurgeExpiredPendingMedia(post.media) = post.media
         /\ \A i \in MediaIds, s \in {"READY", "FAILED"} : MarkEntry(i, s) => post' = post
<1>1. post.media \in Media
  BY DocTyped DEF Types
<1>2. \A i \in MediaIds : post.media[i].status \in {"NONE", "READY"}
  BY <1>1, PublishableMeans
<1>3. PurgeExpiredPendingMedia(post.media) = post.media
  <2>1. PurgeExpiredPendingMedia(post.media) \in Media
        /\ \A i \in MediaIds : PurgeExpiredPendingMedia(post.media)[i] = post.media[i]
    BY <1>1, <1>2, PurgeTyped
  <2> QED
    BY <1>1, <2>1 DEF Media
<1>4. Uploading = {}
  BY <1>1, <1>2, HasMeaning DEF Uploading
<1>5. \A i \in MediaIds, s \in {"READY", "FAILED"} : MarkEntry(i, s) => post' = post
  BY <1>4 DEF MarkEntry
<1> QED
  BY <1>3, <1>5

\* The video, or else the images: of one type, they are all there is.
LEMMA ComposedAll ==
  ASSUME NEW m \in Media, Uniform(m)
  PROVE  ComposeUploadedMedia(m) = Held(m)
<1>1. \A i \in MediaIds : m[i].type \in {"IMAGE", "VIDEO"}
  BY EntryTyped DEF MediaType
<1>2. CASE \E i \in Held(m) : m[i].type = "VIDEO"
  <2>1. \A i \in Held(m) : m[i].type = "VIDEO"
    BY <1>2 DEF Uniform
  <2>2. Of(m, "VIDEO") = Held(m) /\ Of(m, "VIDEO") # {}
    BY <1>2, <2>1, HasMeaning
  <2> QED
    BY <2>2 DEF ComposeUploadedMedia
<1>3. CASE \A i \in Held(m) : m[i].type # "VIDEO"
  <2>1. \A i \in Held(m) : m[i].type = "IMAGE"
    BY <1>1, <1>3, HasMeaning
  <2>2. Of(m, "VIDEO") = {}
    BY <1>3 DEF Of
  <2>3. Of(m, "IMAGE") = Held(m)
    BY <2>1 DEF Of
  <2> QED
    BY <2>2, <2>3 DEF ComposeUploadedMedia
<1> QED
  BY <1>2, <1>3

LEMMA LoadsShares ==
  ASSUME EntryInv, Shares, NEW c \in Clients, NEW a \in Acts, Loads(c, a)
  PROVE  Shares'
<1> SUFFICES ASSUME ~overlaps'
    PROVE  /\ Alone(act') /\ \A d \in Clients : Stands(act'[d], post', sent')
           /\ Published(post', sent')
  BY SharesMade
<1>1. /\ ~overlaps /\ \A d \in Clients : act[d].at = "idle"
      /\ act' = [act EXCEPT ![c] = a] /\ post' = post /\ sent' = sent
      /\ a.doc.status = post.status
  BY DEF Loads, LoadsTo
<1>2. Published(post, sent)
  BY <1>1, SharesMean
<1>3. \A d \in Clients : act'[d] = IF d = c THEN a ELSE act[d]
  BY <1>1 DEF EntryInv, Types
<1>4. Stands(a, post, sent)
  <2>1. CASE a.at \in {"initiate", "complete", "update", "remove"}
    <3>1. post.status \in {"DRAFT", "FAILED"}
      BY <2>1 DEF Loads, Editable
    <3> QED
      BY <1>1, <2>1, <3>1 DEF Stands, Sharing
  <2>2. CASE a.at = "purge"
    <3>1. post.status \in {"DRAFT", "SCHEDULED", "FAILED"}
          /\ PurgeExpiredPendingMedia(post.media) # post.media
      BY <2>2 DEF Loads
    <3>2. post.status # "SCHEDULED"
      BY <1>2, <3>1, PublishableKept DEF Published, EntryInv
    <3> QED
      BY <1>1, <2>2, <3>1, <3>2 DEF Stands, Sharing
  <2>3. CASE a.at \in {"schedule", "publish"}
    BY <1>1, <2>3 DEF Loads, Stands, Deciding
  <2> QED
    BY <2>1, <2>2, <2>3 DEF Loads
<1>5. Alone(act')
  BY <1>1, <1>3 DEF Alone
<1>6. \A d \in Clients : Stands(act'[d], post', sent')
  BY <1>1, <1>3, <1>4, IdleStands
<1> QED
  BY <1>1, <1>2, <1>5, <1>6

\* While nobody overlaps, only the request that takes the step is under way.
LEMMA OneUnderWay ==
  ASSUME Types, Alone(act), NEW c \in Clients, act[c].at # "idle",
         NEW a \in Acts, act' = [act EXCEPT ![c] = a]
  PROVE  /\ Alone(act')
         /\ \A d \in Clients : act'[d] = a \/ act'[d].at = "idle"
<1>1. \A d \in Clients : act'[d] = IF d = c THEN a ELSE act[d]
  BY DEF Types
<1>2. \A d \in Clients : d # c => act[d].at = "idle"
  BY DEF Alone
<1> QED
  BY <1>1, <1>2 DEF Alone

LEMMA SavesShares ==
  ASSUME EntryInv, Shares, NEW c \in Clients, NEW a \in Acts, Saves(c, a)
  PROVE  Shares'
<1> DEFINE o == act[c]
<1> SUFFICES ASSUME ~overlaps'
    PROVE  /\ Alone(act') /\ \A d \in Clients : Stands(act'[d], post', sent')
           /\ Published(post', sent')
  BY SharesMade
<1>1. /\ ~overlaps /\ act' = [act EXCEPT ![c] = a] /\ sent' = sent
      /\ o.at \in Deciding \cup {"unqueue"}
      /\ post'.status = post.status \/ post'.status = "DRAFT"
  BY DEF Saves, SavesTo, Deciding
<1>2. Alone(act) /\ Stands(o, post, sent)
  BY <1>1, SharesMean
<1>3. /\ post'.status \notin {"SCHEDULED", "PUBLISHED"}
      /\ o.doc.status \in {"DRAFT", "SCHEDULED", "FAILED"} /\ o.at # "idle"
  BY <1>1, <1>2 DEF Stands, Deciding
<1>4. Stands(a, post', sent')
  <2>1. CASE a = Idle
    BY <2>1, IdleTyped, IdleStands
  <2>2. CASE a.at = "enqueue" /\ (a.doc.status = o.doc.status \/ a.doc.status = "DRAFT")
    BY <1>3, <2>2 DEF Stands, Sharing
  <2>3. CASE a.at = "erase" /\ a.doc = o.doc
    BY <1>3, <2>3 DEF Stands, Sharing
  <2>4. CASE /\ a.at \in {"idle", "schedule", "publish"} /\ a.doc.media = post'.media
             /\ a.doc.status = o.doc.status /\ Publishable(post'.media)
    BY <1>3, <2>4 DEF Stands, Deciding
  <2> QED
    BY <2>1, <2>2, <2>3, <2>4, ActKnown DEF Saves, EntryInv
<1>5. Alone(act') /\ \A d \in Clients : act'[d] = a \/ act'[d].at = "idle"
  BY <1>1, <1>2, <1>3, OneUnderWay DEF EntryInv
<1>6. \A d \in Clients : Stands(act'[d], post', sent')
  BY <1>4, <1>5, IdleStands
<1> QED
  BY <1>3, <1>5, <1>6 DEF Published

LEMMA ProceedsShares ==
  ASSUME EntryInv, Shares, NEW c \in Clients, NEW a \in Acts, Proceeds(c, a)
  PROVE  Shares'
<1> DEFINE o == act[c]
<1> SUFFICES ASSUME ~overlaps'
    PROVE  /\ Alone(act') /\ \A d \in Clients : Stands(act'[d], post', sent')
           /\ Published(post', sent')
  BY SharesMade
<1>1. ~overlaps /\ act' = [act EXCEPT ![c] = a]
  BY DEF Proceeds
<1>2. /\ Alone(act) /\ Stands(o, post, sent) /\ Published(post, sent)
      /\ \A d \in Clients : Stands(act[d], post, sent)
  BY <1>1, SharesMean
<1>3. \A d \in Clients : act'[d] = IF d = c THEN a ELSE act[d]
  BY <1>1 DEF EntryInv, Types
<1>4. CASE /\ UNCHANGED <<post, sent>>
           /\ a.at = "idle" \/ (Stands(a, post, sent) /\ o.at # "idle")
  <2>1. Alone(act')
    BY <1>2, <1>3, <1>4 DEF Alone
  <2>2. \A d \in Clients : Stands(act'[d], post', sent')
    BY <1>2, <1>3, <1>4, IdleStands
  <2> QED
    BY <1>2, <1>4, <2>1, <2>2
<1>5. CASE o.at = "enqueue" /\ a.at = "unqueue" /\ a.doc = o.doc /\ UNCHANGED <<post, sent>>
  <2>1. Stands(a, post, sent)
    BY <1>2, <1>5 DEF Stands, Deciding, Sharing
  <2> QED
    BY <1>4, <1>5, <2>1
<1>6. CASE o.at = "publish" /\ a.at = "failed" /\ a.doc = o.doc /\ UNCHANGED <<post, sent>>
  <2>1. Stands(a, post, sent)
    BY <1>2, <1>6 DEF Stands, Deciding, Sharing
  <2> QED
    BY <1>4, <1>6, <2>1
<1>7. CASE o.at = "publish" /\ a.at = "published" /\ a.doc = o.doc /\ UNCHANGED post
           /\ sent' = ComposeUploadedMedia(o.doc.media)
  <2>1. post.status # "DELETED" => sent' = Held(post.media)
    <3>1. post.status # "DELETED" => o.doc.media = post.media
      BY <1>2, <1>7 DEF Stands, Sharing
    <3>2. ComposeUploadedMedia(post.media) = Held(post.media)
      BY ComposedAll, DocTyped DEF EntryInv, Kinds, Types
    <3> QED
      BY <1>7, <3>1, <3>2
  <2>2. Stands(a, post', sent')
    BY <1>2, <1>7, <2>1 DEF Stands, Deciding, Sharing
  <2>3. Alone(act') /\ \A d \in Clients : act'[d] = a \/ act'[d].at = "idle"
    BY <1>1, <1>2, <1>7, OneUnderWay DEF EntryInv
  <2>4. \A d \in Clients : Stands(act'[d], post', sent')
    BY <2>2, <2>3, IdleStands
  <2>5. Published(post', sent')
    BY <1>2, <1>7 DEF Published, Stands
  <2> QED
    BY <2>3, <2>4, <2>5
<1>8. ASSUME a = Idle, UNCHANGED sent, NEW s \in {"SCHEDULED", "PUBLISHED", "FAILED"},
             SaveStatus(o.doc, s), o.at \in Sharing, s = "PUBLISHED" => o.at = "published"
      PROVE  /\ Alone(act') /\ \A d \in Clients : Stands(act'[d], post', sent')
             /\ Published(post', sent')
  <2>1. Alone(act') /\ \A d \in Clients : act'[d].at = "idle"
    BY <1>1, <1>2, <1>8, OneUnderWay, IdleTyped DEF EntryInv, Sharing
  <2>2. /\ post'.media = post.media /\ post.status # "DELETED"
        /\ post'.status = s \/ post'.status = post.status
    BY <1>8, StatusMade, ActKnown DEF EntryInv, PostStatus
  <2>3. Published(post', sent')
    BY <1>2, <1>8, <2>2 DEF Published, Stands, Sharing
  <2> QED
    BY <2>1, <2>3, IdleStands
<1>9. CASE o.at = "enqueue" /\ (a = Idle \/ (a.at = "unqueue" /\ a.doc = o.doc))
           /\ UNCHANGED <<post, sent>>
  BY <1>4, <1>5, <1>9, IdleTyped
<1>10. CASE a = Idle /\ UNCHANGED <<post, sent>>
  BY <1>4, <1>10, IdleTyped
<1>11. CASE /\ a = Idle /\ UNCHANGED sent
            /\ \/ o.at = "schedule" /\ SaveStatus(o.doc, "SCHEDULED")
               \/ o.at = "published" /\ SaveStatus(o.doc, "PUBLISHED")
               \/ o.at = "failed" /\ SaveStatus(o.doc, "FAILED")
  BY <1>8, <1>11 DEF Sharing
<1> HIDE DEF o
<1> QED
  BY <1>6, <1>7, <1>9, <1>10, <1>11 DEF Proceeds, o

LEMMA EditsShares ==
  ASSUME EntryInv, Shares, Edits
  PROVE  Shares'
<1> SUFFICES ASSUME ~overlaps'
    PROVE  /\ Alone(act') /\ \A d \in Clients : Stands(act'[d], post', sent')
           /\ Published(post', sent')
  BY SharesMade
<1>1. ~overlaps /\ act' = act /\ sent' = sent
  BY DEF Edits
<1>2. /\ Alone(act) /\ Published(post, sent)
      /\ \A d \in Clients : Stands(act[d], post, sent)
  BY <1>1, SharesMean
<1>3. CASE post'.media = post.media /\ post.status # "DELETED"
           /\ post'.status \in {"DRAFT", "FAILED"}
  <2>1. \A d \in Clients : Stands(act[d], post', sent)
    BY <1>2, <1>3 DEF Stands
  <2> QED
    BY <1>1, <1>2, <1>3, <2>1 DEF Published
<1>4. CASE post'.status = "DELETED"
  <2>1. \A d \in Clients : Stands(act[d], post', sent)
    BY <1>2, <1>4 DEF Stands
  <2> QED
    BY <1>1, <1>2, <1>4, <2>1 DEF Published
<1> QED
  BY <1>3, <1>4 DEF Edits, Editable

LEMMA RunsShares ==
  ASSUME EntryInv, Shares, NEW w \in Workers, NEW e \in Execs, NEW j \in MediaIds,
         NEW x \in Jobs, Runs(w, e, j, x)
  PROVE  Shares'
<1> SUFFICES ASSUME ~overlaps'
    PROVE  /\ Alone(act') /\ \A d \in Clients : Stands(act'[d], post', sent')
           /\ Published(post', sent')
  BY SharesMade
<1>1. ~overlaps /\ act' = act /\ sent' = sent
  BY DEF Runs, RunsTo
<1>2. /\ Alone(act) /\ Published(post, sent)
      /\ \A d \in Clients : Stands(act[d], post, sent)
  BY <1>1, SharesMean
<1>3. CASE UNCHANGED post
  BY <1>1, <1>2, <1>3
<1>4. CASE ~UNCHANGED post
  <2>1. PICK i \in MediaIds, s \in {"READY", "FAILED"} : MarkEntry(i, s)
    <3>1. /\ exec[w].at = "mark" => exec[w].i \in MediaIds
          /\ exec[w].todo \in SUBSET MediaIds
      BY ExecKnown DEF EntryInv, AtHand
    <3> QED
      BY <1>4, <3>1 DEF Runs
  <2>2. ~Publishable(post.media)
    BY <1>4, <2>1, PublishableKept DEF EntryInv
  <2>3. post'.status = post.status
    BY <2>1, MarkMade DEF EntryInv
  <2>4. \A d \in Clients : Stands(act[d], post', sent)
    BY <1>2, <2>2, <2>3 DEF Stands, Sharing
  <2> QED
    BY <1>1, <1>2, <2>2, <2>3, <2>4 DEF Published
<1> QED
  BY <1>3, <1>4

LEMMA SharesStep ==
  ASSUME EntryInv, Shares, Next
  PROVE  Shares'
<1>1. Happens => Shares'
  <2>1. Happens => UNCHANGED <<post, act, sent, overlaps>>
    BY DEF Happens
  <2> QED
    BY <2>1 DEF Shares
<1> QED
  BY <1>1, LoadsShares, SavesShares, ProceedsShares, EditsShares, RunsShares, StepForms
  DEF EntryInv


-----------------------------------------------------------------------------
(* Revs                                                                     *)

\* The requests that are at one of these places.
At(ac, places) == {c \in Clients : ac[c].at \in places}

\* A request that moves enters the set, leaves it, or neither.
LEMMA AtMoves ==
  ASSUME Types, NEW c \in Clients, NEW a \in Acts, act' = [act EXCEPT ![c] = a],
         NEW P, IsFiniteSet(At(act, P))
  PROVE  /\ IsFiniteSet(At(act', P))
         /\ Cardinality(At(act, P)) \in Nat /\ Cardinality(At(act', P)) \in Nat
         /\ (a.at \in P <=> act[c].at \in P) =>
              Cardinality(At(act', P)) = Cardinality(At(act, P))
         /\ a.at \in P /\ act[c].at \notin P =>
              Cardinality(At(act', P)) = Cardinality(At(act, P)) + 1
         /\ a.at \notin P /\ act[c].at \in P =>
              Cardinality(At(act', P)) = Cardinality(At(act, P)) - 1
<1> DEFINE S == At(act, P)
<1>1. \A d \in Clients : act'[d] = IF d = c THEN a ELSE act[d]
  BY DEF Types
<1>2. At(act', P) = IF a.at \in P THEN S \cup {c} ELSE S \ {c}
  BY <1>1 DEF At
<1>3. c \in S <=> act[c].at \in P
  BY DEF At
<1>4. /\ IsFiniteSet(S \cup {c}) /\ IsFiniteSet(S \ {c})
      /\ Cardinality(S \cup {c}) = IF c \in S THEN Cardinality(S) ELSE Cardinality(S) + 1
      /\ Cardinality(S \ {c}) = IF c \in S THEN Cardinality(S) - 1 ELSE Cardinality(S)
  BY FS_AddElement, FS_RemoveElement
<1>5. /\ Cardinality(S) \in Nat /\ Cardinality(S \cup {c}) \in Nat
      /\ Cardinality(S \ {c}) \in Nat
  BY <1>4, FS_CardinalityType
<1> HIDE DEF S
<1>6. CASE a.at \in P
  BY <1>2, <1>3, <1>4, <1>5, <1>6 DEF S
<1>7. CASE a.at \notin P
  BY <1>2, <1>3, <1>4, <1>5, <1>7 DEF S
<1> QED
  BY <1>6, <1>7

\* Revs of the next state, from what becomes of the sets.
LEMMA RevsMade ==
  ASSUME Types, Types', Revs,
         IsFiniteSet(Twice'), IsFiniteSet(Once'),
         \/ /\ post'.rev = post.rev /\ calls' = calls + 1
            /\ Cardinality(Twice') <= Cardinality(Twice) + 1
            /\ Cardinality(Once') <= Cardinality(Once)
         \/ /\ post'.rev = post.rev + 1 /\ calls' = calls
            /\ \/ /\ Cardinality(Twice') = Cardinality(Twice) - 1
                  /\ Cardinality(Once') <= Cardinality(Once) + 1
               \/ /\ Cardinality(Twice') = Cardinality(Twice)
                  /\ Cardinality(Once') = Cardinality(Once) - 1
         \/ /\ post'.rev = post.rev /\ calls' = calls
            /\ Cardinality(Twice') <= Cardinality(Twice)
            /\ Cardinality(Once') <= Cardinality(Once)
         \/ /\ post'.rev = post.rev + 1 /\ calls' = calls + 1
            /\ Cardinality(Twice') = Cardinality(Twice)
            /\ Cardinality(Once') = Cardinality(Once)
  PROVE  Revs'
<1>1. /\ Cardinality(Twice) \in Nat /\ Cardinality(Once) \in Nat
      /\ Cardinality(Twice') \in Nat /\ Cardinality(Once') \in Nat
  BY FS_CardinalityType DEF Revs
<1>2. /\ post.rev \in Nat /\ calls \in Nat /\ post'.rev \in Nat /\ calls' \in Nat
  BY DocTyped, MediaAssumption DEF Types
<1> QED
  BY <1>1, <1>2 DEF Revs

LEMMA RevsStep ==
  ASSUME EntryInv, Revs, Next, Types'
  PROVE  Revs'
<1> DEFINE Waits == {"enqueue", "unqueue"}
<1>1. /\ Twice = At(act, Deciding) /\ Twice' = At(act', Deciding)
      /\ Once = At(act, Waits) /\ Once' = At(act', Waits)
  BY DEF Twice, Once, At
<1>2. /\ IsFiniteSet(Twice) /\ IsFiniteSet(Once) /\ Types
      /\ Cardinality(Twice) \in Nat /\ Cardinality(Once) \in Nat
  BY FS_CardinalityType DEF Revs, EntryInv
<1>3. ASSUME NEW c \in Clients, NEW a \in Acts, act' = [act EXCEPT ![c] = a]
      PROVE  /\ IsFiniteSet(Twice') /\ IsFiniteSet(Once')
             /\ (a.at \in Deciding <=> act[c].at \in Deciding) =>
                  Cardinality(Twice') = Cardinality(Twice)
             /\ a.at \in Deciding /\ act[c].at \notin Deciding =>
                  Cardinality(Twice') = Cardinality(Twice) + 1
             /\ a.at \notin Deciding /\ act[c].at \in Deciding =>
                  Cardinality(Twice') = Cardinality(Twice) - 1
             /\ (a.at \in Waits <=> act[c].at \in Waits) =>
                  Cardinality(Once') = Cardinality(Once)
             /\ a.at \in Waits /\ act[c].at \notin Waits =>
                  Cardinality(Once') = Cardinality(Once) + 1
             /\ a.at \notin Waits /\ act[c].at \in Waits =>
                  Cardinality(Once') = Cardinality(Once) - 1
  BY <1>1, <1>2, <1>3, AtMoves
<1> HIDE DEF Waits
<1>4. ASSUME NEW c \in Clients, NEW a \in Acts, Loads(c, a)
      PROVE  Revs'
  <2>1. /\ act' = [act EXCEPT ![c] = a] /\ act[c].at = "idle" /\ calls' = calls + 1
        /\ post' = post
    BY <1>4 DEF Loads, LoadsTo
  <2>2. a.at \in Deciding \cup Sharing
    BY <1>4 DEF Loads, Deciding, Sharing
  <2>3. /\ act[c].at \notin Deciding /\ act[c].at \notin Waits /\ a.at \notin Waits
    BY <2>1, <2>2 DEF Deciding, Sharing, Waits
  <2>4. /\ IsFiniteSet(Twice') /\ IsFiniteSet(Once')
        /\ Cardinality(Once') = Cardinality(Once)
        /\ \/ Cardinality(Twice') = Cardinality(Twice)
           \/ Cardinality(Twice') = Cardinality(Twice) + 1
    BY <1>3, <2>1, <2>3
  <2> QED
    BY <1>2, <2>1, <2>4, RevsMade
<1>5. ASSUME NEW c \in Clients, NEW a \in Acts, Saves(c, a)
      PROVE  Revs'
  <2>1. act' = [act EXCEPT ![c] = a] /\ post'.rev = post.rev + 1 /\ calls' = calls
    BY <1>5 DEF Saves, SavesTo
  <2>2. a.at \notin Deciding
    <3>1. act[c].next \in {"idle", "schedule", "publish"}
      BY ActTyped DEF EntryInv, Types
    <3> QED
      BY <1>5, <3>1, IdleTyped DEF Saves, Deciding
  <2>3. /\ act[c].at \in Deciding \cup Waits
        /\ act[c].at \in Waits => a.at \notin Waits
    BY <1>5, IdleTyped DEF Saves, Deciding, Waits
  <2>4. Deciding \cap Waits = {}
    BY DEF Deciding, Waits
  <2>5. CASE act[c].at \in Deciding
    <3>1. /\ IsFiniteSet(Twice') /\ IsFiniteSet(Once')
          /\ Cardinality(Twice') = Cardinality(Twice) - 1
          /\ \/ Cardinality(Once') = Cardinality(Once)
             \/ Cardinality(Once') = Cardinality(Once) + 1
      BY <1>3, <2>1, <2>2, <2>4, <2>5
    <3> QED
      BY <1>2, <2>1, <3>1, RevsMade
  <2>6. CASE act[c].at \in Waits
    <3>1. /\ IsFiniteSet(Twice') /\ IsFiniteSet(Once')
          /\ Cardinality(Twice') = Cardinality(Twice)
          /\ Cardinality(Once') = Cardinality(Once) - 1
      BY <1>3, <2>1, <2>2, <2>3, <2>4, <2>6
    <3> QED
      BY <1>2, <2>1, <3>1, RevsMade
  <2> QED
    BY <2>3, <2>5, <2>6
<1>6. ASSUME NEW c \in Clients, NEW a \in Acts, Proceeds(c, a)
      PROVE  Revs'
  <2>1. act' = [act EXCEPT ![c] = a] /\ calls' = calls
    BY <1>6 DEF Proceeds
  <2>2. post'.rev = post.rev
    <3>1. \A s \in PostStatus : SaveStatus(act[c].doc, s) => post'.rev = post.rev
      BY <1>2, StatusMade, ActTyped DEF Types
    <3> QED
      BY <1>6, <3>1 DEF Proceeds, PostStatus
  <2>3. a.at \notin Deciding /\ (a.at \in Waits => act[c].at \in Waits)
    BY <1>6, IdleTyped DEF Proceeds, Deciding, Waits
  <2>4. /\ IsFiniteSet(Twice') /\ IsFiniteSet(Once')
        /\ \/ Cardinality(Twice') = Cardinality(Twice)
           \/ Cardinality(Twice') = Cardinality(Twice) - 1
        /\ \/ Cardinality(Once') = Cardinality(Once)
           \/ Cardinality(Once') = Cardinality(Once) - 1
    BY <1>3, <2>1, <2>3
  <2> QED
    BY <1>2, <2>1, <2>2, <2>4, RevsMade
<1>7. ASSUME Edits PROVE Revs'
  <2>1. Twice' = Twice /\ Once' = Once /\ calls' = calls + 1
    BY <1>7 DEF Edits, Twice, Once
  <2>2. post'.rev = post.rev \/ post'.rev = post.rev + 1
    BY <1>7 DEF Edits
  <2> QED
    BY <1>2, <2>1, <2>2, RevsMade
<1>8. ASSUME UNCHANGED <<act, calls>>, post'.rev = post.rev PROVE Revs'
  BY <1>8 DEF Revs, Twice, Once
<1>9. Happens => Revs'
  BY <1>8 DEF Happens
<1>10. ASSUME NEW w \in Workers, NEW e \in Execs, NEW j \in MediaIds, NEW x \in Jobs,
              Runs(w, e, j, x)
       PROVE  Revs'
  <2>1. UNCHANGED <<act, calls>>
    BY <1>10 DEF Runs, RunsTo
  <2>2. \/ post' = post
        \/ \E i \in MediaIds, s \in {"READY", "FAILED"} : MarkEntry(i, s)
    <3>1. /\ exec[w].at = "mark" => exec[w].i \in MediaIds
          /\ exec[w].todo \in SUBSET MediaIds
      BY ExecKnown DEF EntryInv, AtHand
    <3> QED
      BY <1>10, <3>1 DEF Runs
  <2>3. post'.rev = post.rev
    BY <1>2, <2>2, MarkMade
  <2> QED
    BY <1>8, <2>1, <2>3
<1> QED
  BY <1>4, <1>5, <1>6, <1>7, <1>9, <1>10, StepForms DEF EntryInv


-----------------------------------------------------------------------------
(* The theorems                                                             *)

LEMMA InitMedia == Init => MediaInv
<1> SUFFICES ASSUME Init PROVE MediaInv
  OBVIOUS
<1>1. /\ \A c \in Clients : act[c] = Idle
      /\ \A w \in Workers : exec[w] = Resting
      /\ \A j \in MediaIds : job[j] = NoJob /\ slot[j] = "free"
      /\ post = Fresh /\ r2 = {} /\ sent = {} /\ undone = {} /\ forgotten = {}
      /\ overlaps = FALSE /\ calls = 0 /\ faults = 0
  BY DEF Init
<1>2. /\ Fresh \in Docs /\ Fresh.status = "DRAFT" /\ Fresh.rev = 0 /\ Fresh.media = NoMedia
  BY NoMediaTyped DEF Fresh, Docs, Media, PostStatus
<1>3. Held(NoMedia) = {} /\ \A s \in MediaStatus \ {"NONE"} : Has(NoMedia, {s}) = {}
  BY NoMediaTyped DEF Held, Has
<1>4. Types
  <2>1. job \in [MediaIds -> Jobs] /\ slot \in [MediaIds -> Slots]
    BY NoJobTyped DEF Init, Slots
  <2>2. act \in [Clients -> Acts]
    BY IdleTyped DEF Init
  <2>3. exec \in [Workers -> Execs]
    BY RestingTyped DEF Init
  <2>4. calls \in 0..MaxCalls /\ faults \in 0..MaxFaults
    BY <1>1, MediaAssumption
  <2> QED
    BY <1>1, <1>2, <2>1, <2>2, <2>3, <2>4 DEF Types
<1>5. Copies
  BY <1>1, <1>2, <1>3, IdleTyped DEF Copies, CopyOf, Handed, Deciding
<1>6. Claims
  BY <1>1, IdleTyped DEF Claims, Owns
<1>7. Confirmations
  BY <1>1, IdleTyped, NoJobTyped DEF Confirmations, Confirming, Handed
<1>8. Executions
  BY <1>1, RestingTyped, NoJobTyped, MediaAssumption DEF Executions, NoJob, Running, AtHand
<1>9. Objects
  BY <1>1, <1>2, <1>3, RestingTyped DEF Objects, Uploading, MediaStatus
<1>10. Kinds
  BY <1>1, <1>2, <1>3, IdleTyped DEF Kinds, Uniform
<1>11. Shares
  <2>1. \A c \in Clients : Stands(act[c], post, sent)
    BY <1>1, IdleTyped, IdleStands
  <2> QED
    BY <1>1, <1>2, <2>1, IdleTyped DEF Shares
<1>12. Revs
  <2>1. Twice = {} /\ Once = {}
    BY <1>1, IdleTyped DEF Twice, Once, Deciding
  <2> QED
    BY <1>1, <1>2, <2>1, FS_EmptySet DEF Revs
<1> QED
  BY <1>4, <1>5, <1>6, <1>7, <1>8, <1>9, <1>10, <1>11, <1>12 DEF MediaInv

LEMMA MediaStep == MediaInv /\ [Next]_vars => MediaInv'
<1>1. ASSUME MediaInv, Next PROVE MediaInv'
  <2>1. EntryInv /\ Shares /\ Revs
    BY <1>1 DEF MediaInv, EntryInv
  <2>2. Types'
    BY <1>1, <2>1, TypesStep DEF EntryInv
  <2>3. Moves
    BY <1>1, <2>1, StepMoves
  <2> QED
    BY <1>1, <2>1, <2>2, <2>3, CopiesStep, ClaimsStep, ConfirmationsStep, ExecutionsStep,
       ObjectsStep, KindsStep, SharesStep, RevsStep DEF MediaInv
<1>2. ASSUME MediaInv, UNCHANGED vars PROVE MediaInv'
  <2>1. UNCHANGED <<post, slot, r2, job, act, exec, sent, undone, forgotten, overlaps,
                    calls, faults>>
    BY <1>2 DEF vars
  <2>2. Types' /\ Copies' /\ Claims'
    BY <1>2, <2>1 DEF MediaInv, Types, Copies, Claims
  <2>3. Confirmations' /\ Executions'
    BY <1>2, <2>1 DEF MediaInv, Confirmations, Executions
  <2>4. Objects' /\ Kinds'
    BY <1>2, <2>1 DEF MediaInv, Objects, Over, Uploading, Kinds
  <2>5. Shares'
    BY <1>2, <2>1 DEF MediaInv, Shares
  <2>6. Revs'
    BY <1>2, <2>1 DEF MediaInv, Revs, Twice, Once
  <2> QED
    BY <2>2, <2>3, <2>4, <2>5, <2>6 DEF MediaInv
<1> QED
  BY <1>1, <1>2

\* The inductive invariant of the post's media holds in every reachable state: the
\* copies that requests hold agree with what is stored as long as __v stands still,
\* an entry is confirmed once, a job is run once at a time, and nobody waits for an
\* object that was deleted.
THEOREM MediaInvariance == Spec => []MediaInv
  BY InitMedia, MediaStep, PTL DEF Spec

\* Every stored value has its type, whatever is lost, refused or run again; __v moves
\* at most twice per request, and a job is tried and stalls no more than it may.
THEOREM MediaTyped == Spec => []TypeOK
<1>1. MediaInv => TypeOK
  <2> SUFFICES ASSUME MediaInv PROVE TypeOK
    OBVIOUS
  <2>1. Types /\ Executions /\ Confirmations /\ Revs
    BY DEF MediaInv
  <2>2. post \in [status : PostStatus, rev : 0..(2 * MaxCalls), media : [MediaIds -> Entry]]
    <3>1. /\ post.status \in PostStatus /\ post.rev \in Nat /\ post.media \in [MediaIds -> Entry]
          /\ post = [status |-> post.status, rev |-> post.rev, media |-> post.media]
      BY <2>1, DocTyped DEF Types, Media
    <3>2. post.rev \in 0..(2 * MaxCalls)
      <4>1. Cardinality(Twice) \in Nat /\ Cardinality(Once) \in Nat
        BY <2>1, FS_CardinalityType DEF Revs
      <4>2. calls \in Nat /\ calls <= MaxCalls /\ MaxCalls \in Nat
        BY <2>1, MediaAssumption DEF Types
      <4>3. post.rev + 2 * Cardinality(Twice) + Cardinality(Once) <= 2 * calls
        BY <2>1 DEF Revs
      <4> QED
        BY <3>1, <4>1, <4>2, <4>3
    <3> QED
      BY <3>1, <3>2
  <2>3. \A i \in MediaIds :
          /\ job[i].st \in {"none", "waiting", "active", "orphan", "over"}
          /\ job[i].tries \in 0..Attempts /\ job[i].stalls \in 0..(MaxStalls + 1)
          /\ job[i].st # "none" => i \in job[i].items
    <3>1. \A i \in MediaIds : /\ job[i].st \in {"none", "waiting", "active", "orphan", "over"}
                              /\ job[i].tries \in Nat /\ job[i].stalls \in Nat
      BY <2>1 DEF Types, Jobs
    <3>2. \A i \in MediaIds : job[i].tries <= Attempts /\ job[i].stalls <= MaxStalls + 1
      BY <2>1 DEF Executions
    <3>3. \A i \in MediaIds : job[i].st # "none" => i \in job[i].items
      BY <2>1 DEF Confirmations
    <3> QED
      BY <3>1, <3>2, <3>3, MediaAssumption
  <2>4. \A c \in Clients : act[c].doc \in Docs /\ act[c].ids \subseteq MediaIds
    BY <2>1 DEF Types, Acts
  <2>5. \A w \in Workers : exec[w].todo \subseteq MediaIds
                           /\ (exec[w].at = "rest") = (exec[w].j = NoId)
    <3>1. \A w \in Workers : exec[w].todo \subseteq MediaIds
      BY <2>1 DEF Types, Execs
    <3>2. \A w \in Workers : exec[w].at = "rest" <=> exec[w].j = NoId
      BY <2>1 DEF Executions
    <3> QED
      BY <3>1, <3>2
  <2>6. {r2, sent, undone, forgotten} \subseteq SUBSET MediaIds
    BY <2>1 DEF Types
  <2>7. /\ slot \in [MediaIds -> {"free", "taken", "open", "expired"}]
        /\ overlaps \in BOOLEAN /\ calls \in 0..MaxCalls /\ faults \in 0..MaxFaults
    BY <2>1 DEF Types, Slots
  <2> QED
    BY <2>2, <2>3, <2>4, <2>5, <2>6, <2>7 DEF TypeOK
<1> QED
  BY <1>1, MediaInvariance, PTL

\* Requests that follow one another leave no scheduled or published post with media
\* that is not READY, and LinkedIn was given exactly the media of the published post,
\* however the upload worker and its failures fall between their steps.
THEOREM ShareComplete == Spec => []ShareHasItsMedia
<1>1. MediaInv => ShareHasItsMedia
  <2>1. \A m : Publishable(m) => \A i \in Held(m) : m[i].status = "READY"
    BY DEF Publishable, Has
  <2> QED
    BY <2>1 DEF MediaInv, Shares, ShareHasItsMedia
<1> QED
  BY <1>1, MediaInvariance, PTL

\* An entry that waits for its upload has its object: whatever retries, stalls, dies
\* or is removed, no object is deleted that a later attempt needs.
THEOREM ObjectsKept == Spec => []ObjectKept
<1>1. MediaInv => ObjectKept
  BY DEF MediaInv, Objects, ObjectKept
<1> QED
  BY <1>1, MediaInvariance, PTL

\* One step of the model keeps the entries it has no business with.
LEMMA EntriesStep ==
  ASSUME MediaInv, Next
  PROVE  /\ \A i \in Held(post.media) \ Held(post'.media) :
              \/ slot[i] = "expired" \/ post'.status = "DELETED"
              \/ \E c \in Clients : act[c].at = "remove" /\ i \in act[c].ids
         /\ \A i \in Held(post'.media) \ Held(post.media) : slot[i] = "taken"
<1>1. EntryInv
  BY DEF MediaInv, EntryInv
<1>2. Types /\ Types'
  BY <1>1, TypesStep DEF EntryInv
<1>3. post.media \in Media /\ post'.media \in Media
  BY <1>2, DocTyped DEF Types
<1>4. \A i \in Held(post'.media) \ Held(post.media) : slot[i] = "taken"
  <2>1. EntriesMove
    BY <1>1, StepMoves DEF Moves
  <2> QED
    BY <1>3, <2>1, HasMeaning DEF EntriesMove
<1>5. ASSUME NEW i \in Held(post.media) \ Held(post'.media)
      PROVE  \/ slot[i] = "expired" \/ post'.status = "DELETED"
             \/ \E c \in Clients : act[c].at = "remove" /\ i \in act[c].ids
  <2>1. i \in MediaIds /\ post.media[i].status # "NONE" /\ post'.media[i].status = "NONE"
    BY <1>3, <1>5, HasMeaning
  <2>2. ASSUME NEW c \in Clients, NEW a \in Acts, Saves(c, a)
        PROVE  slot[i] = "expired" \/ (act[c].at = "remove" /\ i \in act[c].ids)
    BY <1>1, <2>1, <2>2, SavedEntry
  <2>3. CASE post'.rev = post.rev /\ post'.status # "DELETED"
    <3>1. Settles(post.media[i], post'.media[i])
      BY <1>1, <2>1, <2>3, StepMoves DEF Moves, PostMoves
    <3> QED
      BY <2>1, <3>1 DEF Settles
  <2>4. CASE post'.rev # post.rev
    <3>1. Edits \/ \E c \in Clients, a \in Acts : Saves(c, a)
      <4>1. ASSUME NEW c \in Clients, NEW a \in Acts PROVE ~Loads(c, a)
        BY <2>4 DEF Loads, LoadsTo
      <4>2. ASSUME NEW c \in Clients, NEW a \in Acts PROVE ~Proceeds(c, a)
        <5>1. \A s \in PostStatus : SaveStatus(act[c].doc, s) => post'.rev = post.rev
          BY <1>2, StatusMade, ActTyped DEF Types
        <5> QED
          BY <2>4, <5>1 DEF Proceeds, PostStatus
      <4>3. ~Happens
        BY <2>4 DEF Happens
      <4>4. ASSUME NEW w \in Workers, NEW e \in Execs, NEW j \in MediaIds, NEW x \in Jobs
            PROVE  ~Runs(w, e, j, x)
        <5> SUFFICES ASSUME Runs(w, e, j, x) PROVE FALSE
          OBVIOUS
        <5>1. /\ exec[w].at = "mark" => exec[w].i \in MediaIds
              /\ exec[w].todo \in SUBSET MediaIds
          BY <1>1, ExecKnown DEF EntryInv, AtHand
        <5>2. \/ post' = post
              \/ \E k \in MediaIds, s \in {"READY", "FAILED"} : MarkEntry(k, s)
          BY <5>1 DEF Runs
        <5> QED
          BY <1>2, <2>4, <5>2, MarkMade
      <4> QED
        BY <1>1, <4>1, <4>2, <4>3, <4>4, StepForms DEF EntryInv
    <3>2. ~Edits \/ post'.status = "DELETED"
      BY <2>1 DEF Edits
    <3> QED
      BY <2>2, <3>1, <3>2
  <2> QED
    BY <2>3, <2>4
<1> QED
  BY <1>4, <1>5

\* Whatever requests race, an entry is lost only when its removal is saved, its slot
\* expired or the post is deleted, and comes back only with a slot of its own.
THEOREM EntriesAreKept == Spec => EntriesKept
<1>1. MediaInv /\ [Next]_vars =>
        [/\ \A i \in Held(post.media) \ Held(post'.media) :
              \/ slot[i] = "expired" \/ post'.status = "DELETED"
              \/ \E c \in Clients : act[c].at = "remove" /\ i \in act[c].ids
         /\ \A i \in Held(post'.media) \ Held(post.media) : slot[i] = "taken"]_vars
  BY EntriesStep
<1> QED
  BY <1>1, MediaInvariance, PTL DEF Spec, EntriesKept
=============================================================================
