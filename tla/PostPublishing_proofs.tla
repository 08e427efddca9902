------------------------- MODULE PostPublishing_proofs -------------------------
(***************************************************************************)
(* The safety properties of PostPublishing for any number of posts,         *)
(* requests, workers, periods and refines.                                  *)
(***************************************************************************)
EXTENDS PostPublishing, FiniteSetTheorems, TLAPS

-----------------------------------------------------------------------------
(* The inductive invariants                                                 *)

\* Who has a post to work on, and who has none.
PostPlaces == Places \ ({"idle", "editPins", "edit"} \cup Disconnecting)

Placed(x) == /\ x.at \in PostPlaces => x.p \in Posts
             /\ x.at \notin PostPlaces => x.p = NoPost /\ x.doc = NoDoc
             /\ x.at = "idle" => x = Idle

ActorInv == \A a \in Actors : Placed(act[a])

\* Only versions up to the head exist, and no post pins another.
PinInv ==
  /\ \A v \in Versions : vstatus[v] # "NONE" => v <= currentVersion
  /\ \A p \in Posts : post[p].pin <= currentVersion

\* Nobody has anything to do with a post before createPost.
BornInv ==
  \A p \in Posts : post[p].status = "NONE" =>
    /\ job[p] = "none"
    /\ \A a \in Actors : act[a].p # p

\* A flag, loaded or stored, is set on a post some period has counted, and a
\* request that need not count its post knows that too.
Counted(p) == \E t \in 1..MaxPeriods : p \in counted[t]

Admitted == {"schedRemove", "schedAdd", "schedReplace", "schedSave", "schedCount"}

UsageInv ==
  /\ \A p \in Posts : post[p].flagged => Counted(p)
  /\ \A a \in Actors : act[a].doc.flagged => Counted(act[a].p)
  /\ \A a \in Actors : act[a].at \in Admitted /\ ~act[a].first => Counted(act[a].p)
  /\ \A a \in Actors : act[a].at = "schedFlag" => Counted(act[a].p)

\* Who was let through the quota and has not been counted yet.
Pending == {c \in Clients : act[c].at \in Admitted /\ act[c].first}

QuotaInv ==
  /\ \A t \in 1..MaxPeriods : IsFiniteSet(counted[t])
  /\ Quota = 0 => Pending = {}
  /\ ~returned =>
       /\ \A t \in 1..MaxPeriods : t > period => counted[t] = {}
       /\ \A t \in 1..MaxPeriods : t < period =>
            Cardinality(counted[t]) <= Quota + Cardinality(Clients) - 1
       /\ Cardinality(counted[period]) + Cardinality(Pending)
            <= Quota + Cardinality(Clients) - 1

\* While the pin revision is the one an editor read, nobody it did not know of
\* has got as far as to pin a version.
Confirmed(p) == post[p].status \in {"SCHEDULED", "PUBLISHED"}

Confirming == {"schedRemove", "schedAdd", "schedReplace", "schedSave", "pubSend", "pubSave"}

EditInv ==
  \A c \in Clients : act[c].at \in {"editPins", "edit"} =>
    /\ act[c].rev <= pinRevision
    /\ act[c].rev = pinRevision =>
         \A p \in Posts \ act[c].ps :
           /\ \A a \in Actors : act[a].p = p => act[a].at \notin Confirming
           /\ \A a \in Actors : act[a].p = p /\ act[a].at = "update" => ~Confirmed(p)
           /\ act[c].at = "edit" /\ Confirmed(p) => post[p].pin # act[c].v

\* At most one actor works on a post that is not disturbed.
AloneInv ==
  \A p \in Posts : Undisturbed(p) =>
    \A a, b \in Actors : WorksOn(a, p) /\ WorksOn(b, p) => a = b

\* What JobsFollowStatus says of a post.
Fits(p) ==
  /\ job[p] = "delayed" => post[p].status = "SCHEDULED"
  /\ post[p].status = "SCHEDULED" => job[p] = "delayed" \/ post[p].pin # currentVersion

\* What is true of an undisturbed post and its job where its one actor stands.
Editable    == {"DRAFT", "FAILED"}
Schedulable == {"DRAFT", "SCHEDULED", "FAILED"}

Publishing == {"pubLoad", "pubCheck", "pubSend", "pubSave", "pubFail", "thrown", "returned"}

Stage(a, p) ==
  LET at == act[a].at  st == post[p].status IN
  /\ at \in {"schedCheck", "schedRemove", "unschedRemove", "nowRemove", "delRemove",
             "discFind", "discRemove"} => Fits(p)
  /\ at = "update" => st \in Editable /\ job[p] # "delayed"
  /\ at \in {"schedCheck", "schedRemove", "schedAdd", "schedReplace", "schedSave",
             "nowRemove"} => st \in Schedulable
  /\ at \in {"schedAdd", "schedReplace", "unschedSave"} => job[p] = "none"
  /\ at \in {"schedSave", "schedCount", "schedFlag"} => job[p] = "delayed"
  /\ at \in {"schedCount", "schedFlag", "unschedRemove", "unschedSave"} => st = "SCHEDULED"
  /\ at \in Publishing => job[p] = IF a \in Workers THEN "active" ELSE "none"
  /\ at \in {"pubCheck", "pubSend", "pubSave", "pubFail"} => st \in Schedulable
  /\ at = "thrown" /\ st = "SCHEDULED" => post[p].pin # currentVersion
  /\ at = "returned" => st = "PUBLISHED"
  /\ at \in {"delete", "discFail"} => job[p] # "delayed"
  /\ at \in {"discRemove", "discFail"} => (p \in act[a].ps <=> st = "SCHEDULED")
  /\ at \notin Disconnecting \cup {"thrown", "returned"} => act[a].doc = post[p]

Sound(p) ==
  /\ stalls[p] = 0
  /\ job[p] = "active" => \E w \in Workers : act[w].p = p /\ act[w].at \in Publishing
  /\ Quiet(p) => Fits(p)
  /\ \A a \in Actors : WorksOn(a, p) => Stage(a, p)

StageInv == \A p \in Posts : Undisturbed(p) => Sound(p)

\* A copy that is checked and sent was not PUBLISHED when it was loaded.
CopyInv == \A a \in Actors :
  act[a].at \in {"pubCheck", "pubSend", "pubSave"} => act[a].doc.status # "PUBLISHED"

\* What an actor may yet do to p: it holds a copy from before p was published, or
\* is going to load one, or LinkedIn has taken p and the actor is to save that.
HoldingPlaces == {"update", "schedCheck", "schedRemove", "schedAdd", "schedReplace",
                  "schedSave", "unschedRemove", "unschedSave", "pubCheck", "pubSend",
                  "pubFail"}

Role(x, p) ==
  IF x.at \in Disconnecting
    THEN IF x.at = "discFind" THEN "loads" ELSE IF p \in x.ps THEN "holds" ELSE "none"
    ELSE IF x.p # p THEN "none"
    ELSE IF x.at \in HoldingPlaces THEN "holds"
    ELSE IF x.at \in {"nowRemove", "pubLoad"} THEN "loads"
    ELSE IF x.at = "pubSave" THEN "sends"
    ELSE "none"

Team(p, r) == {a \in Actors : Role(act[a], p) = r}

Closed(p) == post[p].status \in {"PUBLISHED", "DELETED"}

\* Each of them beyond the first brought a disturbance along: v posts on LinkedIn,
\* o disturbances, h, l and s actors in each role.
Bound(v, o, h, l, s, closed) ==
  IF ~closed /\ s = 0
    THEN v + (IF h + l = 0 THEN 0 ELSE h + l - 1) <= o
    ELSE v + h + (IF h + s = 0 /\ l > 0 THEN l - 1 ELSE l) <= o + 1

SendInv == \A p \in Posts :
  Bound(live[p], overlaps[p], Cardinality(Team(p, "holds")), Cardinality(Team(p, "loads")),
        Cardinality(Team(p, "sends")), Closed(p))

IInv == /\ TypeOK /\ ActorInv /\ PinInv /\ BornInv /\ UsageInv /\ ScheduledIsCounted
        /\ QuotaInv /\ EditInv /\ AloneInv /\ StageInv /\ CopyInv /\ SendInv

-----------------------------------------------------------------------------
(* Types *)

ActRecords == [at : Places, p : Posts \cup {NoPost}, doc : PostDocs, v : 0..MaxVersions,
               rev : Nat, first : BOOLEAN, ps : SUBSET Posts]

LEMMA NothingTyped == NoDoc \in PostDocs /\ Idle \in ActRecords
<1>1. 0 \in 0..MaxVersions
  BY MaxVersionsAssumption
<1>2. NoDoc \in PostDocs
  BY <1>1 DEF NoDoc, PostDocs, PostStatus
<1> QED
  BY <1>1, <1>2 DEF Idle, ActRecords, Places

\* The steps of the store: bumpArtifactPinRevision, an edit, a refine, a run's
\* end and the deletion of the artifact.
LEMMA StoreStep ==
  ASSUME StoreTypeOK,
         \/ BumpArtifactPinRevision \/ ArtifactChanges \/ UNCHANGED storeVars
         \/ \E seen \in 0..MaxVersions, rev \in Nat : EditVersion(seen, rev)
  PROVE  /\ StoreTypeOK'
         /\ pinRevision' \in {pinRevision, pinRevision + 1}
         /\ currentVersion' \in {currentVersion, currentVersion + 1}
<1> USE MaxVersionsAssumption DEF StoreTypeOK
<1>1. CASE BumpArtifactPinRevision \/ UNCHANGED storeVars
  BY <1>1 DEF BumpArtifactPinRevision, storeVars
<1>2. ASSUME NEW seen \in 0..MaxVersions, NEW rev \in Nat, EditVersion(seen, rev)
      PROVE  /\ StoreTypeOK'
             /\ pinRevision' \in {pinRevision, pinRevision + 1}
             /\ currentVersion' \in {currentVersion, currentVersion + 1}
  BY <1>2 DEF EditVersion, Contents
<1>3. CASE ArtifactChanges
  <2>1. CASE Refinable /\ currentVersion < MaxVersions /\ AppendRefineVersion(currentVersion)
    <3>1. currentVersion' = currentVersion + 1 /\ currentVersion' \in 0..MaxVersions
      BY <2>1 DEF AppendRefineVersion
    <3>2. vstatus' \in [Versions -> VersionStatus]
      BY <2>1 DEF AppendRefineVersion, VersionStatus
    <3> QED
      BY <2>1, <3>1, <3>2 DEF AppendRefineVersion
  <2>2. CASE SetVersionContent(currentVersion) \/ FailVersion(currentVersion) \/ DeleteArtifact
    BY <2>2 DEF SetVersionContent, FailVersion, DeleteArtifact, VersionStatus, Contents
  <2> QED
    BY <1>3, <2>1, <2>2 DEF ArtifactChanges
<1> QED
  BY <1>1, <1>2, <1>3

\* What save() makes of the post: nothing, or the dirty fields of the copy.
LEMMA Saved ==
  ASSUME TypeOK, NEW a \in Actors, act[a].p \in Posts, NEW new \in PostDocs,
         \/ CanSave(a, new) /\ Save(a, new)
         \/ ~CanSave(a, new) /\ UNCHANGED post
  PROVE  LET p == act[a].p  doc == act[a].doc IN
         /\ post' \in [Posts -> PostDocs]
         /\ \A q \in Posts \ {p} : post'[q] = post[q]
         /\ \/ post'[p] = post[p] /\ (~Exists(p) \/ (new.pin # doc.pin /\ post[p].rev # doc.rev))
            \/ /\ Exists(p)
               /\ post'[p].status = Dirty(doc.status, new.status, post[p].status)
               /\ post'[p].pin = Dirty(doc.pin, new.pin, post[p].pin)
               /\ post'[p].rev = IF new.pin # doc.pin THEN post[p].rev + 1 ELSE post[p].rev
               /\ post'[p].flagged = Dirty(doc.flagged, new.flagged, post[p].flagged)
               /\ post'[p].channelPostId
                    = Dirty(doc.channelPostId, new.channelPostId, post[p].channelPostId)
<1> DEFINE p == act[a].p
           doc == act[a].doc
           saved == [status  |-> Dirty(doc.status, new.status, post[p].status),
                     pin     |-> Dirty(doc.pin, new.pin, post[p].pin),
                     rev     |-> IF new.pin # doc.pin THEN post[p].rev + 1 ELSE post[p].rev,
                     flagged |-> Dirty(doc.flagged, new.flagged, post[p].flagged),
                     channelPostId |-> Dirty(doc.channelPostId, new.channelPostId,
                                             post[p].channelPostId)]
<1>1. post \in [Posts -> PostDocs] /\ p \in Posts /\ doc \in PostDocs
  BY DEF TypeOK
<1>2. saved \in PostDocs
  BY <1>1 DEF PostDocs, Dirty
<1>3. CASE CanSave(a, new) /\ Save(a, new)
  <2>1. post' = [post EXCEPT ![p] = saved] /\ Exists(p)
    BY <1>3 DEF Save, CanSave
  <2> HIDE DEF saved
  <2>2. post'[p] = saved /\ post' \in [Posts -> PostDocs]
        /\ \A q \in Posts \ {p} : post'[q] = post[q]
    BY <1>1, <1>2, <2>1
  <2> QED
    BY <2>1, <2>2 DEF saved
<1>4. CASE ~CanSave(a, new) /\ UNCHANGED post
  BY <1>1, <1>4 DEF CanSave
<1> QED
  BY <1>3, <1>4

\* The steps that touch a post of which the actor holds a copy, and what they
\* would make of that copy.
Copies(a, new) ==
  LET doc == act[a].doc IN
  \/ /\ act[a].at = "update" /\ act'[a].at = "idle"
     /\ new.status = "DRAFT" /\ (new.pin = doc.pin \/ Ready(new.pin))
     /\ new.flagged = doc.flagged /\ new.channelPostId = doc.channelPostId
  \/ /\ act[a].at \in {"schedAdd", "schedReplace"} /\ act'[a].at = "idle"
     /\ overlaps'[act[a].p] = overlaps[act[a].p] + 1
     /\ new = [doc EXCEPT !.status = "DRAFT"]
  \/ /\ act[a].at = "schedSave" /\ act'[a].at \in {"schedCount", "idle"}
     /\ new = [doc EXCEPT !.status = "SCHEDULED"]
  \/ /\ act[a].at = "schedFlag" /\ act'[a].at = "idle" /\ new = [doc EXCEPT !.flagged = TRUE]
  \/ /\ act[a].at = "unschedSave" /\ act'[a].at = "idle" /\ new = [doc EXCEPT !.status = "DRAFT"]
  \/ /\ act[a].at = "pubSave" /\ act'[a].at \in {"idle", "returned", "thrown"}
     /\ new = [doc EXCEPT !.status = "PUBLISHED", !.channelPostId = TRUE]
  \/ /\ act[a].at = "pubSave" /\ act'[a].at \in {"idle", "thrown"}
     /\ overlaps'[act[a].p] = overlaps[act[a].p] + 1
     /\ new = [doc EXCEPT !.status = "FAILED", !.channelPostId = TRUE]
  \/ /\ act[a].at = "pubFail" /\ act'[a].at \in {"idle", "thrown"}
     /\ new = [doc EXCEPT !.status = "FAILED"]

\* The steps that touch something other than the actor's own state and the post
\* it saves.
LEMMA SaveSteps ==
  ASSUME TypeOK, ActorInv, NEW a \in Actors,
         \/ UpdatePost(a) \/ ScheduleSaves(a) \/ ScheduleFlags(a) \/ UnscheduleSaves(a)
         \/ PublishSaves(a) \/ PublishSaveFails(a) \/ FailPost(a)
         \/ ScheduleAddFails(a) /\ post' # post
  PROVE  /\ act[a].p \in Posts
         /\ \E new \in PostDocs :
              /\ Copies(a, new)
              /\ \/ CanSave(a, new) /\ Save(a, new)
                 \/ ~CanSave(a, new) /\ UNCHANGED post
<1> DEFINE doc == act[a].doc
<1>1. act[a] \in ActRecords /\ doc \in PostDocs
  BY DEF TypeOK, ActRecords
<1>2. ASSUME NEW st \in PostStatus
      PROVE  /\ [doc EXCEPT !.status = st] \in PostDocs
             /\ [doc EXCEPT !.status = st, !.channelPostId = TRUE] \in PostDocs
             /\ [doc EXCEPT !.flagged = TRUE] \in PostDocs
             /\ \A v \in 0..MaxVersions : [doc EXCEPT !.status = st, !.pin = v] \in PostDocs
  BY <1>1 DEF PostDocs
<1>3. {"DRAFT", "SCHEDULED", "PUBLISHED", "FAILED"} \subseteq PostStatus
  BY DEF PostStatus
<1>4. act[a].at \in PostPlaces
  BY DEF UpdatePost, ScheduleSaves, ScheduleFlags, UnscheduleSaves, PublishSaves,
         PublishSaveFails, FailPost, ScheduleAddFails, PostPlaces, Places, Disconnecting
<1>5. act[a].p \in Posts
  BY <1>4 DEF ActorInv, Placed
<1>6. \A x : /\ Goto(a, x) => act'[a].at = x
             /\ Done(a) => act'[a].at = "idle"
             /\ Ends(a, x) => act'[a].at \in {"idle", x}
  BY <1>1 DEF Goto, Done, Ends, Idle, TypeOK
<1>7. Disturb({act[a].p}) => overlaps'[act[a].p] = overlaps[act[a].p] + 1
  BY <1>5 DEF Disturb
<1>8. CASE UpdatePost(a)
  <2>1. PICK v \in Versions \cup {doc.pin} :
          LET new == [doc EXCEPT !.status = "DRAFT", !.pin = v] IN
          /\ Ready(v) \/ v = doc.pin
          /\ IF CanSave(a, new) THEN Save(a, new) ELSE UNCHANGED post
    BY <1>8 DEF UpdatePost
  <2> DEFINE new == [doc EXCEPT !.status = "DRAFT", !.pin = v]
  <2>2. v \in 0..MaxVersions
    BY <1>1, MaxVersionsAssumption DEF Versions, PostDocs
  <2>3. new \in PostDocs
    BY <1>2, <1>3, <2>2
  <2>4. /\ new.status = "DRAFT" /\ new.pin = v /\ new.flagged = doc.flagged
        /\ new.channelPostId = doc.channelPostId
    BY <1>1 DEF PostDocs
  <2>5. act[a].at = "update" /\ act'[a].at = "idle"
    BY <1>6, <1>8 DEF UpdatePost
  <2>6. Copies(a, new)
    BY <2>1, <2>4, <2>5 DEF Copies
  <2> QED
    BY <1>5, <2>1, <2>3, <2>6
<1>9. CASE ScheduleSaves(a)
  <2> DEFINE new == [doc EXCEPT !.status = "SCHEDULED"]
  <2>1. new \in PostDocs
    BY <1>2, <1>3
  <2>2. act[a].at = "schedSave" /\ act'[a].at \in {"schedCount", "idle"}
    <3>1. act \in [Actors -> ActRecords]
      BY DEF TypeOK, ActRecords
    <3>2. \/ act' = [act EXCEPT ![a] = [act[a] EXCEPT !.at = "schedCount", !.doc = new]]
          \/ Done(a)
      BY <1>9 DEF ScheduleSaves
    <3>3. act[a].at = "schedSave"
      BY <1>9 DEF ScheduleSaves
    <3> HIDE DEF new
    <3>4. [act[a] EXCEPT !.at = "schedCount", !.doc = new].at = "schedCount"
      BY <1>1 DEF ActRecords
    <3> QED
      BY <1>6, <3>1, <3>2, <3>3, <3>4
  <2>3. Copies(a, new)
    BY <2>2 DEF Copies
  <2> QED
    BY <1>5, <1>9, <2>1, <2>3 DEF ScheduleSaves
<1>10. CASE ScheduleFlags(a)
  <2> DEFINE new == [doc EXCEPT !.flagged = TRUE]
  <2>1. new \in PostDocs
    BY <1>2, <1>3
  <2>2. Copies(a, new)
    BY <1>6, <1>10 DEF ScheduleFlags, Copies
  <2> QED
    BY <1>5, <1>10, <2>1, <2>2 DEF ScheduleFlags
<1>11. CASE UnscheduleSaves(a)
  <2> DEFINE new == [doc EXCEPT !.status = "DRAFT"]
  <2>1. new \in PostDocs
    BY <1>2, <1>3
  <2>2. Copies(a, new)
    BY <1>6, <1>11 DEF UnscheduleSaves, Copies
  <2> QED
    BY <1>5, <1>11, <2>1, <2>2 DEF UnscheduleSaves
<1>12. CASE PublishSaves(a)
  <2> DEFINE new == [doc EXCEPT !.status = "PUBLISHED", !.channelPostId = TRUE]
  <2>1. new \in PostDocs
    BY <1>2, <1>3
  <2>2. Copies(a, new)
    BY <1>6, <1>12 DEF PublishSaves, Copies
  <2> QED
    BY <1>5, <1>12, <2>1, <2>2 DEF PublishSaves
<1>13. CASE PublishSaveFails(a)
  <2> DEFINE new == [doc EXCEPT !.status = "FAILED", !.channelPostId = TRUE]
  <2>1. new \in PostDocs
    BY <1>2, <1>3
  <2>2. Copies(a, new)
    BY <1>6, <1>7, <1>13 DEF PublishSaveFails, Copies
  <2> QED
    BY <1>5, <1>13, <2>1, <2>2 DEF PublishSaveFails
<1>14. CASE FailPost(a)
  <2> DEFINE new == [doc EXCEPT !.status = "FAILED"]
  <2>1. new \in PostDocs
    BY <1>2, <1>3
  <2>2. Copies(a, new)
    BY <1>6, <1>14 DEF FailPost, Copies
  <2> QED
    BY <1>5, <1>14, <2>1, <2>2 DEF FailPost
<1>15. CASE ScheduleAddFails(a) /\ post' # post
  <2> DEFINE new == [doc EXCEPT !.status = "DRAFT"]
  <2>1. new \in PostDocs
    BY <1>2, <1>3
  <2>2. Copies(a, new)
    BY <1>6, <1>7, <1>15 DEF ScheduleAddFails, Copies
  <2>3. CanSave(a, new) /\ Save(a, new)
    BY <1>15 DEF ScheduleAddFails
  <2> QED
    BY <1>5, <2>1, <2>2, <2>3
<1> QED
  BY <1>8, <1>9, <1>10, <1>11, <1>12, <1>13, <1>14, <1>15

\* What a step does to the actor that takes it.
Goes(a) == /\ act' = [act EXCEPT ![a] = act'[a]]
           /\ act'[a] \in ActRecords
           /\ Placed(act'[a])

To(a, x) == [act[a] EXCEPT !.at = x]

LEMMA Moved ==
  ASSUME TypeOK, ActorInv, NEW a \in Actors, NEW r \in ActRecords,
         act' = [act EXCEPT ![a] = r], Placed(r)
  PROVE  Goes(a) /\ act'[a] = r
BY DEF TypeOK, Goes

LEMMA GotoMoves ==
  ASSUME TypeOK, ActorInv, NEW a \in Actors, NEW x \in Places \ {"idle"}, Goto(a, x),
         act[a].at \in PostPlaces <=> x \in PostPlaces
  PROVE  Goes(a) /\ act'[a] = To(a, x)
<1>1. act[a] \in ActRecords
  BY DEF TypeOK, ActRecords
<1>2. [act[a] EXCEPT !.at = x] \in ActRecords
  BY <1>1 DEF ActRecords
<1>3. Placed([act[a] EXCEPT !.at = x])
  BY <1>1 DEF ActorInv, Placed, ActRecords
<1>4. act' = [act EXCEPT ![a] = [act[a] EXCEPT !.at = x]]
  BY <1>1 DEF Goto, TypeOK
<1> QED
  BY <1>2, <1>3, <1>4, Moved DEF To

LEMMA DoneMoves ==
  ASSUME TypeOK, ActorInv, NEW a \in Actors, Done(a)
  PROVE  Goes(a) /\ act'[a] = Idle
<1>1. Placed(Idle)
  BY DEF Placed, Idle, PostPlaces
<1> QED
  BY <1>1, NothingTyped, Moved DEF Done

LEMMA EndsMoves ==
  ASSUME TypeOK, ActorInv, NEW a \in Actors, NEW x \in {"thrown", "returned"}, Ends(a, x),
         act[a].at \in PostPlaces
  PROVE  /\ Goes(a)
         /\ \/ a \in Workers /\ act'[a] = To(a, x)
            \/ a \notin Workers /\ act'[a] = Idle
<1>1. x \in Places \ {"idle"} /\ x \in PostPlaces
  BY DEF Places, PostPlaces, Disconnecting
<1> QED
  BY <1>1, GotoMoves, DoneMoves DEF Ends

LEMMA BeginMoves ==
  ASSUME TypeOK, ActorInv, NEW a \in Actors, NEW p \in Posts, NEW x \in PostPlaces, Begin(a, p, x)
  PROVE  /\ Goes(a)
         /\ act'[a] = [Idle EXCEPT !.at = x, !.p = p, !.doc = post[p]]
<1> DEFINE r == [Idle EXCEPT !.at = x, !.p = p, !.doc = post[p]]
<1>1. x \in Places /\ x # "idle" /\ post[p] \in PostDocs
  BY DEF TypeOK, PostPlaces
<1>2. r \in ActRecords /\ Placed(r)
  BY <1>1, NothingTyped DEF Idle, ActRecords, Placed
<1>3. act' = [act EXCEPT ![a] = r]
  BY DEF Begin
<1> HIDE DEF r
<1> QED
  BY <1>2, <1>3, Moved DEF r

Ended(a, x) == IF a \in Workers THEN act'[a] = To(a, x) ELSE act'[a] = Idle

\* Where each step of a request or of a job's execution leads.
LEMMA ScheduleMoves ==
  ASSUME TypeOK, ActorInv, NEW a \in Actors
  PROVE  /\ ScheduleChecks(a) =>
              /\ Goes(a)
              /\ \/ act'[a] = [act[a] EXCEPT !.at = "schedRemove", !.first = ~WasCounted(a)]
                 \/ act'[a] = Idle
         /\ ScheduleRemovesJob(a) =>
              Goes(a) /\ act'[a] \in {To(a, "schedReplace"), To(a, "schedAdd"), Idle}
         /\ ScheduleAddsJob(a) => Goes(a) /\ act'[a] = To(a, "schedSave")
         /\ ScheduleSaves(a) =>
              /\ Goes(a)
              /\ \/ /\ act'[a] = [act[a] EXCEPT !.at = "schedCount",
                                   !.doc = [act[a].doc EXCEPT !.status = "SCHEDULED"]]
                 \/ act'[a] = Idle
         /\ ScheduleCounts(a) => Goes(a) /\ act'[a] = To(a, "schedFlag")
         /\ UnscheduleRemovesJob(a) => Goes(a) /\ act'[a] \in {To(a, "unschedSave"), Idle}
         /\ PublishNowRemovesJob(a) => Goes(a) /\ act'[a] \in {To(a, "pubLoad"), Idle}
         /\ DeleteRemoves(a) => Goes(a) /\ act'[a] \in {To(a, "delete"), Idle}
         /\ \/ UpdatePost(a) \/ ScheduleAddFails(a) \/ ScheduleFlags(a) \/ UnscheduleSaves(a)
            \/ DeletePost(a) \/ DisconnectFails(a) \/ EditWrites(a) \/ JobEnds(a)
            \/ RequestDies(a) \/ Crash(a)
            => Goes(a) /\ act'[a] = Idle
<1>0. act[a] \in ActRecords
  BY DEF TypeOK, ActRecords
<1> DEFINE sched == {"schedCheck", "schedRemove", "schedAdd", "schedReplace", "schedSave",
                     "schedCount", "schedFlag", "unschedRemove", "unschedSave", "nowRemove",
                     "pubLoad", "delRemove", "delete"}
<1>1. sched \subseteq PostPlaces /\ sched \subseteq Places \ {"idle"}
  BY DEF PostPlaces, Places, Disconnecting
<1>2. ASSUME NEW x \in sched, Goto(a, x), act[a].at \in sched PROVE Goes(a) /\ act'[a] = To(a, x)
  BY <1>1, <1>2, GotoMoves
<1>3. ASSUME ScheduleChecks(a)
      PROVE  /\ Goes(a)
             /\ \/ act'[a] = [act[a] EXCEPT !.at = "schedRemove", !.first = ~WasCounted(a)]
                \/ act'[a] = Idle
  <2> DEFINE r == [act[a] EXCEPT !.at = "schedRemove", !.first = ~WasCounted(a)]
  <2>1. r \in ActRecords /\ Placed(r)
    <3>1. act[a].p \in Posts /\ (~WasCounted(a)) \in BOOLEAN
      BY <1>1, <1>3 DEF ScheduleChecks, ActorInv, Placed
    <3> HIDE DEF sched
    <3> QED
      BY <1>0, <1>1, <3>1 DEF ActRecords, Placed, sched
  <2>2. act' = [act EXCEPT ![a] = r] \/ Done(a)
    BY <1>3 DEF ScheduleChecks
  <2> HIDE DEF r
  <2>3. act' = [act EXCEPT ![a] = r] => Goes(a) /\ act'[a] = r
    BY <2>1, Moved
  <2> QED
    BY <2>2, <2>3, DoneMoves DEF r
<1>4. ASSUME ScheduleSaves(a)
      PROVE  /\ Goes(a)
             /\ \/ act'[a] = [act[a] EXCEPT !.at = "schedCount",
                               !.doc = [act[a].doc EXCEPT !.status = "SCHEDULED"]]
                \/ act'[a] = Idle
  <2> DEFINE new == [act[a].doc EXCEPT !.status = "SCHEDULED"]
             r == [act[a] EXCEPT !.at = "schedCount", !.doc = new]
  <2>1. r \in ActRecords /\ Placed(r)
    <3>1. act[a].p \in Posts /\ new \in PostDocs
      BY <1>0, <1>1, <1>4 DEF ScheduleSaves, ActorInv, Placed, ActRecords, PostDocs, PostStatus
    <3> HIDE DEF new
    <3> QED
      BY <1>0, <1>1, <3>1 DEF ActRecords, Placed
  <2>2. act' = [act EXCEPT ![a] = r] \/ Done(a)
    BY <1>4 DEF ScheduleSaves
  <2> HIDE DEF r
  <2>3. act' = [act EXCEPT ![a] = r] => Goes(a) /\ act'[a] = r
    BY <2>1, Moved
  <2> QED
    BY <2>2, <2>3, DoneMoves DEF r
<1>5. ScheduleRemovesJob(a) =>
        Goes(a) /\ act'[a] \in {To(a, "schedReplace"), To(a, "schedAdd"), Idle}
  BY <1>2, DoneMoves DEF ScheduleRemovesJob
<1>6. ScheduleAddsJob(a) => Goes(a) /\ act'[a] = To(a, "schedSave")
  BY <1>2 DEF ScheduleAddsJob
<1>7. ScheduleCounts(a) => Goes(a) /\ act'[a] = To(a, "schedFlag")
  BY <1>2 DEF ScheduleCounts
<1>8. UnscheduleRemovesJob(a) => Goes(a) /\ act'[a] \in {To(a, "unschedSave"), Idle}
  BY <1>2, DoneMoves DEF UnscheduleRemovesJob
<1>9. PublishNowRemovesJob(a) => Goes(a) /\ act'[a] \in {To(a, "pubLoad"), Idle}
  BY <1>2, DoneMoves DEF PublishNowRemovesJob
<1>10. DeleteRemoves(a) => Goes(a) /\ act'[a] \in {To(a, "delete"), Idle}
  <2>1. DeleteRemoves(a) => act[a].at = "delRemove" /\ (Goto(a, "delete") \/ Done(a))
    BY DEF DeleteRemoves
  <2> QED
    BY <1>2, <2>1, DoneMoves
<1>11. \/ UpdatePost(a) \/ ScheduleAddFails(a) \/ ScheduleFlags(a) \/ UnscheduleSaves(a)
       \/ DeletePost(a) \/ DisconnectFails(a) \/ EditWrites(a) \/ JobEnds(a)
       \/ RequestDies(a) \/ Crash(a)
       => Done(a)
  BY DEF UpdatePost, ScheduleAddFails, ScheduleFlags, UnscheduleSaves, DeletePost,
         DisconnectFails, EditWrites, JobEnds, RequestDies, Crash
<1> QED
  BY <1>3, <1>4, <1>5, <1>6, <1>7, <1>8, <1>9, <1>10, <1>11, DoneMoves

LEMMA OtherMoves ==
  ASSUME TypeOK, ActorInv, NEW a \in Actors
  PROVE  /\ Disconnect(a) => Goes(a) /\ act'[a] = [Idle EXCEPT !.at = "discFind"]
         /\ DisconnectFinds(a) =>
              /\ Goes(a)
              /\ act'[a] = [act[a] EXCEPT !.at = "discRemove",
                             !.ps = {p \in Posts : post[p].status = "SCHEDULED"}]
         /\ DisconnectRemovesJobs(a) => Goes(a) /\ act'[a] \in {To(a, "discFail"), Idle}
         /\ LoadForEdit(a) =>
              /\ Goes(a)
              /\ act'[a] = [Idle EXCEPT !.at = "editPins", !.v = currentVersion,
                             !.rev = pinRevision, !.ps = {p \in Posts : ~Quiet(p)}]
         /\ EditChecksPins(a) => Goes(a) /\ act'[a] \in {To(a, "edit"), Idle}
         /\ PublishLoads(a) =>
              /\ Goes(a)
              /\ \/ act'[a] = [act[a] EXCEPT !.at = "pubCheck", !.doc = post[act[a].p]]
                 \/ Ended(a, "thrown")
         /\ PublishChecks(a) =>
              /\ Goes(a)
              /\ act'[a] \in {To(a, "pubFail"), To(a, "pubSend")} \/ Ended(a, "thrown")
         /\ PublishSends(a) => Goes(a) /\ act'[a] \in {To(a, "pubSave"), To(a, "pubFail")}
         /\ PublishAnswerLost(a) => Goes(a) /\ act'[a] = To(a, "pubFail")
         /\ PublishSaves(a) => Goes(a) /\ (Ended(a, "returned") \/ Ended(a, "thrown"))
         /\ PublishSaveFails(a) \/ FailPost(a) => Goes(a) /\ Ended(a, "thrown")
<1>0. act[a] \in ActRecords /\ act \in [Actors -> ActRecords]
  BY DEF TypeOK, ActRecords
<1> DEFINE pub == {"pubLoad", "pubCheck", "pubSend", "pubSave", "pubFail"}
           loose == {"discFind", "discRemove", "discFail", "editPins", "edit"}
<1>1. /\ pub \subseteq PostPlaces /\ pub \subseteq Places \ {"idle"}
      /\ loose \cap PostPlaces = {} /\ loose \subseteq Places \ {"idle"}
  BY DEF PostPlaces, Places, Disconnecting
<1>2. ASSUME NEW x \in pub, Goto(a, x), act[a].at \in pub PROVE Goes(a) /\ act'[a] = To(a, x)
  BY <1>1, <1>2, GotoMoves
<1>3. ASSUME NEW x \in loose, Goto(a, x), act[a].at \in loose PROVE Goes(a) /\ act'[a] = To(a, x)
  BY <1>1, <1>3, GotoMoves
<1>4. ASSUME NEW x \in {"thrown", "returned"}, Ends(a, x), act[a].at \in pub
      PROVE  Goes(a) /\ Ended(a, x)
  BY <1>1, <1>4, EndsMoves DEF Ended
<1>5. ASSUME Disconnect(a) PROVE Goes(a) /\ act'[a] = [Idle EXCEPT !.at = "discFind"]
  <2> DEFINE r == [Idle EXCEPT !.at = "discFind"]
  <2>1. r \in ActRecords /\ Placed(r)
    BY <1>1, NothingTyped DEF Idle, ActRecords, Placed
  <2>2. act' = [act EXCEPT ![a] = r]
    BY <1>5 DEF Disconnect
  <2> HIDE DEF r
  <2> QED
    BY <2>1, <2>2, Moved DEF r
<1>6. ASSUME DisconnectFinds(a)
      PROVE  /\ Goes(a)
             /\ act'[a] = [act[a] EXCEPT !.at = "discRemove",
                            !.ps = {p \in Posts : post[p].status = "SCHEDULED"}]
  <2> DEFINE r == [act[a] EXCEPT !.at = "discRemove",
                            !.ps = {p \in Posts : post[p].status = "SCHEDULED"}]
  <2>1. act[a].at = "discFind" /\ act' = [act EXCEPT ![a] = r]
    BY <1>6 DEF DisconnectFinds
  <2>2. Placed(act[a])
    BY DEF ActorInv
  <2>3. r \in ActRecords /\ Placed(r)
    BY <1>0, <1>1, <2>1, <2>2 DEF ActRecords, Placed
  <2> HIDE DEF r
  <2> QED
    BY <2>1, <2>3, Moved DEF r
<1>7. ASSUME LoadForEdit(a)
      PROVE  /\ Goes(a)
             /\ act'[a] = [Idle EXCEPT !.at = "editPins", !.v = currentVersion,
                            !.rev = pinRevision, !.ps = {p \in Posts : ~Quiet(p)}]
  <2> DEFINE r == [Idle EXCEPT !.at = "editPins", !.v = currentVersion,
                            !.rev = pinRevision, !.ps = {p \in Posts : ~Quiet(p)}]
  <2>1. act' = [act EXCEPT ![a] = r]
    BY <1>7 DEF LoadForEdit
  <2>2. currentVersion \in 0..MaxVersions /\ pinRevision \in Nat
    BY DEF TypeOK, StoreTypeOK
  <2>3. r \in ActRecords /\ Placed(r)
    BY <1>1, <2>2, NothingTyped DEF Idle, ActRecords, Placed
  <2> HIDE DEF r
  <2> QED
    BY <2>1, <2>3, Moved DEF r
<1>8. ASSUME PublishLoads(a)
      PROVE  /\ Goes(a)
             /\ \/ act'[a] = [act[a] EXCEPT !.at = "pubCheck", !.doc = post[act[a].p]]
                \/ Ended(a, "thrown")
  <2> DEFINE r == [act[a] EXCEPT !.at = "pubCheck", !.doc = post[act[a].p]]
  <2>1. act[a].at = "pubLoad" /\ (act' = [act EXCEPT ![a] = r] \/ Ends(a, "thrown"))
    BY <1>8 DEF PublishLoads
  <2>2. act[a].p \in Posts
    BY <1>1, <2>1 DEF ActorInv, Placed
  <2>3. r \in ActRecords /\ Placed(r)
    <3>1. post[act[a].p] \in PostDocs
      BY <2>2 DEF TypeOK
    <3> QED
      BY <1>0, <1>1, <2>2, <3>1 DEF ActRecords, Placed
  <2> HIDE DEF r
  <2>4. act' = [act EXCEPT ![a] = r] => Goes(a) /\ act'[a] = r
    BY <2>3, Moved
  <2> QED
    BY <1>4, <2>1, <2>4 DEF r
<1>9. DisconnectRemovesJobs(a) => Goes(a) /\ act'[a] \in {To(a, "discFail"), Idle}
  <2>1. DisconnectRemovesJobs(a) => act[a].at = "discRemove" /\ (Goto(a, "discFail") \/ Done(a))
    BY DEF DisconnectRemovesJobs
  <2> QED
    BY <1>3, <2>1, DoneMoves
<1>10. EditChecksPins(a) => Goes(a) /\ act'[a] \in {To(a, "edit"), Idle}
  BY <1>3, DoneMoves DEF EditChecksPins
<1>11. PublishChecks(a) =>
         /\ Goes(a)
         /\ act'[a] \in {To(a, "pubFail"), To(a, "pubSend")} \/ Ended(a, "thrown")
  <2>1. PublishChecks(a) => /\ act[a].at = "pubCheck"
                            /\ Goto(a, "pubFail") \/ Goto(a, "pubSend") \/ Ends(a, "thrown")
    BY DEF PublishChecks
  <2> QED
    BY <1>2, <1>4, <2>1
<1>12. PublishSends(a) => Goes(a) /\ act'[a] \in {To(a, "pubSave"), To(a, "pubFail")}
  BY <1>2 DEF PublishSends
<1>13. PublishAnswerLost(a) => Goes(a) /\ act'[a] = To(a, "pubFail")
  BY <1>2 DEF PublishAnswerLost
<1>14. PublishSaves(a) => Goes(a) /\ (Ended(a, "returned") \/ Ended(a, "thrown"))
  BY <1>4 DEF PublishSaves
<1>15. PublishSaveFails(a) \/ FailPost(a) => Goes(a) /\ Ended(a, "thrown")
  BY <1>4 DEF PublishSaveFails, FailPost
<1> QED
  BY <1>5, <1>6, <1>7, <1>8, <1>9, <1>10, <1>11, <1>12, <1>13, <1>14, <1>15

-----------------------------------------------------------------------------
(* The steps of Next, and who writes what *)

Saves(a) ==
  \/ UpdatePost(a) \/ ScheduleSaves(a) \/ ScheduleFlags(a) \/ UnscheduleSaves(a)
  \/ PublishSaves(a) \/ PublishSaveFails(a) \/ FailPost(a)
  \/ ScheduleAddFails(a) /\ post' # post

Takes(w, p) == stalls[p] <= MaxStalls /\ Fire(w, p)
GivesUp(w, p) == stalls[p] > MaxStalls /\ Fire(w, p)

Requests(c) == \/ \E p \in Posts : Load(c, p)
               \/ Disconnect(c) \/ LoadForEdit(c) \/ Proceed(c) \/ RequestDies(c)
Works(w)    == \/ \E p \in Posts : Takes(w, p)
               \/ Publish(w) \/ JobEnds(w) \/ Crash(w)

Acts(a) == \/ a \in Clients /\ Requests(a)
           \/ a \in Workers /\ Works(a)

World == \/ \E w \in Workers, p \in Posts : GivesUp(w, p)
         \/ \E p \in Posts : Stalled(p)
         \/ AccessChanges \/ ArtifactChanges \/ ChangePeriod

LEMMA Cases ==
  ASSUME TypeOK, Next
  PROVE  \/ \E p \in Posts, v \in Versions : CreatePost(p, v)
         \/ \E a \in Actors : Acts(a)
         \/ World
<1>1. \A p \in Posts : stalls[p] \in Nat
  BY DEF TypeOK
<1>2. \A w \in Workers, p \in Posts : Fire(w, p) => Takes(w, p) \/ GivesUp(w, p)
  BY <1>1, PostAssumption DEF Takes, GivesUp
<1>3. ASSUME NEW c \in Clients, Requests(c) PROVE c \in Actors /\ Acts(c)
  <2>1. c \in Actors
    BY DEF Actors
  <2> QED
    BY <1>3, <2>1, Zenon DEF Acts
<1>4. ASSUME NEW w \in Workers, Works(w) PROVE w \in Actors /\ Acts(w)
  <2>1. w \in Actors
    BY DEF Actors
  <2> QED
    BY <1>4, <2>1, Zenon DEF Acts
<1>5. \A c \in Clients : \/ \E p \in Posts : Load(c, p)
                        \/ Disconnect(c) \/ LoadForEdit(c) \/ Proceed(c) \/ RequestDies(c)
                        => Requests(c)
  BY Zenon DEF Requests
<1>6. \A w \in Workers : \/ \E p \in Posts : Takes(w, p)
                        \/ Publish(w) \/ JobEnds(w) \/ Crash(w)
                        => Works(w)
  BY Zenon DEF Works
<1>7. \/ \E p \in Posts, v \in Versions : CreatePost(p, v)
      \/ \E c \in Clients : Requests(c)
      \/ \E w \in Workers : Works(w)
      \/ World
  BY <1>2, <1>5, <1>6, Zenon DEF Next, World
<1> QED
  BY <1>3, <1>4, <1>7, Zenon

\* A step of an actor changes nothing of what the others are doing.
LEMMA ActorGoes ==
  ASSUME TypeOK, ActorInv, NEW a \in Actors, Acts(a)
  PROVE  Goes(a)
<1>1. ASSUME NEW p \in Posts, Load(a, p) PROVE Goes(a)
  <2>1. \E x \in PostPlaces : Begin(a, p, x)
    <3>1. {"update", "schedCheck", "unschedRemove", "nowRemove", "delRemove"} \subseteq PostPlaces
      BY DEF PostPlaces, Places, Disconnecting
    <3> QED
      BY <1>1, <3>1 DEF Load, LoadForUpdate, LoadForSchedule, LoadForUnschedule,
         LoadForPublishNow, LoadForDelete, BeginCall
  <2> QED
    BY <2>1, BeginMoves
<1>2. ASSUME NEW p \in Posts, Takes(a, p) PROVE Goes(a)
  <2>1. Begin(a, p, "pubLoad")
    BY <1>2, PostAssumption DEF Takes, Fire, TypeOK
  <2>2. "pubLoad" \in PostPlaces
    BY DEF PostPlaces, Places, Disconnecting
  <2> QED
    BY <2>1, <2>2, BeginMoves
<1>3. Proceed(a) \/ Publish(a) => Goes(a)
  BY ScheduleMoves, OtherMoves, Zenon DEF Proceed, Publish
<1>4. Disconnect(a) \/ LoadForEdit(a) \/ RequestDies(a) \/ JobEnds(a) \/ Crash(a) => Goes(a)
  BY ScheduleMoves, OtherMoves, Zenon
<1> QED
  BY <1>1, <1>2, <1>3, <1>4 DEF Acts, Requests, Works

JobStep(a) ==
  \/ ScheduleRemovesJob(a) \/ ScheduleAddsJob(a) \/ ScheduleAddFails(a)
  \/ UnscheduleRemovesJob(a) \/ PublishNowRemovesJob(a) \/ DeleteRemoves(a)
  \/ DisconnectRemovesJobs(a)
  \/ a \in Workers /\ JobEnds(a)
  \/ a \in Workers /\ \E p \in Posts : Takes(a, p)

\* Every step of an actor, by what it writes.
LEMMA ActorWrites ==
  ASSUME NEW a \in Actors, Acts(a)
  PROVE  /\ UNCHANGED post \/ Saves(a) \/ DeletePost(a) \/ DisconnectFails(a)
         /\ \/ UNCHANGED storeVars
            \/ BumpArtifactPinRevision /\ (ScheduleChecks(a) \/ PublishChecks(a))
            \/ EditVersion(act[a].v, act[a].rev) /\ EditWrites(a)
         /\ UNCHANGED counted \/ ScheduleCounts(a)
         /\ UNCHANGED <<period, returned>>
         /\ UNCHANGED live \/ PublishSends(a) \/ PublishAnswerLost(a) \/ DeleteRemoves(a)
         /\ UNCHANGED <<job, stalls>> \/ JobStep(a)
         /\ UNCHANGED connected \/ Disconnect(a)
         /\ UNCHANGED overlaps \/ \E ps : Disturb(ps)
         /\ calls' \in {calls, calls + 1} /\ faults' \in {faults, faults + 1}
<1> DEFINE Goal ==
      /\ UNCHANGED post \/ Saves(a) \/ DeletePost(a) \/ DisconnectFails(a)
      /\ \/ UNCHANGED storeVars
         \/ BumpArtifactPinRevision /\ (ScheduleChecks(a) \/ PublishChecks(a))
         \/ EditVersion(act[a].v, act[a].rev) /\ EditWrites(a)
      /\ UNCHANGED counted \/ ScheduleCounts(a)
      /\ UNCHANGED <<period, returned>>
      /\ UNCHANGED live \/ PublishSends(a) \/ PublishAnswerLost(a) \/ DeleteRemoves(a)
      /\ UNCHANGED <<job, stalls>> \/ JobStep(a)
      /\ UNCHANGED connected \/ Disconnect(a)
      /\ UNCHANGED overlaps \/ \E ps : Disturb(ps)
      /\ calls' \in {calls, calls + 1} /\ faults' \in {faults, faults + 1}
<1> USE DEF postVars, usageVars, boundVars, JobStep, Saves
<1>1. ASSUME NEW p \in Posts, Load(a, p) PROVE Goal
  BY <1>1 DEF Load, LoadForUpdate, LoadForSchedule, LoadForUnschedule, LoadForPublishNow,
     LoadForDelete, BeginCall, Begin
<1>2. ASSUME NEW p \in Posts, a \in Workers, Takes(a, p) PROVE Goal
  BY <1>2 DEF Takes, Fire, Begin
<1>3. ASSUME Disconnect(a) \/ LoadForEdit(a) PROVE Goal
  BY <1>3 DEF Disconnect, LoadForEdit
<1>4. ASSUME \/ UpdatePost(a) \/ ScheduleChecks(a) \/ ScheduleRemovesJob(a) \/ ScheduleAddsJob(a)
             \/ ScheduleSaves(a) \/ ScheduleCounts(a) \/ ScheduleFlags(a)
      PROVE  Goal
  BY <1>4 DEF UpdatePost, ScheduleChecks, ScheduleRemovesJob, ScheduleAddsJob, ScheduleSaves,
     ScheduleCounts, ScheduleFlags
<1>5. ASSUME ScheduleAddFails(a) \/ RequestDies(a) \/ Crash(a) PROVE Goal
  BY <1>5 DEF ScheduleAddFails, RequestDies, Crash, Touched
<1>6. ASSUME \/ UnscheduleRemovesJob(a) \/ UnscheduleSaves(a) \/ PublishNowRemovesJob(a)
             \/ DeleteRemoves(a) \/ DeletePost(a)
      PROVE  Goal
  BY <1>6 DEF UnscheduleRemovesJob, UnscheduleSaves, PublishNowRemovesJob, DeleteRemoves,
     DeletePost
<1>7. ASSUME \/ DisconnectFinds(a) \/ DisconnectRemovesJobs(a) \/ DisconnectFails(a)
             \/ EditChecksPins(a) \/ EditWrites(a)
      PROVE  Goal
  <2>1. DisconnectRemovesJobs(a) => \E ps : Disturb(ps)
    BY DEF DisconnectRemovesJobs
  <2> QED
    BY <1>7, <2>1 DEF DisconnectFinds, DisconnectRemovesJobs, DisconnectFails, EditChecksPins,
       EditWrites
<1>8. ASSUME Publish(a) PROVE Goal
  <2>1. CASE PublishLoads(a) \/ PublishChecks(a) \/ PublishSends(a)
    BY <2>1 DEF PublishLoads, PublishChecks, PublishSends
  <2>2. CASE PublishAnswerLost(a) \/ PublishSaves(a) \/ PublishSaveFails(a) \/ FailPost(a)
    <3>1. PublishAnswerLost(a) \/ PublishSaveFails(a) => \E ps : Disturb(ps)
      BY DEF PublishAnswerLost, PublishSaveFails
    <3> QED
      BY <2>2, <3>1 DEF PublishAnswerLost, PublishSaves, PublishSaveFails, FailPost
  <2> QED
    BY <1>8, <2>1, <2>2 DEF Publish
<1>9. ASSUME a \in Workers, JobEnds(a) PROVE Goal
  BY <1>9 DEF JobEnds
<1> QED
  BY <1>1, <1>2, <1>3, <1>4, <1>5, <1>6, <1>7, <1>8, <1>9 DEF Acts, Requests, Works, Proceed

\* What the steps do to the jobs: types, and which posts they may concern.
LEMMA JobTyped ==
  ASSUME TypeOK, ActorInv, NEW a \in Actors, Acts(a)
  PROVE  /\ job' \in [Posts -> {"none", "delayed", "active", "failed"}]
         /\ stalls' \in [Posts -> Nat]
         /\ \A q \in Posts : q \notin {act[a].p, act'[a].p} =>
              /\ job'[q] = job[q] \/ DisconnectRemovesJobs(a)
              /\ stalls'[q] = stalls[q]
<1> DEFINE Js == {"none", "delayed", "active", "failed"}
           Goal == /\ job' \in [Posts -> Js]
                   /\ stalls' \in [Posts -> Nat]
                   /\ \A q \in Posts : q \notin {act[a].p, act'[a].p} =>
                        /\ job'[q] = job[q] \/ DisconnectRemovesJobs(a)
                        /\ stalls'[q] = stalls[q]
           p == act[a].p
           Kept == stalls' = stalls \/ stalls' = [stalls EXCEPT ![p] = 0]
<1>0. job \in [Posts -> Js] /\ stalls \in [Posts -> Nat] /\ act[a] \in ActRecords
  BY DEF TypeOK, ActRecords
<1>1. CASE UNCHANGED <<job, stalls>>
  BY <1>0, <1>1
<1>2. ASSUME NEW x \in Js, act[a].at # "idle",
             job' = [job EXCEPT ![p] = x],
             Kept
      PROVE  Goal
  <2>1. job' \in [Posts -> Js]
    BY <1>0, <1>2
  <2>2. stalls' \in [Posts -> Nat]
    BY <1>0, <1>2
  <2>3. \A q \in Posts \ {p} : job'[q] = job[q] /\ stalls'[q] = stalls[q]
    BY <1>0, <1>2
  <2> QED
    BY <2>1, <2>2, <2>3
<1>3. CASE \/ ScheduleRemovesJob(a) \/ ScheduleAddsJob(a) \/ ScheduleAddFails(a)
           \/ UnscheduleRemovesJob(a) \/ PublishNowRemovesJob(a) \/ DeleteRemoves(a)
           \/ JobEnds(a)
  <2>1. act[a].at # "idle"
    BY <1>3 DEF ScheduleRemovesJob, ScheduleAddsJob, ScheduleAddFails, UnscheduleRemovesJob,
       PublishNowRemovesJob, DeleteRemoves, JobEnds
  <2>2. \/ UNCHANGED <<job, stalls>>
        \/ (RemoveJob(p) \/ job' = [job EXCEPT ![p] = "failed"]) /\ stalls' = stalls
        \/ AddScheduleJob(p)
    BY <1>3, Zenon DEF ScheduleRemovesJob, ScheduleAddsJob, ScheduleAddFails, UnscheduleRemovesJob,
       PublishNowRemovesJob, DeleteRemoves, JobEnds, RemoveJob
  <2>3. \/ UNCHANGED <<job, stalls>>
        \/ \E x \in Js : job' = [job EXCEPT ![p] = x] /\ Kept
    BY <2>2 DEF RemoveJob, AddScheduleJob
  <2>4. CASE \E x \in Js : job' = [job EXCEPT ![p] = x] /\ Kept
    <3>1. PICK x \in Js : job' = [job EXCEPT ![p] = x] /\ Kept
      BY <2>4, Zenon
    <3> QED
      BY <1>2, <2>1, <3>1
  <2> QED
    BY <1>1, <2>3, <2>4
<1>4. CASE DisconnectRemovesJobs(a)
  <2>1. act[a].at = "discRemove" /\ stalls' = stalls
        /\ \E ps : job' = [q \in Posts |-> IF q \in ps THEN "none" ELSE job[q]]
    BY <1>4 DEF DisconnectRemovesJobs
  <2> QED
    BY <1>0, <1>4, <2>1
<1>5. ASSUME NEW q \in Posts, Takes(a, q) PROVE Goal
  <2>1. job' = [job EXCEPT ![q] = "active"] /\ stalls' = stalls /\ Begin(a, q, "pubLoad")
    BY <1>0, <1>5, PostAssumption DEF Takes, Fire
  <2>2. act'[a].p = q /\ act'[a].at = "pubLoad"
    <3>1. "pubLoad" \in PostPlaces
      BY DEF PostPlaces, Places, Disconnecting
    <3>2. act'[a] = [Idle EXCEPT !.at = "pubLoad", !.p = q, !.doc = post[q]]
      BY <2>1, <3>1, BeginMoves
    <3> QED
      BY <3>2 DEF Idle
  <2> QED
    BY <1>0, <2>1, <2>2
<1>6. UNCHANGED <<job, stalls>> \/ JobStep(a)
  BY ActorWrites
<1> QED
  BY <1>1, <1>3, <1>4, <1>5, <1>6, Zenon DEF JobStep

\* The posts a step of an actor writes are those it works on.
LEMMA PostTyped ==
  ASSUME TypeOK, ActorInv, NEW a \in Actors, Acts(a)
  PROVE  /\ post' \in [Posts -> PostDocs]
         /\ \A q \in Posts : ~WorksOn(a, q) => post'[q] = post[q]
<1>0. post \in [Posts -> PostDocs] /\ act[a] \in ActRecords
  BY DEF TypeOK, ActRecords
<1>1. CASE UNCHANGED post
  BY <1>0, <1>1
<1>2. CASE Saves(a)
  <2>1. /\ act[a].p \in Posts
        /\ \E new \in PostDocs : /\ Copies(a, new)
                                 /\ \/ CanSave(a, new) /\ Save(a, new)
                                    \/ ~CanSave(a, new) /\ UNCHANGED post
    BY <1>2, SaveSteps DEF Saves
  <2>2. post' \in [Posts -> PostDocs] /\ \A q \in Posts \ {act[a].p} : post'[q] = post[q]
    BY <2>1, Saved
  <2>3. act[a].at # "idle"
    BY <2>1 DEF Copies
  <2> QED
    BY <2>2, <2>3 DEF WorksOn
<1>3. CASE DeletePost(a)
  <2>1. act[a].at = "delete"
        /\ (post' = [post EXCEPT ![act[a].p] = [@ EXCEPT !.status = "DELETED"]] \/ UNCHANGED post)
    BY <1>0, <1>3 DEF DeletePost
  <2>2. act[a].p \in Posts
    BY <2>1 DEF ActorInv, Placed, PostPlaces, Places, Disconnecting
  <2> DEFINE r == [post[act[a].p] EXCEPT !.status = "DELETED"]
  <2>3. r \in PostDocs
    BY <1>0, <2>2 DEF PostDocs, PostStatus
  <2>4. post' = [post EXCEPT ![act[a].p] = r] \/ UNCHANGED post
    BY <2>1
  <2> HIDE DEF r
  <2> QED
    BY <1>0, <2>1, <2>2, <2>3, <2>4 DEF WorksOn
<1>4. CASE DisconnectFails(a)
  <2>1. act[a].at = "discFail"
        /\ post' = [p \in Posts |-> IF p \in act[a].ps /\ Exists(p)
                                      THEN [post[p] EXCEPT !.status = "FAILED"] ELSE post[p]]
    BY <1>4 DEF DisconnectFails
  <2>2. \A p \in Posts : [post[p] EXCEPT !.status = "FAILED"] \in PostDocs
    BY <1>0 DEF PostDocs, PostStatus
  <2>3. post' \in [Posts -> PostDocs]
    BY <1>0, <2>1, <2>2
  <2> QED
    BY <2>1, <2>3 DEF WorksOn, Disconnecting
<1> QED
  BY <1>1, <1>2, <1>3, <1>4, ActorWrites

LEMMA DisturbTyped ==
  ASSUME TypeOK, NEW ps, Disturb(ps)
  PROVE  /\ overlaps' \in [Posts -> Nat]
         /\ \A q \in Posts : overlaps'[q] = IF q \in ps THEN overlaps[q] + 1 ELSE overlaps[q]
BY DEF TypeOK, Disturb

\* Disturbances are never taken back.
LEMMA OverlapsGrow ==
  ASSUME TypeOK, [Next]_vars
  PROVE  overlaps' \in [Posts -> Nat] /\ \A q \in Posts : overlaps'[q] >= overlaps[q]
<1>0. overlaps \in [Posts -> Nat]
  BY DEF TypeOK
<1>1. overlaps' = overlaps \/ \E ps : Disturb(ps)
  <2>1. ASSUME NEW a \in Actors, Acts(a) PROVE overlaps' = overlaps \/ \E ps : Disturb(ps)
    BY <2>1, ActorWrites
  <2>2. World => overlaps' = overlaps
    BY DEF World, GivesUp, Fire, Stalled, AccessChanges, ArtifactChanges, ChangePeriod,
       usageVars, boundVars, postVars
  <2>3. UNCHANGED vars \/ (\E p \in Posts, v \in Versions : CreatePost(p, v)) => overlaps' = overlaps
    BY DEF CreatePost, vars
  <2> QED
    BY <2>1, <2>2, <2>3, Cases
<1> QED
  BY <1>0, <1>1, DisturbTyped

LEMMA WorldWrites ==
  ASSUME TypeOK, World
  PROVE  /\ UNCHANGED <<post, live, counted, act, overlaps, calls, faults>>
         /\ job' \in [Posts -> {"none", "delayed", "active", "failed"}]
         /\ stalls' \in [Posts -> Nat]
         /\ connected' \in BOOLEAN
         /\ UNCHANGED storeVars \/ ArtifactChanges
         /\ UNCHANGED <<period, returned>> \/ ChangePeriod
         /\ UNCHANGED <<job, stalls>> \/ \E p \in Posts : Stalled(p) \/ \E w \in Workers : GivesUp(w, p)
<1> DEFINE Goal ==
         /\ UNCHANGED <<post, live, counted, act, overlaps, calls, faults>>
         /\ job' \in [Posts -> {"none", "delayed", "active", "failed"}]
         /\ stalls' \in [Posts -> Nat]
         /\ connected' \in BOOLEAN
         /\ UNCHANGED storeVars \/ ArtifactChanges
         /\ UNCHANGED <<period, returned>> \/ ChangePeriod
         /\ UNCHANGED <<job, stalls>> \/ \E p \in Posts : Stalled(p) \/ \E w \in Workers : GivesUp(w, p)
<1> USE DEF TypeOK, postVars, usageVars, boundVars
<1>1. ASSUME NEW w \in Workers, NEW p \in Posts, GivesUp(w, p) PROVE Goal
  <2>1. /\ job' = [job EXCEPT ![p] = "failed"]
        /\ UNCHANGED <<storeVars, post, stalls, live, usageVars, connected, act, overlaps, boundVars>>
    BY <1>1 DEF GivesUp, Fire
  <2> QED
    BY <1>1, <2>1
<1>2. ASSUME NEW p \in Posts, Stalled(p) PROVE Goal
  <2>1. job' = [job EXCEPT ![p] = "delayed"] /\ stalls' = [stalls EXCEPT ![p] = stalls[p] + 1]
    BY <1>2 DEF Stalled
  <2>2. stalls' \in [Posts -> Nat]
    BY <2>1
  <2>3. job' \in [Posts -> {"none", "delayed", "active", "failed"}]
    BY <2>1
  <2> QED
    BY <1>2, <2>2, <2>3 DEF Stalled
<1>3. ASSUME AccessChanges \/ ArtifactChanges \/ ChangePeriod PROVE Goal
  BY <1>3 DEF AccessChanges, ArtifactChanges, ChangePeriod
<1> QED
  BY <1>1, <1>2, <1>3 DEF World

LEMMA CreateWrites ==
  ASSUME TypeOK, NEW p \in Posts, NEW v \in Versions, CreatePost(p, v)
  PROVE  /\ post' \in [Posts -> PostDocs]
         /\ post[p].status = "NONE" /\ post'[p] = [NoDoc EXCEPT !.status = "DRAFT", !.pin = v]
         /\ \A q \in Posts \ {p} : post'[q] = post[q]
         /\ UNCHANGED <<storeVars, job, stalls, live, usageVars, connected, act, overlaps, boundVars>>
<1> DEFINE r == [NoDoc EXCEPT !.status = "DRAFT", !.pin = v]
<1>1. post \in [Posts -> PostDocs] /\ v \in 0..MaxVersions
  BY MaxVersionsAssumption DEF TypeOK, Versions
<1>2. r \in PostDocs
  BY <1>1, NothingTyped DEF PostDocs, PostStatus
<1>3. post' = [post EXCEPT ![p] = r]
  BY DEF CreatePost
<1> HIDE DEF r
<1>4. post' \in [Posts -> PostDocs] /\ post'[p] = r /\ \A q \in Posts \ {p} : post'[q] = post[q]
  BY <1>1, <1>2, <1>3
<1> QED
  BY <1>4 DEF CreatePost, r

LEMMA TypeStep ==
  ASSUME TypeOK, ActorInv, [Next]_vars
  PROVE  TypeOK' /\ ActorInv'
<1>0. overlaps' \in [Posts -> Nat]
  BY OverlapsGrow
<1>1. CASE UNCHANGED vars
  BY <1>1 DEF vars, storeVars, postVars, usageVars, boundVars, TypeOK, StoreTypeOK, ActorInv, Placed,
     Versions, Actors
<1>2. ASSUME NEW p \in Posts, NEW v \in Versions, CreatePost(p, v)
      PROVE  TypeOK' /\ ActorInv'
  <2>1. post' \in [Posts -> PostDocs]
    BY <1>2, CreateWrites
  <2>2. UNCHANGED <<storeVars, job, stalls, live, usageVars, connected, act, overlaps, boundVars>>
    BY <1>2, CreateWrites
  <2> QED
    BY <2>1, <2>2 DEF storeVars, usageVars, boundVars, TypeOK, StoreTypeOK, ActorInv, Placed,
       Versions, Actors
<1>3. CASE World
  <2>1. /\ UNCHANGED <<post, live, counted, act, overlaps, calls, faults>>
        /\ job' \in [Posts -> {"none", "delayed", "active", "failed"}]
        /\ stalls' \in [Posts -> Nat]
        /\ connected' \in BOOLEAN
    BY <1>3, WorldWrites
  <2>2. StoreTypeOK'
    BY <1>3, WorldWrites, StoreStep DEF TypeOK
  <2>3. period' \in 1..MaxPeriods /\ returned' \in BOOLEAN
    BY <1>3, WorldWrites DEF ChangePeriod, TypeOK
  <2>4. ActorInv'
    BY <2>1 DEF ActorInv, Placed, Actors
  <2> QED
    BY <2>1, <2>2, <2>3, <2>4, Zenon DEF TypeOK
<1>4. ASSUME NEW a \in Actors, Acts(a)
      PROVE  TypeOK' /\ ActorInv'
  <2>0. act \in [Actors -> ActRecords]
    BY DEF TypeOK, ActRecords
  <2>1. /\ act' = [act EXCEPT ![a] = act'[a]]
        /\ act'[a] \in ActRecords
        /\ Placed(act'[a])
    BY <1>4, ActorGoes DEF Goes
  <2>2. act' \in [Actors -> ActRecords]
    BY <2>0, <2>1
  <2>3. ActorInv'
    BY <2>0, <2>1 DEF ActorInv
  <2>4. post' \in [Posts -> PostDocs]
    BY <1>4, PostTyped
  <2>5. job' \in [Posts -> {"none", "delayed", "active", "failed"}] /\ stalls' \in [Posts -> Nat]
    BY <1>4, JobTyped
  <2>6. live' \in [Posts -> Nat]
    <3>1. live \in [Posts -> Nat]
      BY DEF TypeOK
    <3>2. \/ live' = live
          \/ live' = [live EXCEPT ![act[a].p] = live[act[a].p] + 1]
          \/ live' = [live EXCEPT ![act[a].p] = IF live[act[a].p] = 0 THEN 0 ELSE live[act[a].p] - 1]
      BY <1>4, ActorWrites DEF PublishSends, PublishAnswerLost, DeleteRemoves
    <3> QED
      BY <3>1, <3>2
  <2>7. counted' \in [1..MaxPeriods -> SUBSET Posts]
    <3>1. counted \in [1..MaxPeriods -> SUBSET Posts]
      BY DEF TypeOK
    <3>2. ScheduleCounts(a) => act[a].p \in Posts
      BY DEF ScheduleCounts, ActorInv, Placed, PostPlaces, Places, Disconnecting
    <3> QED
      BY <1>4, <3>1, <3>2, ActorWrites DEF ScheduleCounts
  <2>8. StoreTypeOK'
    <3>1. act[a].v \in 0..MaxVersions /\ act[a].rev \in Nat
      BY <2>0 DEF ActRecords
    <3> QED
      BY <1>4, <3>1, ActorWrites, StoreStep DEF TypeOK
  <2>9. connected' \in BOOLEAN /\ period' \in 1..MaxPeriods /\ returned' \in BOOLEAN
    BY <1>4, ActorWrites DEF TypeOK, Disconnect
  <2>10. calls' \in Nat /\ faults' \in Nat
    <3>1. calls \in Nat /\ faults \in Nat
      BY DEF TypeOK
    <3>2. calls' \in {calls, calls + 1} /\ faults' \in {faults, faults + 1}
      BY <1>4, ActorWrites
    <3> QED
      BY <3>1, <3>2
  <2> QED
    BY <1>0, <2>2, <2>3, <2>4, <2>5, <2>6, <2>7, <2>8, <2>9, <2>10, Zenon DEF TypeOK, ActRecords
<1> QED
  BY <1>1, <1>2, <1>3, <1>4, Cases

LEMMA OnlyClientsSchedule ==
  ASSUME TypeOK, NEW a \in Actors, Acts(a),
         ScheduleSaves(a) \/ ScheduleCounts(a) \/ PublishNowRemovesJob(a)
  PROVE  a \in Clients
<1>1. act[a].at \in {"schedSave", "schedCount", "nowRemove"} /\ faults' = faults /\ faults \in Nat
  BY DEF ScheduleSaves, ScheduleCounts, PublishNowRemovesJob, boundVars, TypeOK
<1>2. ~Crash(a)
  BY <1>1 DEF Crash
<1>3. ~JobEnds(a) /\ \A p \in Posts : ~Takes(a, p)
  BY <1>1 DEF JobEnds, Takes, Fire
<1>4. ~Publish(a)
  BY <1>1 DEF Publish, PublishLoads, PublishChecks, PublishSends, PublishAnswerLost,
     PublishSaves, PublishSaveFails, FailPost
<1> QED
  BY <1>2, <1>3, <1>4 DEF Acts, Works

\* What any step makes of a post: createPost makes it, or somebody writes to it,
\* and only some can change its version and its flag, schedule or publish it.
Created(p) ==
  /\ post[p].status = "NONE" /\ post'[p].status = "DRAFT" /\ ~post'[p].flagged
  /\ Ready(post'[p].pin)
  /\ UNCHANGED <<storeVars, job, stalls, live, usageVars, connected, act, overlaps, boundVars>>

Updating(p) == \E a \in Actors : act[a].at = "update" /\ act[a].p = p
Flagging(p) == \E a \in Actors : act[a].at = "schedFlag" /\ act[a].p = p
Sending(p)  == \E a \in Actors : act[a].at = "pubSave" /\ act[a].p = p
Scheduling(p) ==
  \E c \in Clients : /\ act[c].at = "schedSave" /\ act[c].p = p
                     /\ act'[c] = [act[c] EXCEPT !.at = "schedCount",
                                    !.doc = [act[c].doc EXCEPT !.status = "SCHEDULED"]]
                     /\ \A b \in Actors \ {c} : act'[b] = act[b]

Written(p) ==
  /\ Exists(p) /\ post'[p].status # "NONE"
  /\ post'[p].pin = post[p].pin \/ (Ready(post'[p].pin) /\ Updating(p))
  /\ post'[p].flagged = post[p].flagged \/ Flagging(p)
  /\ post'[p].status = "SCHEDULED" /\ post[p].status # "SCHEDULED" => Scheduling(p)
  /\ post'[p].status = "PUBLISHED" /\ post[p].status # "PUBLISHED" => Sending(p)

LEMMA PostStep ==
  ASSUME TypeOK, ActorInv, [Next]_vars, NEW p \in Posts
  PROVE  post'[p] = post[p] \/ Created(p) \/ Written(p)
<1> DEFINE Goal == post'[p] = post[p] \/ Created(p) \/ Written(p)
<1>0. post[p] \in PostDocs
  BY DEF TypeOK
<1>1. CASE UNCHANGED vars
  BY <1>1 DEF vars, postVars
<1>2. ASSUME NEW q \in Posts, NEW v \in Versions, CreatePost(q, v) PROVE Goal
  <2>1. q # p => post'[p] = post[p]
    BY <1>2, CreateWrites
  <2>2. q = p => Created(p)
    <3>1. Ready(v)
      BY <1>2 DEF CreatePost
    <3>2. q = p => /\ post[p].status = "NONE"
                   /\ post'[p] = [NoDoc EXCEPT !.status = "DRAFT", !.pin = v]
                   /\ UNCHANGED <<storeVars, job, stalls, live, usageVars, connected, act,
                                  overlaps, boundVars>>
      BY <1>2, CreateWrites
    <3> DEFINE new == [NoDoc EXCEPT !.status = "DRAFT", !.pin = v]
    <3>3. new.status = "DRAFT" /\ new.pin = v /\ new.flagged = FALSE
      BY DEF NoDoc
    <3> HIDE DEF new
    <3> QED
      BY <3>1, <3>2, <3>3 DEF new, Created
  <2> QED
    BY <2>1, <2>2
<1>3. World => post'[p] = post[p]
  BY WorldWrites
<1>4. ASSUME NEW a \in Actors, Acts(a) PROVE Goal
  <2>0. act \in [Actors -> ActRecords]
    BY DEF TypeOK, ActRecords
  <2>1. CASE Saves(a)
    <3>1. act[a].p \in Posts
      BY <2>1, SaveSteps DEF Saves
    <3>2. PICK new \in PostDocs : /\ Copies(a, new)
                                  /\ \/ CanSave(a, new) /\ Save(a, new)
                                     \/ ~CanSave(a, new) /\ UNCHANGED post
      BY <2>1, SaveSteps DEF Saves
    <3> DEFINE doc == act[a].doc
    <3>3. \/ post'[p] = post[p]
          \/ /\ p = act[a].p /\ Exists(p)
             /\ post'[p].status = Dirty(doc.status, new.status, post[p].status)
             /\ post'[p].pin = Dirty(doc.pin, new.pin, post[p].pin)
             /\ post'[p].flagged = Dirty(doc.flagged, new.flagged, post[p].flagged)
      BY <3>1, <3>2, Saved
    <3>4. doc \in PostDocs
      BY <2>0 DEF ActRecords
    <3>5. /\ new.status \in {doc.status, "DRAFT", "SCHEDULED", "PUBLISHED", "FAILED"}
          /\ new.pin = doc.pin \/ (Ready(new.pin) /\ act[a].at = "update")
          /\ new.status = "PUBLISHED" /\ doc.status # "PUBLISHED" => act[a].at = "pubSave"
          /\ new.flagged = doc.flagged \/ act[a].at = "schedFlag"
          /\ new.status = "SCHEDULED" /\ doc.status # "SCHEDULED"
               => act[a].at = "schedSave" /\ act'[a].at \in {"schedCount", "idle"}
      BY <3>2, <3>4 DEF Copies, PostDocs
    <3>6. ASSUME Exists(p), p = act[a].p,
                 post'[p].status = "SCHEDULED", post[p].status # "SCHEDULED",
                 post'[p].status = Dirty(doc.status, new.status, post[p].status)
          PROVE  Scheduling(p)
      <4>1. new.status = "SCHEDULED" /\ doc.status # "SCHEDULED"
        BY <3>6 DEF Dirty
      <4>2. act[a].at = "schedSave" /\ CanSave(a, new) /\ post' # post
        <5>1. act[a].at = "schedSave"
          BY <3>5, <4>1
        <5> QED
          BY <3>2, <3>6, <5>1
      <4>3. ScheduleSaves(a)
        BY <2>1, <4>2 DEF Saves, UpdatePost, ScheduleFlags, UnscheduleSaves, PublishSaves,
           PublishSaveFails, FailPost, ScheduleAddFails
      <4>4. a \in Clients
        BY <1>4, <4>3, OnlyClientsSchedule
      <4>5. act' = [act EXCEPT ![a] = [act[a] EXCEPT !.at = "schedCount",
                                        !.doc = [doc EXCEPT !.status = "SCHEDULED"]]]
        BY <4>2, <4>3 DEF ScheduleSaves
      <4>6. /\ act'[a] = [act[a] EXCEPT !.at = "schedCount", !.doc = [doc EXCEPT !.status = "SCHEDULED"]]
            /\ \A b \in Actors \ {a} : act'[b] = act[b]
        BY <2>0, <4>5
      <4> QED
        BY <3>6, <4>2, <4>4, <4>6 DEF Scheduling
    <3>7. CASE post'[p] # post[p]
      <4>1. post'[p].status # "NONE"
        BY <3>3, <3>5, <3>7 DEF Dirty, Exists
      <4>2. \/ post'[p].pin = post[p].pin
            \/ Ready(post'[p].pin) /\ act[a].at = "update" /\ act[a].p = p
        BY <3>3, <3>5, <3>7 DEF Dirty
      <4>4. post'[p].status = "PUBLISHED" /\ post[p].status # "PUBLISHED" =>
              act[a].at = "pubSave" /\ act[a].p = p
        BY <3>3, <3>5, <3>7 DEF Dirty
      <4>3. post'[p].flagged = post[p].flagged \/ (act[a].at = "schedFlag" /\ act[a].p = p)
        BY <3>3, <3>5, <3>7 DEF Dirty
      <4> QED
        BY <3>3, <3>6, <3>7, <4>1, <4>2, <4>3, <4>4 DEF Written, Updating, Flagging, Sending
    <3> QED
      BY <3>7
  <2>2. CASE DeletePost(a) \/ DisconnectFails(a)
    <3>1. \/ post'[p] = post[p]
          \/ Exists(p) /\ \E st \in {"DELETED", "FAILED"} : post'[p] = [post[p] EXCEPT !.status = st]
      <4>1. CASE DeletePost(a)
        <5>1. \/ UNCHANGED post
              \/ /\ Exists(act[a].p)
                 /\ post' = [post EXCEPT ![act[a].p] = [post[act[a].p] EXCEPT !.status = "DELETED"]]
          BY <4>1 DEF DeletePost
        <5> QED
          BY <5>1 DEF TypeOK
      <4>2. CASE DisconnectFails(a)
        BY <4>2 DEF DisconnectFails
      <4> QED
        BY <2>2, <4>1, <4>2
    <3>2. CASE Exists(p) /\ \E st \in {"DELETED", "FAILED"} : post'[p] = [post[p] EXCEPT !.status = st]
      BY <1>0, <3>2 DEF PostDocs, Written, Exists
    <3> QED
      BY <3>1, <3>2
  <2> QED
    BY <1>4, <2>1, <2>2, ActorWrites
<1> QED
  BY <1>1, <1>2, <1>3, <1>4, Cases

-----------------------------------------------------------------------------
(* Versions, and posts that are not there yet *)

LEMMA PinStep ==
  ASSUME TypeOK, ActorInv, PinInv, [Next]_vars
  PROVE  PinInv'
<1>0. currentVersion \in Nat /\ currentVersion' \in Nat
  BY TypeStep, MaxVersionsAssumption DEF TypeOK, StoreTypeOK
<1>1. currentVersion' >= currentVersion
      /\ \A v \in Versions : vstatus'[v] # "NONE" => v <= currentVersion'
  <2> DEFINE Kept == UNCHANGED storeVars \/ BumpArtifactPinRevision \/ ArtifactChanges
                     \/ \E v, rev : EditVersion(v, rev)
  <2>1. Kept
    <3>1. UNCHANGED vars => UNCHANGED storeVars
      BY DEF vars
    <3>2. \A p \in Posts, v \in Versions : CreatePost(p, v) => UNCHANGED storeVars
      BY DEF CreatePost
    <3>3. World => UNCHANGED storeVars \/ ArtifactChanges
      BY WorldWrites
    <3>4. \A a \in Actors : Acts(a) => Kept
      BY ActorWrites
    <3> QED
      BY <3>1, <3>2, <3>3, <3>4, Cases
  <2>2. CASE UNCHANGED storeVars \/ BumpArtifactPinRevision \/ \E v, rev : EditVersion(v, rev)
    BY <1>0, <2>2 DEF storeVars, BumpArtifactPinRevision, EditVersion, PinInv
  <2>3. CASE ArtifactChanges
    <3>1. vstatus \in [Versions -> VersionStatus] /\ Versions \subseteq Nat
      BY DEF TypeOK, StoreTypeOK, Versions
    <3>2. CASE Refinable /\ currentVersion < MaxVersions /\ AppendRefineVersion(currentVersion)
      <4>1. /\ currentVersion' = currentVersion + 1
            /\ vstatus' = [vstatus EXCEPT ![currentVersion + 1] = "GENERATING"]
        BY <3>2 DEF AppendRefineVersion
      <4> QED
        BY <1>0, <3>1, <4>1 DEF PinInv
    <3>3. CASE \/ vstatus[currentVersion] = "GENERATING" /\ SetVersionContent(currentVersion)
               \/ vstatus[currentVersion] = "GENERATING" /\ FailVersion(currentVersion)
               \/ DeleteArtifact
      BY <1>0, <3>1, <3>3 DEF SetVersionContent, FailVersion, DeleteArtifact, PinInv
    <3> QED
      BY <2>3, <3>2, <3>3 DEF ArtifactChanges
  <2> QED
    BY <2>1, <2>2, <2>3
<1>2. ASSUME NEW p \in Posts PROVE post'[p].pin <= currentVersion'
  <2>1. post[p].pin \in Nat /\ post[p].pin <= currentVersion /\ post'[p].pin \in Nat
    <3>1. post[p] \in PostDocs /\ post'[p] \in PostDocs
      BY TypeStep DEF TypeOK
    <3> QED
      BY <3>1, MaxVersionsAssumption DEF PinInv, PostDocs
  <2>2. post'[p].pin = post[p].pin \/ Ready(post'[p].pin)
    BY PostStep DEF Created, Written
  <2>3. Ready(post'[p].pin) => post'[p].pin <= currentVersion
    BY DEF Ready, PinInv
  <2> QED
    BY <1>0, <1>1, <2>1, <2>2, <2>3
<1> QED
  BY <1>1, <1>2 DEF PinInv, Versions

\* Only a request that loads a post, or a worker that takes its job, comes to
\* work on a post it did not work on.
Enters(a, p) == Load(a, p) \/ (a \in Workers /\ Takes(a, p))

EntryPlaces == {"update", "schedCheck", "unschedRemove", "nowRemove", "delRemove", "pubLoad"}

\* What was checked of the post, and what becomes of its job.
EntryFits(a, p, x) ==
  LET st == post[p].status IN
  /\ x = "update" => st \in {"DRAFT", "FAILED"}
  /\ x \in {"schedCheck", "nowRemove"} => st \in {"DRAFT", "SCHEDULED", "FAILED"}
  /\ x = "unschedRemove" => st = "SCHEDULED"
  /\ x = "pubLoad" => /\ a \in Workers /\ job[p] = "delayed"
                      /\ job' = [job EXCEPT ![p] = "active"]
  /\ x # "pubLoad" => job' = job

LEMMA EntersBy ==
  ASSUME TypeOK, NEW a \in Actors, NEW p \in Posts, Enters(a, p)
  PROVE  \E x \in EntryPlaces : Begin(a, p, x) /\ EntryFits(a, p, x)
<1>1. CASE Load(a, p)
  BY <1>1 DEF Load, LoadForUpdate, LoadForSchedule, LoadForUnschedule,
     LoadForPublishNow, LoadForDelete, BeginCall, postVars, EntryPlaces, EntryFits
<1>2. CASE a \in Workers /\ Takes(a, p)
  BY <1>2, PostAssumption DEF Takes, Fire, TypeOK, EntryPlaces, EntryFits
<1> QED
  BY <1>1, <1>2 DEF Enters

LEMMA EntersAt ==
  ASSUME TypeOK, ActorInv, NEW a \in Actors, NEW p \in Posts, Enters(a, p)
  PROVE  /\ act[a].at = "idle" /\ act[a] = Idle
         /\ act'[a].p = p /\ act'[a].doc = post[p] /\ act'[a].at \in EntryPlaces
         /\ Disturb({q \in Posts : q = p /\ ~Quiet(q)})
         /\ EntryFits(a, p, act'[a].at)
<1>1. PICK x \in EntryPlaces : Begin(a, p, x) /\ EntryFits(a, p, x)
  BY EntersBy
<1>2. x \in PostPlaces
  BY DEF EntryPlaces, PostPlaces, Places, Disconnecting
<1>3. act'[a] = [Idle EXCEPT !.at = x, !.p = p, !.doc = post[p]]
  BY <1>1, <1>2, BeginMoves
<1>4. act'[a].p = p /\ act'[a].doc = post[p] /\ act'[a].at = x
  BY <1>3 DEF Idle
<1>5. act[a].at = "idle" /\ act[a] = Idle /\ Disturb({q \in Posts : q = p /\ ~Quiet(q)})
  BY <1>1 DEF Begin, ActorInv, Placed
<1> QED
  BY <1>1, <1>4, <1>5

LEMMA EntersKeeps ==
  ASSUME NEW a \in Actors, NEW p \in Posts, Enters(a, p)
  PROVE  /\ post[p].status # "NONE" \/ job[p] = "delayed"
         /\ UNCHANGED <<storeVars, post, stalls, live, usageVars, connected>>
BY DEF Enters, Load, LoadForUpdate, LoadForSchedule, LoadForUnschedule,
   LoadForPublishNow, LoadForDelete, BeginCall, Takes, Fire, postVars

\* The others stay where they are, leave, or go on with their post.
LEMMA Staying ==
  ASSUME TypeOK, ActorInv, NEW a \in Actors, Acts(a), \A p \in Posts : ~Enters(a, p)
  PROVE  act'[a].p \in {act[a].p, NoPost}
<1>0. act[a] \in ActRecords
  BY DEF TypeOK, ActRecords
<1>1. \A x : To(a, x).p = act[a].p
  BY <1>0 DEF To, ActRecords
<1>2. Idle.p = NoPost /\ [Idle EXCEPT !.at = "discFind"].p = NoPost
      /\ [Idle EXCEPT !.at = "editPins", !.v = currentVersion, !.rev = pinRevision,
                      !.ps = {p \in Posts : ~Quiet(p)}].p = NoPost
  BY DEF Idle
<1> DEFINE Goal == act'[a].p \in {act[a].p, NoPost}
<1>3. (\E x : act'[a] = To(a, x)) \/ act'[a] = Idle => Goal
  BY <1>1, <1>2
<1>4. Disconnect(a) \/ LoadForEdit(a) => Goal
  BY <1>2, OtherMoves
<1>5. RequestDies(a) \/ JobEnds(a) \/ Crash(a) => Goal
  BY <1>3, ScheduleMoves
<1>6. Publish(a) => Goal
  <2>1. PublishLoads(a) => Goal
    <3>1. PublishLoads(a) => \/ act'[a] = [act[a] EXCEPT !.at = "pubCheck", !.doc = post[act[a].p]]
                             \/ Ended(a, "thrown")
      BY OtherMoves
    <3>2. [act[a] EXCEPT !.at = "pubCheck", !.doc = post[act[a].p]].p = act[a].p
      BY <1>0 DEF ActRecords
    <3> QED
      BY <1>3, <3>1, <3>2 DEF Ended
  <2>2. \/ PublishChecks(a) \/ PublishSends(a) \/ PublishAnswerLost(a) \/ PublishSaves(a)
        \/ PublishSaveFails(a) \/ FailPost(a)
        => (\E x : act'[a] = To(a, x)) \/ act'[a] = Idle
    BY OtherMoves DEF Ended
  <2> QED
    BY <1>3, <2>1, <2>2 DEF Publish
<1>7. Proceed(a) => Goal
  <2>1. \/ UpdatePost(a) \/ ScheduleRemovesJob(a) \/ ScheduleAddsJob(a)
        \/ ScheduleAddFails(a) \/ ScheduleCounts(a) \/ ScheduleFlags(a)
        \/ UnscheduleRemovesJob(a) \/ UnscheduleSaves(a) \/ PublishNowRemovesJob(a)
        \/ DeleteRemoves(a) \/ DeletePost(a) \/ DisconnectFails(a) \/ EditWrites(a)
        => (\E x : act'[a] = To(a, x)) \/ act'[a] = Idle
    BY ScheduleMoves
  <2>2. DisconnectRemovesJobs(a) \/ EditChecksPins(a)
        => (\E x : act'[a] = To(a, x)) \/ act'[a] = Idle
    BY OtherMoves
  <2>3. ScheduleChecks(a) \/ ScheduleSaves(a) => Goal
    <3>1. ScheduleChecks(a) =>
            \/ act'[a] = [act[a] EXCEPT !.at = "schedRemove", !.first = ~WasCounted(a)]
            \/ act'[a] = Idle
      BY ScheduleMoves
    <3>2. ScheduleSaves(a) =>
            \/ act'[a] = [act[a] EXCEPT !.at = "schedCount",
                           !.doc = [act[a].doc EXCEPT !.status = "SCHEDULED"]]
            \/ act'[a] = Idle
      BY ScheduleMoves
    <3>3. /\ [act[a] EXCEPT !.at = "schedRemove", !.first = ~WasCounted(a)].p = act[a].p
          /\ [act[a] EXCEPT !.at = "schedCount",
                           !.doc = [act[a].doc EXCEPT !.status = "SCHEDULED"]].p = act[a].p
      BY <1>0 DEF ActRecords
    <3> QED
      BY <1>3, <3>1, <3>2, <3>3
  <2>4. DisconnectFinds(a) => Goal
    <3>1. DisconnectFinds(a) =>
            act'[a] = [act[a] EXCEPT !.at = "discRemove",
                        !.ps = {p \in Posts : post[p].status = "SCHEDULED"}]
      BY OtherMoves
    <3>2. [act[a] EXCEPT !.at = "discRemove",
                        !.ps = {p \in Posts : post[p].status = "SCHEDULED"}].p = act[a].p
      BY <1>0 DEF ActRecords
    <3> QED
      BY <3>1, <3>2
  <2> QED
    BY <1>3, <1>6, <2>1, <2>2, <2>3, <2>4 DEF Proceed
<1> QED
  BY <1>4, <1>5, <1>6, <1>7 DEF Acts, Requests, Works, Enters

LEMMA OthersStay ==
  ASSUME TypeOK, ActorInv, NEW a \in Actors, Acts(a)
  PROVE  \A b \in Actors \ {a} : act'[b] = act[b]
<1>1. act' = [act EXCEPT ![a] = act'[a]] /\ act \in [Actors -> ActRecords]
  BY ActorGoes DEF Goes, TypeOK, ActRecords
<1> QED
  BY <1>1

LEMMA BornStep ==
  ASSUME TypeOK, ActorInv, BornInv, [Next]_vars
  PROVE  BornInv'
<1> SUFFICES ASSUME NEW p \in Posts, post'[p].status = "NONE"
             PROVE  job'[p] = "none" /\ \A a \in Actors : act'[a].p # p
  BY DEF BornInv, Actors
<1>1. post[p].status = "NONE"
  <2>1. post'[p] = post[p] \/ post'[p].status # "NONE"
    BY PostStep DEF Created, Written
  <2> QED
    BY <2>1
<1>2. job[p] = "none" /\ \A a \in Actors : act[a].p # p
  BY <1>1 DEF BornInv
<1>3. NoPost # p
  BY PostAssumption
<1>4. ASSUME NEW a \in Actors, Acts(a)
      PROVE  job'[p] = "none" /\ \A b \in Actors : act'[b].p # p
  <2>1. ~Enters(a, p)
    BY <1>1, <1>2, EntersAt, EntersKeeps
  <2>2. act'[a].p # p
    <3>1. CASE \E q \in Posts : Enters(a, q)
      BY <2>1, <3>1, EntersAt
    <3> QED
      BY <1>2, <1>3, <1>4, <3>1, Staying
  <2>3. \A b \in Actors : act'[b].p # p
    BY <1>2, <1>4, <2>2, OthersStay
  <2>4. job'[p] = "none"
    <3>1. CASE DisconnectRemovesJobs(a)
      BY <1>2, <3>1 DEF DisconnectRemovesJobs
    <3>2. ~DisconnectRemovesJobs(a) => job'[p] = job[p]
      BY <1>2, <1>4, <2>2, JobTyped
    <3> QED
      BY <1>2, <3>1, <3>2
  <2> QED
    BY <2>3, <2>4
<1>5. ASSUME NEW q \in Posts, NEW v \in Versions, CreatePost(q, v)
      PROVE  job'[p] = "none" /\ \A b \in Actors : act'[b].p # p
  BY <1>2, <1>5, CreateWrites
<1>6. ASSUME World
      PROVE  job'[p] = "none" /\ \A b \in Actors : act'[b].p # p
  <2>1. job'[p] = "none"
    <3>1. ASSUME NEW q \in Posts, job[q] # "none", NEW x, job' = [job EXCEPT ![q] = x]
          PROVE  job'[p] = "none"
      BY <1>2, <3>1 DEF TypeOK
    <3> QED
      BY <1>2, <1>6, <3>1, WorldWrites DEF Stalled, GivesUp, Fire
  <2> QED
    BY <1>2, <1>6, <2>1, WorldWrites
<1>7. CASE UNCHANGED vars
  BY <1>2, <1>7 DEF vars, postVars
<1> QED
  BY <1>4, <1>5, <1>6, <1>7, Cases

-----------------------------------------------------------------------------
(* The steps of an actor as a walk from place to place *)

\* The steps that change nothing of the actor but its place.
Edge(x, y) ==
  \/ x = "schedRemove" /\ y \in {"schedReplace", "schedAdd"}
  \/ x \in {"schedReplace", "schedAdd"} /\ y = "schedSave"
  \/ x = "schedCount" /\ y = "schedFlag"
  \/ x = "unschedRemove" /\ y = "unschedSave"
  \/ x = "nowRemove" /\ y = "pubLoad"
  \/ x = "delRemove" /\ y = "delete"
  \/ x = "discRemove" /\ y = "discFail"
  \/ x = "editPins" /\ y = "edit"
  \/ x = "pubCheck" /\ y \in {"pubFail", "pubSend", "thrown"}
  \/ x = "pubSend" /\ y \in {"pubSave", "pubFail"}
  \/ x = "pubSave" /\ y \in {"returned", "thrown"}
  \/ x \in {"pubLoad", "pubFail"} /\ y = "thrown"

Walks(a) == act'[a] = To(a, act'[a].at) /\ Edge(act[a].at, act'[a].at)

Follows(a) ==
  \/ act'[a] = Idle
  \/ Walks(a)
  \/ \E p \in Posts : Enters(a, p)
  \/ /\ ScheduleChecks(a)
     /\ act'[a] = [act[a] EXCEPT !.at = "schedRemove", !.first = ~WasCounted(a)]
  \/ /\ ScheduleSaves(a)
     /\ act'[a] = [act[a] EXCEPT !.at = "schedCount",
                    !.doc = [act[a].doc EXCEPT !.status = "SCHEDULED"]]
  \/ /\ PublishLoads(a)
     /\ act'[a] = [act[a] EXCEPT !.at = "pubCheck", !.doc = post[act[a].p]]
  \/ Disconnect(a) /\ act'[a] = [Idle EXCEPT !.at = "discFind"]
  \/ /\ DisconnectFinds(a)
     /\ act'[a] = [act[a] EXCEPT !.at = "discRemove",
                    !.ps = {p \in Posts : post[p].status = "SCHEDULED"}]
  \/ /\ LoadForEdit(a)
     /\ act'[a] = [Idle EXCEPT !.at = "editPins", !.v = currentVersion,
                    !.rev = pinRevision, !.ps = {p \in Posts : ~Quiet(p)}]

LEMMA ActorFollows ==
  ASSUME TypeOK, ActorInv, NEW a \in Actors, Acts(a)
  PROVE  Follows(a)
<1>0. act[a] \in ActRecords
  BY DEF TypeOK, ActRecords
<1>1. \A x : To(a, x).at = x
  BY <1>0 DEF To, ActRecords
<1>2. ASSUME NEW x, Edge(act[a].at, x), act'[a] = To(a, x) PROVE Walks(a)
  BY <1>1, <1>2 DEF Walks
<1>3. ASSUME NEW x, Edge(act[a].at, x), Ended(a, x) PROVE Walks(a) \/ act'[a] = Idle
  BY <1>2, <1>3 DEF Ended
<1>4. Disconnect(a) \/ LoadForEdit(a) => Follows(a)
  BY OtherMoves DEF Follows
<1>5. \/ RequestDies(a) \/ JobEnds(a) \/ Crash(a) \/ UpdatePost(a) \/ ScheduleAddFails(a)
      \/ ScheduleFlags(a) \/ UnscheduleSaves(a) \/ DeletePost(a) \/ DisconnectFails(a)
      \/ EditWrites(a)
      => Follows(a)
  BY ScheduleMoves DEF Follows
<1>6. ScheduleChecks(a) \/ ScheduleSaves(a) => Follows(a)
  BY ScheduleMoves DEF Follows
<1>7. ScheduleRemovesJob(a) => Follows(a)
  BY <1>2, ScheduleMoves DEF ScheduleRemovesJob, Edge, Follows
<1>8. ScheduleAddsJob(a) => Follows(a)
  BY <1>2, ScheduleMoves DEF ScheduleAddsJob, Edge, Follows
<1>9. ScheduleCounts(a) => Follows(a)
  BY <1>2, ScheduleMoves DEF ScheduleCounts, Edge, Follows
<1>10. UnscheduleRemovesJob(a) => Follows(a)
  BY <1>2, ScheduleMoves DEF UnscheduleRemovesJob, Edge, Follows
<1>11. PublishNowRemovesJob(a) => Follows(a)
  BY <1>2, ScheduleMoves DEF PublishNowRemovesJob, Edge, Follows
<1>12. DeleteRemoves(a) => Follows(a)
  <2>1. DeleteRemoves(a) => act[a].at = "delRemove"
    BY DEF DeleteRemoves
  <2> QED
    BY <1>2, <2>1, ScheduleMoves DEF Edge, Follows
<1>13. DisconnectFinds(a) => Follows(a)
  BY OtherMoves DEF Follows
<1>14. DisconnectRemovesJobs(a) => Follows(a)
  <2>1. DisconnectRemovesJobs(a) => act[a].at = "discRemove"
    BY DEF DisconnectRemovesJobs
  <2> QED
    BY <1>2, <2>1, OtherMoves DEF Edge, Follows
<1>15. EditChecksPins(a) => Follows(a)
  BY <1>2, OtherMoves DEF EditChecksPins, Edge, Follows
<1>16. PublishLoads(a) => Follows(a)
  <2>1. PublishLoads(a) => act[a].at = "pubLoad"
    BY DEF PublishLoads
  <2> QED
    BY <1>3, <2>1, OtherMoves DEF Edge, Follows
<1>17. PublishChecks(a) => Follows(a)
  <2>1. PublishChecks(a) => act[a].at = "pubCheck"
    BY DEF PublishChecks
  <2> QED
    BY <1>2, <1>3, <2>1, OtherMoves DEF Edge, Follows
<1>18. PublishSends(a) \/ PublishAnswerLost(a) => Follows(a)
  <2>1. PublishSends(a) \/ PublishAnswerLost(a) => act[a].at = "pubSend"
    BY DEF PublishSends, PublishAnswerLost
  <2> QED
    BY <1>2, <2>1, OtherMoves DEF Edge, Follows
<1>19. PublishSaves(a) \/ PublishSaveFails(a) => Follows(a)
  <2>1. PublishSaves(a) \/ PublishSaveFails(a) => act[a].at = "pubSave"
    BY DEF PublishSaves, PublishSaveFails
  <2> QED
    BY <1>3, <2>1, OtherMoves DEF Edge, Follows
<1>20. FailPost(a) => Follows(a)
  <2>1. FailPost(a) => act[a].at = "pubFail"
    BY DEF FailPost
  <2> QED
    BY <1>3, <2>1, OtherMoves DEF Edge, Follows
<1>21. (\E p \in Posts : Enters(a, p)) => Follows(a)
  BY DEF Follows
<1>22. Publish(a) => Follows(a)
  BY <1>16, <1>17, <1>18, <1>19, <1>20 DEF Publish
<1>23. Proceed(a) => Follows(a)
  BY <1>5, <1>6, <1>7, <1>8, <1>9, <1>10, <1>11, <1>12, <1>13, <1>14, <1>15, <1>22 DEF Proceed
<1> QED
  BY <1>4, <1>5, <1>21, <1>22, <1>23, Zenon DEF Acts, Requests, Works, Enters

\* The fields of what Follows lists.
LEMMA Fields ==
  ASSUME TypeOK, NEW a \in Actors
  PROVE  /\ \A x : LET r == To(a, x) IN
              /\ r.at = x /\ r.p = act[a].p /\ r.doc = act[a].doc /\ r.first = act[a].first
              /\ r.ps = act[a].ps /\ r.v = act[a].v /\ r.rev = act[a].rev
         /\ LET r == [act[a] EXCEPT !.at = "schedRemove", !.first = ~WasCounted(a)] IN
              r.at = "schedRemove" /\ r.p = act[a].p /\ r.doc = act[a].doc /\ r.first = ~WasCounted(a)
         /\ LET r == [act[a] EXCEPT !.at = "schedCount",
                       !.doc = [act[a].doc EXCEPT !.status = "SCHEDULED"]] IN
              /\ r.at = "schedCount" /\ r.p = act[a].p /\ r.first = act[a].first
              /\ r.doc = [act[a].doc EXCEPT !.status = "SCHEDULED"]
              /\ r.doc.flagged = act[a].doc.flagged
         /\ LET r == [act[a] EXCEPT !.at = "pubCheck", !.doc = post[act[a].p]] IN
              r.at = "pubCheck" /\ r.p = act[a].p /\ r.doc = post[act[a].p]
         /\ LET r == [act[a] EXCEPT !.at = "discRemove",
                       !.ps = {p \in Posts : post[p].status = "SCHEDULED"}] IN
              /\ r.at = "discRemove" /\ r.p = act[a].p /\ r.doc = act[a].doc
              /\ r.ps = {p \in Posts : post[p].status = "SCHEDULED"}
         /\ LET r == [Idle EXCEPT !.at = "discFind"] IN
              r.at = "discFind" /\ r.p = NoPost /\ r.doc = NoDoc
         /\ LET r == [Idle EXCEPT !.at = "editPins", !.v = currentVersion, !.rev = pinRevision,
                       !.ps = {p \in Posts : ~Quiet(p)}] IN
              /\ r.at = "editPins" /\ r.p = NoPost /\ r.doc = NoDoc
              /\ r.v = currentVersion /\ r.rev = pinRevision /\ r.ps = {p \in Posts : ~Quiet(p)}
         /\ Idle.at = "idle" /\ Idle.p = NoPost /\ Idle.doc = NoDoc
<1>0. act[a] \in ActRecords /\ act[a].doc \in PostDocs
  BY DEF TypeOK, ActRecords
<1>1. \A x : LET r == To(a, x) IN
        /\ r.at = x /\ r.p = act[a].p /\ r.doc = act[a].doc /\ r.first = act[a].first
        /\ r.ps = act[a].ps /\ r.v = act[a].v /\ r.rev = act[a].rev
  BY <1>0 DEF To, ActRecords
<1>2. LET r == [act[a] EXCEPT !.at = "schedRemove", !.first = ~WasCounted(a)] IN
        r.at = "schedRemove" /\ r.p = act[a].p /\ r.doc = act[a].doc /\ r.first = ~WasCounted(a)
  BY <1>0 DEF ActRecords
<1>3. LET r == [act[a] EXCEPT !.at = "schedCount",
                 !.doc = [act[a].doc EXCEPT !.status = "SCHEDULED"]] IN
        /\ r.at = "schedCount" /\ r.p = act[a].p /\ r.first = act[a].first
        /\ r.doc = [act[a].doc EXCEPT !.status = "SCHEDULED"]
        /\ r.doc.flagged = act[a].doc.flagged
  <2> DEFINE new == [act[a].doc EXCEPT !.status = "SCHEDULED"]
  <2>1. new.flagged = act[a].doc.flagged
    BY <1>0 DEF PostDocs
  <2> HIDE DEF new
  <2>2. LET r == [act[a] EXCEPT !.at = "schedCount", !.doc = new] IN
          r.at = "schedCount" /\ r.p = act[a].p /\ r.first = act[a].first /\ r.doc = new
    BY <1>0 DEF ActRecords
  <2> QED
    BY <2>1, <2>2 DEF new
<1>4. LET r == [act[a] EXCEPT !.at = "pubCheck", !.doc = post[act[a].p]] IN
        r.at = "pubCheck" /\ r.p = act[a].p /\ r.doc = post[act[a].p]
  BY <1>0 DEF ActRecords
<1>5. LET r == [act[a] EXCEPT !.at = "discRemove",
                 !.ps = {p \in Posts : post[p].status = "SCHEDULED"}] IN
        /\ r.at = "discRemove" /\ r.p = act[a].p /\ r.doc = act[a].doc
        /\ r.ps = {p \in Posts : post[p].status = "SCHEDULED"}
  BY <1>0 DEF ActRecords
<1>6. LET r == [Idle EXCEPT !.at = "discFind"] IN
        r.at = "discFind" /\ r.p = NoPost /\ r.doc = NoDoc
  BY DEF Idle
<1>7. LET r == [Idle EXCEPT !.at = "editPins", !.v = currentVersion, !.rev = pinRevision,
                 !.ps = {p \in Posts : ~Quiet(p)}] IN
        /\ r.at = "editPins" /\ r.p = NoPost /\ r.doc = NoDoc
        /\ r.v = currentVersion /\ r.rev = pinRevision /\ r.ps = {p \in Posts : ~Quiet(p)}
  BY DEF Idle
<1>8. Idle.at = "idle" /\ Idle.p = NoPost /\ Idle.doc = NoDoc
  BY DEF Idle
<1> QED
  BY <1>1, <1>2, <1>3, <1>4, <1>5, <1>6, <1>7, <1>8, ZenonT(60)

\* A request that is to count its post, to check whether it can be published or
\* to check the pins of an edit does so, or dies.
LEMMA NextAt ==
  ASSUME TypeOK, NEW a \in Actors, Acts(a), act[a].at \in {"schedCount", "pubCheck", "editPins"}
  PROVE  \/ act[a].at = "schedCount" /\ ScheduleCounts(a)
         \/ act[a].at = "pubCheck" /\ PublishChecks(a)
         \/ act[a].at = "editPins" /\ EditChecksPins(a)
         \/ RequestDies(a) \/ Crash(a)
<1>1. ~JobEnds(a) /\ ~Disconnect(a) /\ ~LoadForEdit(a) /\ \A p \in Posts : ~Takes(a, p) /\ ~Load(a, p)
  BY DEF JobEnds, Disconnect, LoadForEdit, Takes, Fire, Load, LoadForUpdate, LoadForSchedule,
     LoadForUnschedule, LoadForPublishNow, LoadForDelete, BeginCall, Begin
<1>2. Publish(a) => act[a].at = "pubCheck" /\ PublishChecks(a)
  <2>1. ~PublishLoads(a) /\ ~PublishSends(a) /\ ~PublishAnswerLost(a)
    BY DEF PublishLoads, PublishSends, PublishAnswerLost
  <2>2. ~PublishSaves(a) /\ ~PublishSaveFails(a) /\ ~FailPost(a)
    BY DEF PublishSaves, PublishSaveFails, FailPost
  <2>3. PublishChecks(a) => act[a].at = "pubCheck"
    BY DEF PublishChecks
  <2> QED
    BY <2>1, <2>2, <2>3 DEF Publish
<1>3. Proceed(a) => ScheduleCounts(a) \/ EditChecksPins(a) \/ Publish(a)
  <2>1. ~UpdatePost(a) /\ ~ScheduleChecks(a) /\ ~ScheduleRemovesJob(a) /\ ~ScheduleAddsJob(a)
        /\ ~ScheduleAddFails(a) /\ ~ScheduleSaves(a) /\ ~ScheduleFlags(a)
    BY DEF UpdatePost, ScheduleChecks, ScheduleRemovesJob, ScheduleAddsJob, ScheduleAddFails,
       ScheduleSaves, ScheduleFlags
  <2>2. ~UnscheduleRemovesJob(a) /\ ~UnscheduleSaves(a) /\ ~PublishNowRemovesJob(a)
        /\ ~DeleteRemoves(a) /\ ~DeletePost(a)
    BY DEF UnscheduleRemovesJob, UnscheduleSaves, PublishNowRemovesJob, DeleteRemoves, DeletePost
  <2>3. ~DisconnectFinds(a) /\ ~DisconnectRemovesJobs(a) /\ ~DisconnectFails(a)
        /\ ~EditWrites(a)
    BY DEF DisconnectFinds, DisconnectRemovesJobs, DisconnectFails, EditWrites
  <2> QED
    BY <2>1, <2>2, <2>3 DEF Proceed
<1>4. /\ ScheduleCounts(a) => act[a].at = "schedCount"
      /\ EditChecksPins(a) => act[a].at = "editPins"
  BY DEF ScheduleCounts, EditChecksPins
<1> QED
  BY <1>1, <1>2, <1>3, <1>4 DEF Acts, Requests, Works

\* The same field by field.
Same(a) == /\ act'[a].p = act[a].p /\ act'[a].doc = act[a].doc /\ act'[a].first = act[a].first
           /\ act'[a].ps = act[a].ps /\ act'[a].v = act[a].v /\ act'[a].rev = act[a].rev

LEMMA ActorWalks ==
  ASSUME TypeOK, ActorInv, NEW a \in Actors, Acts(a)
  PROVE  \/ act'[a] = Idle /\ act'[a].at = "idle" /\ act'[a].p = NoPost
         \/ Edge(act[a].at, act'[a].at) /\ Same(a)
         \/ \E p \in Posts : Enters(a, p)
         \/ /\ ScheduleChecks(a) /\ act'[a].at = "schedRemove" /\ act'[a].p = act[a].p
            /\ act'[a].doc = act[a].doc
         \/ /\ ScheduleSaves(a) /\ act'[a].at = "schedCount" /\ act'[a].p = act[a].p
            /\ act'[a].doc = [act[a].doc EXCEPT !.status = "SCHEDULED"]
         \/ /\ PublishLoads(a) /\ act'[a].at = "pubCheck" /\ act'[a].p = act[a].p
            /\ act'[a].doc = post[act[a].p]
         \/ Disconnect(a) /\ act'[a].at = "discFind" /\ act'[a].p = NoPost
         \/ /\ DisconnectFinds(a) /\ act'[a].at = "discRemove" /\ act'[a].p = act[a].p
            /\ act'[a].ps = {p \in Posts : post[p].status = "SCHEDULED"}
         \/ /\ LoadForEdit(a) /\ act'[a].at = "editPins" /\ act'[a].p = NoPost
            /\ act'[a].rev = pinRevision /\ act'[a].ps = {p \in Posts : ~Quiet(p)}
<1> DEFINE r1 == To(a, act'[a].at)
           r2 == [act[a] EXCEPT !.at = "schedRemove", !.first = ~WasCounted(a)]
           r3 == [act[a] EXCEPT !.at = "schedCount",
                    !.doc = [act[a].doc EXCEPT !.status = "SCHEDULED"]]
           r4 == [act[a] EXCEPT !.at = "pubCheck", !.doc = post[act[a].p]]
           r5 == [act[a] EXCEPT !.at = "discRemove",
                    !.ps = {p \in Posts : post[p].status = "SCHEDULED"}]
           r6 == [Idle EXCEPT !.at = "discFind"]
           r7 == [Idle EXCEPT !.at = "editPins", !.v = currentVersion, !.rev = pinRevision,
                    !.ps = {p \in Posts : ~Quiet(p)}]
<1>1. Idle.at = "idle" /\ Idle.p = NoPost
  BY DEF Idle
<1>2. /\ r1.p = act[a].p /\ r1.doc = act[a].doc /\ r1.first = act[a].first
      /\ r1.ps = act[a].ps /\ r1.v = act[a].v /\ r1.rev = act[a].rev
  BY DEF To, TypeOK
<1>3. r2.at = "schedRemove" /\ r2.p = act[a].p /\ r2.doc = act[a].doc
  BY Fields, Zenon
<1>4. /\ r3.at = "schedCount" /\ r3.p = act[a].p
      /\ r3.doc = [act[a].doc EXCEPT !.status = "SCHEDULED"]
  BY Fields, Zenon
<1>5. r4.at = "pubCheck" /\ r4.p = act[a].p /\ r4.doc = post[act[a].p]
  BY Fields, Zenon
<1>6. /\ r5.at = "discRemove" /\ r5.p = act[a].p
      /\ r5.ps = {p \in Posts : post[p].status = "SCHEDULED"}
  BY Fields, Zenon
<1>7. r6.at = "discFind" /\ r6.p = NoPost
  BY Fields, Zenon
<1>8. r7.at = "editPins" /\ r7.p = NoPost /\ r7.rev = pinRevision /\ r7.ps = {p \in Posts : ~Quiet(p)}
  BY Fields, Zenon
<1>9. \/ act'[a] = Idle
      \/ act'[a] = r1 /\ Edge(act[a].at, act'[a].at)
      \/ \E p \in Posts : Enters(a, p)
      \/ ScheduleChecks(a) /\ act'[a] = r2
      \/ ScheduleSaves(a) /\ act'[a] = r3
      \/ PublishLoads(a) /\ act'[a] = r4
      \/ Disconnect(a) /\ act'[a] = r6
      \/ DisconnectFinds(a) /\ act'[a] = r5
      \/ LoadForEdit(a) /\ act'[a] = r7
  BY ActorFollows, Zenon DEF Follows, Walks
<1> HIDE DEF r1, r2, r3, r4, r5, r6, r7
<1> QED
  BY <1>1, <1>2, <1>3, <1>4, <1>5, <1>6, <1>7, <1>8, <1>9 DEF Same

-----------------------------------------------------------------------------
(* Scheduled posts are in the usage of a period *)

LEMMA CountedGrows ==
  ASSUME TypeOK, ActorInv, [Next]_vars
  PROVE  /\ \A p \in Posts : Counted(p) => Counted(p)'
         /\ \A a \in Actors, p \in Posts :
              ScheduleCounts(a) /\ act[a].p = p /\ act[a].first => Counted(p)'
<1>0. counted \in [1..MaxPeriods -> SUBSET Posts] /\ period \in 1..MaxPeriods
  BY DEF TypeOK
<1>1. \/ counted' = counted
      \/ \E q : counted' = [counted EXCEPT ![period] = @ \cup {q}]
  <2>1. \A a \in Actors : Acts(a) => counted' = counted \/ ScheduleCounts(a)
    BY ActorWrites
  <2>2. UNCHANGED vars \/ (\E p \in Posts, v \in Versions : CreatePost(p, v)) => counted' = counted
    BY DEF CreatePost, vars, usageVars
  <2>3. World => counted' = counted
    BY WorldWrites
  <2> QED
    BY <2>1, <2>2, <2>3, Cases DEF ScheduleCounts
<1>2. \A t \in 1..MaxPeriods : counted[t] \subseteq counted'[t]
  BY <1>0, <1>1
<1>3. ASSUME NEW a \in Actors, NEW p \in Posts, ScheduleCounts(a), act[a].p = p, act[a].first
      PROVE  Counted(p)'
  <2>1. counted' = [counted EXCEPT ![period] = counted[period] \cup {p}]
    BY <1>3 DEF ScheduleCounts
  <2>2. p \in counted'[period]
    BY <1>0, <2>1
  <2> QED
    BY <1>0, <2>2 DEF Counted
<1> QED
  BY <1>2, <1>3 DEF Counted

LEMMA UsageStep ==
  ASSUME TypeOK, ActorInv, UsageInv, ScheduledIsCounted, [Next]_vars
  PROVE  UsageInv' /\ ScheduledIsCounted'
<1>0. act \in [Actors -> ActRecords]
  BY DEF TypeOK, ActRecords
<1>1. \A p \in Posts : Counted(p) => Counted(p)'
  BY CountedGrows
<1>2. ASSUME NEW p \in Posts, post'[p].flagged PROVE Counted(p)'
  <2>1. CASE post'[p].flagged = post[p].flagged
    BY <1>1, <1>2, <2>1 DEF UsageInv
  <2>2. CASE \E a \in Actors : act[a].at = "schedFlag" /\ act[a].p = p
    BY <1>1, <2>2 DEF UsageInv
  <2> QED
    BY <1>2, <2>1, <2>2, PostStep DEF Created, Written, Flagging
<1> DEFINE Known(x) == /\ x.doc.flagged => x.p \in Posts /\ Counted(x.p)
                       /\ x.at \in Admitted /\ ~x.first => x.p \in Posts /\ Counted(x.p)
                       /\ x.at = "schedFlag" => x.p \in Posts /\ Counted(x.p)
           KnownNext(x) == /\ x.doc.flagged => \E p \in Posts : x.p = p /\ Counted(p)'
                           /\ x.at \in Admitted /\ ~x.first => \E p \in Posts : x.p = p /\ Counted(p)'
                           /\ x.at = "schedFlag" => \E p \in Posts : x.p = p /\ Counted(p)'
<1>3. ASSUME NEW a \in Actors PROVE Known(act[a])
  <2>1. act[a].doc.flagged => act[a].at \in PostPlaces
    BY DEF ActorInv, Placed, NoDoc
  <2>2. act[a].at \in Admitted \cup {"schedFlag"} => act[a].at \in PostPlaces
    BY DEF Admitted, PostPlaces, Places, Disconnecting
  <2>3. act[a].at \in PostPlaces => act[a].p \in Posts
    BY DEF ActorInv, Placed
  <2> QED
    BY <2>1, <2>2, <2>3 DEF UsageInv
<1>4. \A x : Known(x) => KnownNext(x)
  BY <1>1
<1>5. ASSUME NEW a \in Actors, Acts(a) PROVE KnownNext(act'[a])
  <2>1. CASE act'[a] = Idle
    BY <2>1 DEF Idle, NoDoc, Admitted
  <2>2. CASE Walks(a)
    <3>1. /\ act'[a].p = act[a].p /\ act'[a].doc = act[a].doc /\ act'[a].first = act[a].first
          /\ Edge(act[a].at, act'[a].at)
      <4>1. LET r == To(a, act'[a].at) IN
              r.p = act[a].p /\ r.doc = act[a].doc /\ r.first = act[a].first
        BY <1>0 DEF To, ActRecords
      <4> QED
        BY <2>2, <4>1, Zenon DEF Walks
    <3>2. act'[a].at \in Admitted => act[a].at \in Admitted
      BY <3>1 DEF Edge, Admitted
    <3>3. act'[a].at = "schedFlag" => act[a].at = "schedCount"
      BY <3>1 DEF Edge
    <3>4. CASE act'[a].at = "schedFlag"
      <4>1. ScheduleCounts(a)
        <5>1. RequestDies(a) \/ Crash(a) => act'[a] = Idle
          BY ScheduleMoves
        <5> QED
          BY <1>5, <3>3, <3>4, <5>1, NextAt DEF Idle
      <4>2. act[a].p \in Posts
        BY <3>3, <3>4 DEF ActorInv, Placed, PostPlaces, Places, Disconnecting
      <4>3. act[a].first => Counted(act[a].p) \/ \E p \in Posts : act[a].p = p /\ Counted(p)'
        BY <4>1, <4>2, CountedGrows
      <4>4. ~act[a].first => Counted(act[a].p)
        BY <1>3, <3>3, <3>4 DEF Admitted
      <4>5. \E p \in Posts : act[a].p = p /\ Counted(p)'
        BY <1>1, <4>2, <4>3, <4>4
      <4> QED
        BY <1>1, <1>3, <3>1, <3>2, <3>4, <4>5 DEF Admitted
    <3> QED
      BY <1>1, <1>3, <3>1, <3>2, <3>4
  <2>3. ASSUME NEW p \in Posts, Enters(a, p) PROVE KnownNext(act'[a])
    <3>1. act'[a].p = p /\ act'[a].doc = post[p] /\ act'[a].at \notin Admitted \cup {"schedFlag"}
      BY <2>3, EntersAt DEF EntryPlaces, Admitted
    <3> QED
      BY <1>1, <3>1 DEF UsageInv
  <2>4. CASE /\ ScheduleChecks(a)
             /\ act'[a] = [act[a] EXCEPT !.at = "schedRemove", !.first = ~WasCounted(a)]
    <3>1. /\ act'[a].p = act[a].p /\ act'[a].doc = act[a].doc /\ act'[a].first = ~WasCounted(a)
          /\ act'[a].at = "schedRemove"
      BY <2>4, Fields
    <3>2. act[a].p \in Posts
      BY <2>4 DEF ScheduleChecks, ActorInv, Placed, PostPlaces, Places, Disconnecting
    <3>3. WasCounted(a) => Counted(act[a].p)
      BY <1>3 DEF WasCounted, Counted
    <3> QED
      BY <1>1, <1>3, <3>1, <3>2, <3>3
  <2>5. CASE /\ ScheduleSaves(a)
             /\ act'[a] = [act[a] EXCEPT !.at = "schedCount",
                            !.doc = [act[a].doc EXCEPT !.status = "SCHEDULED"]]
    <3>1. /\ act'[a].p = act[a].p /\ act'[a].doc.flagged = act[a].doc.flagged
          /\ act'[a].first = act[a].first /\ act'[a].at = "schedCount"
      BY <2>5, Fields
    <3>2. act[a].at \in Admitted
      BY <2>5 DEF ScheduleSaves, Admitted
    <3> QED
      BY <1>1, <1>3, <3>1, <3>2
  <2>6. CASE PublishLoads(a) /\ act'[a] = [act[a] EXCEPT !.at = "pubCheck", !.doc = post[act[a].p]]
    <3>1. act'[a].p = act[a].p /\ act'[a].doc = post[act[a].p] /\ act'[a].at = "pubCheck"
      BY <2>6, Fields
    <3>2. act[a].p \in Posts
      BY <2>6 DEF PublishLoads, ActorInv, Placed, PostPlaces, Places, Disconnecting
    <3> QED
      BY <1>1, <3>1, <3>2 DEF UsageInv, Admitted
  <2>7. ASSUME act'[a].doc = NoDoc, act'[a].at \in {"discFind", "discRemove", "editPins"}
        PROVE  KnownNext(act'[a])
    BY <2>7 DEF NoDoc, Admitted
  <2>8. CASE /\ DisconnectFinds(a)
             /\ act'[a] = [act[a] EXCEPT !.at = "discRemove",
                            !.ps = {p \in Posts : post[p].status = "SCHEDULED"}]
    <3>1. act'[a].doc = act[a].doc /\ act'[a].at = "discRemove"
      BY <2>8, Fields
    <3>2. act[a].doc = NoDoc
      BY <2>8 DEF DisconnectFinds, ActorInv, Placed, PostPlaces, Disconnecting
    <3> QED
      BY <2>7, <3>1, <3>2
  <2>9. CASE Disconnect(a) /\ act'[a] = [Idle EXCEPT !.at = "discFind"]
    <3>1. act'[a].doc = NoDoc /\ act'[a].at = "discFind"
      BY <2>9, Fields
    <3> QED
      BY <2>7, <3>1
  <2>10. CASE /\ LoadForEdit(a)
              /\ act'[a] = [Idle EXCEPT !.at = "editPins", !.v = currentVersion,
                             !.rev = pinRevision, !.ps = {p \in Posts : ~Quiet(p)}]
    <3>1. act'[a].doc = NoDoc /\ act'[a].at = "editPins"
      BY <2>10, Fields
    <3> QED
      BY <2>7, <3>1
  <2> QED
    BY <1>5, <2>1, <2>2, <2>3, <2>4, <2>5, <2>6, <2>8, <2>9, <2>10, ActorFollows, Zenon DEF Follows
<1>6. \A a \in Actors : KnownNext(act'[a])
  <2>1. ASSUME NEW a \in Actors, Acts(a) PROVE \A b \in Actors : KnownNext(act'[b])
    BY <1>3, <1>4, <1>5, <2>1, OthersStay
  <2>2. act' = act => \A b \in Actors : KnownNext(act'[b])
    BY <1>3, <1>4
  <2>3. World => act' = act
    BY WorldWrites
  <2>4. UNCHANGED vars \/ (\E p \in Posts, v \in Versions : CreatePost(p, v)) => act' = act
    BY DEF CreatePost, vars
  <2> QED
    BY <2>1, <2>2, <2>3, <2>4, Cases
<1>7. UsageInv'
  BY <1>2, <1>6 DEF UsageInv, Actors, Admitted, Counted
<1>8. ScheduledIsCounted'
  <2> SUFFICES ASSUME NEW p \in Posts, faults' = 0, post'[p].status = "SCHEDULED", ~Counted(p)'
               PROVE  \E c \in Clients : act'[c].p = p /\ act'[c].at = "schedCount"
    BY DEF ScheduledIsCounted, Counted
  <2>1. CASE post[p].status = "SCHEDULED"
    <3>1. faults = 0 /\ ~Counted(p)
      <4>1. UNCHANGED vars \/ (\E q \in Posts, v \in Versions : CreatePost(q, v)) => faults' = faults
        BY DEF CreatePost, vars, boundVars
      <4>2. faults' \in {faults, faults + 1}
        BY <4>1, ActorWrites, WorldWrites, Cases
      <4> QED
        BY <1>1, <4>2 DEF TypeOK
    <3>2. PICK c \in Clients : act[c].p = p /\ act[c].at = "schedCount"
      BY <2>1, <3>1 DEF ScheduledIsCounted, Counted
    <3>3. c \in Actors /\ act[c].first
      BY <3>1, <3>2 DEF UsageInv, Admitted, Actors
    <3>4. act'[c] = act[c]
      <4>1. ASSUME NEW a \in Actors, Acts(a) PROVE act'[c] = act[c]
        <5>1. a # c => act'[c] = act[c]
          BY <3>3, <4>1, OthersStay
        <5>2. CASE a = c
          <6>1. ~ScheduleCounts(a)
            BY <3>2, <3>3, <5>2, CountedGrows
          <6>2. faults' = faults + 1
            BY <3>2, <4>1, <5>2, <6>1, NextAt DEF RequestDies, Crash
          <6> QED
            BY <3>1, <6>2
        <5> QED
          BY <5>1, <5>2
      <4>2. World => act' = act
        BY WorldWrites
      <4>3. UNCHANGED vars \/ (\E q \in Posts, v \in Versions : CreatePost(q, v)) => act' = act
        BY DEF CreatePost, vars
      <4> QED
        BY <4>1, <4>2, <4>3, Cases
    <3> QED
      BY <3>2, <3>4
  <2>2. CASE post[p].status # "SCHEDULED"
    <3>1. \E c \in Clients : /\ act[c].p = p
                             /\ act'[c] = [act[c] EXCEPT !.at = "schedCount",
                                            !.doc = [act[c].doc EXCEPT !.status = "SCHEDULED"]]
      <4>1. post'[p].status = "SCHEDULED" /\ post'[p] # post[p] /\ post'[p].status # "DRAFT"
        BY <2>2
      <4>2. \E c \in Clients : /\ act[c].at = "schedSave" /\ act[c].p = p
                               /\ act'[c] = [act[c] EXCEPT !.at = "schedCount",
                                              !.doc = [act[c].doc EXCEPT !.status = "SCHEDULED"]]
                               /\ \A b \in Actors \ {c} : act'[b] = act[b]
        BY <2>2, <4>1, PostStep DEF Created, Written, Scheduling
      <4> QED
        BY <4>2, Zenon
    <3>2. PICK c \in Clients : /\ act[c].p = p
                               /\ act'[c] = [act[c] EXCEPT !.at = "schedCount",
                                              !.doc = [act[c].doc EXCEPT !.status = "SCHEDULED"]]
      BY <3>1, Zenon
    <3>3. c \in Actors
      BY DEF Actors
    <3>4. LET r == [act[c] EXCEPT !.at = "schedCount",
                    !.doc = [act[c].doc EXCEPT !.status = "SCHEDULED"]] IN
          r.at = "schedCount" /\ r.p = act[c].p
      BY <3>3, Fields
    <3> QED
      BY <3>2, <3>4, Zenon
  <2> QED
    BY <2>1, <2>2
<1> QED
  BY <1>7, <1>8

-----------------------------------------------------------------------------
(* The quota *)

\* How a step of an actor changes who is let through and not yet counted.
LEMMA PendingMoves ==
  ASSUME TypeOK, ActorInv, NEW a \in Actors, Acts(a)
  PROVE  \/ Pending' \subseteq Pending /\ counted' = counted
         \/ /\ WithinQuota /\ Pending' \subseteq Clients /\ counted' = counted
         \/ /\ a \in Pending /\ Pending' \subseteq Pending \ {a}
            /\ counted' = [counted EXCEPT ![period] = counted[period] \cup {act[a].p}]
<1> DEFINE In(x) == x.at \in Admitted /\ x.first
<1>1. \A b \in Actors \ {a} : act'[b] = act[b]
  BY OthersStay
<1>2. (In(act'[a]) => In(act[a])) => Pending' \subseteq Pending
  BY <1>1 DEF Pending, Actors
<1>3. ~In(act'[a]) => Pending' \subseteq Pending \ {a}
  BY <1>1 DEF Pending, Actors
<1>4. counted' = counted \/ ScheduleCounts(a)
  BY ActorWrites
<1>5. CASE ScheduleCounts(a)
  <2>1. act[a].at = "schedCount" /\ act'[a] = To(a, "schedFlag") /\ a \in Clients
    BY <1>5, ScheduleMoves, OnlyClientsSchedule DEF ScheduleCounts
  <2>2. act'[a].at = "schedFlag"
    BY <2>1 DEF To, TypeOK
  <2>3. ~In(act'[a])
    BY <2>2 DEF Admitted
  <2>4. act[a].first => /\ a \in Pending
                        /\ counted' = [counted EXCEPT ![period] = counted[period] \cup {act[a].p}]
    BY <1>5, <2>1 DEF Pending, Admitted, ScheduleCounts
  <2>5. ~act[a].first => counted' = counted
    BY <1>5 DEF ScheduleCounts
  <2> QED
    BY <1>2, <1>3, <2>3, <2>4, <2>5
<1>6. CASE ScheduleChecks(a) /\ act'[a] = [act[a] EXCEPT !.at = "schedRemove", !.first = ~WasCounted(a)]
  <2>1. act'[a].first = ~WasCounted(a) /\ counted' = counted
    <3>1. LET r == [act[a] EXCEPT !.at = "schedRemove", !.first = ~WasCounted(a)] IN
            r.at = "schedRemove" /\ r.first = ~WasCounted(a)
      BY DEF TypeOK
    <3> QED
      BY <1>6, <3>1 DEF ScheduleChecks, usageVars
  <2>2. Pending' \subseteq Clients
    BY DEF Pending
  <2>3. WasCounted(a) \/ WithinQuota
    <3>1. act'[a].at = "schedRemove"
      BY <1>6 DEF TypeOK
    <3>2. ~Done(a)
      BY <3>1 DEF Done, Idle, TypeOK
    <3> QED
      BY <1>6, <3>2 DEF ScheduleChecks
  <2> QED
    BY <1>2, <2>1, <2>2, <2>3
<1>7. CASE act'[a] = Idle \/ \E p \in Posts : Enters(a, p)
  <2>1. CASE act'[a] = Idle
    BY <1>2, <1>4, <1>5, <2>1 DEF Idle
  <2>2. ASSUME NEW p \in Posts, Enters(a, p) PROVE act'[a].at \notin Admitted
    BY <2>2, EntersAt DEF EntryPlaces, Admitted
  <2> QED
    BY <1>2, <1>4, <1>5, <1>7, <2>1, <2>2
<1>8. CASE Walks(a)
  <2>1. /\ act'[a].first = act[a].first
        /\ Edge(act[a].at, act'[a].at)
    <3>1. To(a, act'[a].at).first = act[a].first
      BY DEF To, TypeOK
    <3> QED
      BY <1>8, <3>1 DEF Walks
  <2>2. act'[a].at \in Admitted => act[a].at \in Admitted
    BY <2>1 DEF Edge, Admitted
  <2> QED
    BY <1>2, <1>4, <1>5, <2>1, <2>2
<1>9. CASE /\ ScheduleSaves(a)
           /\ act'[a] = [act[a] EXCEPT !.at = "schedCount",
                          !.doc = [act[a].doc EXCEPT !.status = "SCHEDULED"]]
  <2>1. act'[a].first = act[a].first
    BY <1>9, Fields
  <2>2. act[a].at \in Admitted
    BY <1>9 DEF ScheduleSaves, Admitted
  <2> QED
    BY <1>2, <1>4, <1>5, <2>1, <2>2
<1>10. CASE \/ PublishLoads(a) /\ act'[a] = [act[a] EXCEPT !.at = "pubCheck", !.doc = post[act[a].p]]
            \/ Disconnect(a) /\ act'[a] = [Idle EXCEPT !.at = "discFind"]
            \/ /\ DisconnectFinds(a)
               /\ act'[a] = [act[a] EXCEPT !.at = "discRemove",
                              !.ps = {p \in Posts : post[p].status = "SCHEDULED"}]
            \/ /\ LoadForEdit(a)
               /\ act'[a] = [Idle EXCEPT !.at = "editPins", !.v = currentVersion,
                              !.rev = pinRevision, !.ps = {p \in Posts : ~Quiet(p)}]
  <2>1. act'[a].at \in {"pubCheck", "discFind", "discRemove", "editPins"}
    <3>1. /\ [act[a] EXCEPT !.at = "pubCheck", !.doc = post[act[a].p]].at = "pubCheck"
          /\ [act[a] EXCEPT !.at = "discRemove",
                            !.ps = {p \in Posts : post[p].status = "SCHEDULED"}].at = "discRemove"
      BY DEF TypeOK
    <3>2. /\ [Idle EXCEPT !.at = "discFind"].at = "discFind"
          /\ [Idle EXCEPT !.at = "editPins", !.v = currentVersion,
                          !.rev = pinRevision, !.ps = {p \in Posts : ~Quiet(p)}].at = "editPins"
      BY DEF Idle
    <3> QED
      BY <1>10, <3>1, <3>2
  <2>2. ~In(act'[a])
    BY <2>1 DEF Admitted
  <2> QED
    BY <1>2, <1>4, <1>5, <2>2
<1> QED
  BY <1>6, <1>7, <1>8, <1>9, <1>10, ActorFollows, Zenon DEF Follows

LEMMA QuotaStep ==
  ASSUME TypeOK, ActorInv, QuotaInv, [Next]_vars
  PROVE  QuotaInv'
<1> DEFINE Q == Quota
           C == Cardinality(Clients)
           N(t) == Cardinality(counted[t])
           B == Quota + Cardinality(Clients) - 1
<1>0. /\ counted \in [1..MaxPeriods -> SUBSET Posts] /\ period \in 1..MaxPeriods
      /\ TypeOK'
  BY TypeStep DEF TypeOK
<1>1. Quota \in Nat /\ C \in Nat /\ C >= 1
  BY PostAssumption, FS_CardinalityType, FS_EmptySet
<1>2. /\ IsFiniteSet(Pending) /\ Cardinality(Pending) \in Nat /\ Cardinality(Pending) <= C
      /\ IsFiniteSet(Pending') /\ Cardinality(Pending') \in Nat /\ Cardinality(Pending') <= C
  <2>1. Pending \in SUBSET Clients /\ Pending' \in SUBSET Clients
    BY DEF Pending
  <2>2. ASSUME NEW S \in SUBSET Clients PROVE IsFiniteSet(S) /\ Cardinality(S) \in Nat /\ Cardinality(S) <= C
    BY PostAssumption, FS_Subset, FS_CardinalityType
  <2> QED
    BY <2>1, <2>2
<1>3. \A t \in 1..MaxPeriods : N(t) \in Nat
  BY FS_CardinalityType DEF QuotaInv
<1>4. ASSUME NEW S \in SUBSET Pending PROVE Cardinality(S) <= Cardinality(Pending)
  BY <1>2, FS_Subset
<1>5. CASE counted' = counted /\ UNCHANGED <<period, returned>> /\ Pending' \subseteq Pending
  <2>1. Cardinality(Pending') <= Cardinality(Pending)
    BY <1>4, <1>5
  <2>2. Quota = 0 => Pending' = {}
    BY <1>5 DEF QuotaInv
  <2>3. ~returned =>
          Cardinality(counted[period]) + Cardinality(Pending') <= Quota + Cardinality(Clients) - 1
    BY <1>0, <1>1, <1>2, <1>3, <2>1 DEF QuotaInv
  <2> QED
    BY <1>5, <2>2, <2>3 DEF QuotaInv
<1>6. CASE counted' = counted /\ UNCHANGED <<period, returned>> /\ WithinQuota
  <2>1. N(period) < Quota
    BY <1>6 DEF WithinQuota
  <2>2. Quota # 0
    BY <1>0, <1>1, <1>3, <2>1
  <2>3. Cardinality(counted[period]) + Cardinality(Pending') <= Quota + Cardinality(Clients) - 1
    BY <1>0, <1>1, <1>2, <1>3, <2>1
  <2> QED
    BY <1>6, <2>2, <2>3 DEF QuotaInv
<1>7. ASSUME NEW a \in Pending, Pending' \subseteq Pending \ {a}, UNCHANGED <<period, returned>>,
             NEW p, counted' = [counted EXCEPT ![period] = counted[period] \cup {p}]
      PROVE  QuotaInv'
  <2>1. IsFiniteSet(counted[period])
    BY <1>0 DEF QuotaInv
  <2>2. /\ counted'[period] = counted[period] \cup {p}
        /\ \A t \in 1..MaxPeriods \ {period} : counted'[t] = counted[t]
    BY <1>0, <1>7
  <2>3. IsFiniteSet(counted'[period]) /\ Cardinality(counted'[period]) <= N(period) + 1
    <3>1. /\ IsFiniteSet(counted[period] \cup {p})
          /\ Cardinality(counted[period] \cup {p}) = IF p \in counted[period] THEN N(period)
                                                                             ELSE N(period) + 1
      BY <2>1, FS_AddElement
    <3> QED
      BY <1>0, <1>3, <2>2, <3>1
  <2>4. Cardinality(Pending') <= Cardinality(Pending) - 1
    <3>1. IsFiniteSet(Pending \ {a}) /\ Cardinality(Pending \ {a}) = Cardinality(Pending) - 1
      BY <1>2, FS_RemoveElement
    <3> QED
      BY <1>7, <3>1, FS_Subset
  <2>5. Cardinality(counted'[period]) \in Nat
    BY <2>3, FS_CardinalityType
  <2>6. \A t \in 1..MaxPeriods : IsFiniteSet(counted'[t])
    BY <2>2, <2>3 DEF QuotaInv
  <2>7. ~returned =>
          Cardinality(counted'[period]) + Cardinality(Pending') <= Quota + Cardinality(Clients) - 1
    BY <1>0, <1>1, <1>2, <1>3, <2>3, <2>4, <2>5 DEF QuotaInv
  <2>8. Quota # 0
    BY <1>7 DEF QuotaInv
  <2>9. ~returned => \A t \in 1..MaxPeriods : t > period => counted'[t] = {}
    BY <1>0, <2>2 DEF QuotaInv
  <2>10. ~returned => \A t \in 1..MaxPeriods : t < period =>
           Cardinality(counted'[t]) <= Quota + Cardinality(Clients) - 1
    BY <1>0, <2>2 DEF QuotaInv
  <2> QED
    BY <1>7, <2>6, <2>7, <2>8, <2>9, <2>10 DEF QuotaInv
<1>8. CASE counted' = counted /\ Pending' = Pending /\ ChangePeriod
  <2>1. period' \in 1..MaxPeriods /\ (~returned' => ~returned /\ period' > period)
    <3>1. period' \in 1..MaxPeriods /\ period' # period
      BY <1>8 DEF ChangePeriod
    <3>2. ~returned' => ~returned /\ ~(period' < period)
      BY <1>8, Zenon DEF ChangePeriod
    <3> QED
      BY <1>0, <3>1, <3>2
  <2>2. ~returned' => Cardinality(counted[period']) = 0
    BY <2>1, FS_EmptySet DEF QuotaInv
  <2>3. Cardinality(Pending) <= Quota + C - 1
    BY <1>1, <1>2, FS_EmptySet DEF QuotaInv
  <2>4. ASSUME NEW t \in 1..MaxPeriods, ~returned', t < period'
        PROVE  N(t) <= Quota + C - 1
    <3>1. CASE t < period
      BY <2>1, <2>4, <3>1 DEF QuotaInv
    <3>2. CASE t = period
      BY <1>1, <1>2, <1>3, <2>1, <2>4, <3>2 DEF QuotaInv
    <3>3. CASE t > period
      BY <1>1, <2>1, <2>4, <3>3, FS_EmptySet DEF QuotaInv
    <3> QED
      BY <1>0, <3>1, <3>2, <3>3
  <2>5. ~returned' => \A t \in 1..MaxPeriods : t > period' => counted[t] = {}
    BY <1>0, <2>1 DEF QuotaInv
  <2> QED
    BY <1>1, <1>2, <1>8, <2>2, <2>3, <2>4, <2>5 DEF QuotaInv
<1>9. ASSUME NEW a \in Actors, Acts(a) PROVE QuotaInv'
  BY <1>5, <1>6, <1>7, <1>9, PendingMoves, ActorWrites
<1>10. act' = act => Pending' = Pending
  BY DEF Pending
<1>11. World => QuotaInv'
  BY <1>5, <1>8, <1>10, WorldWrites
<1>12. UNCHANGED vars \/ (\E p \in Posts, v \in Versions : CreatePost(p, v)) => QuotaInv'
  BY <1>5, <1>10 DEF CreatePost, vars, usageVars
<1> QED
  BY <1>9, <1>11, <1>12, Cases

-----------------------------------------------------------------------------
(* Edits and pins *)

\* The pin revision only grows, and whoever gets as far as to pin a version
\* makes it grow.
LEMMA PinRevisionGrows ==
  ASSUME TypeOK, ActorInv, [Next]_vars
  PROVE  /\ pinRevision \in Nat /\ pinRevision' \in {pinRevision, pinRevision + 1}
         /\ \A a \in Actors : Acts(a) /\ act'[a].at \in Confirming =>
              \/ pinRevision' = pinRevision + 1
              \/ act[a].at \in Confirming /\ act'[a].p = act[a].p
<1>1. pinRevision \in Nat
  BY DEF TypeOK, StoreTypeOK
<1>2. pinRevision' \in {pinRevision, pinRevision + 1}
  <2>1. ASSUME NEW a \in Actors, Acts(a) PROVE pinRevision' \in {pinRevision, pinRevision + 1}
    BY <2>1, ActorWrites DEF storeVars, BumpArtifactPinRevision, EditVersion
  <2>2. World => pinRevision' = pinRevision
    BY WorldWrites DEF storeVars, ArtifactChanges, AppendRefineVersion, SetVersionContent,
       FailVersion, DeleteArtifact
  <2>3. UNCHANGED vars \/ (\E p \in Posts, v \in Versions : CreatePost(p, v))
        => pinRevision' = pinRevision
    BY DEF CreatePost, vars, storeVars
  <2> QED
    BY <2>1, <2>2, <2>3, Cases
<1>3. ASSUME NEW a \in Actors, Acts(a), act'[a].at \in Confirming, pinRevision' # pinRevision + 1
      PROVE  act[a].at \in Confirming /\ act'[a].p = act[a].p
  <2>1. act'[a].at \notin {"idle", "pubCheck", "schedCount", "discFind", "discRemove", "editPins"}
    BY <1>3 DEF Confirming
  <2>2. \A p \in Posts : ~Enters(a, p)
    BY <1>3, EntersAt DEF EntryPlaces, Confirming
  <2>3. ~(ScheduleChecks(a) /\ act'[a].at = "schedRemove")
    <3>1. ASSUME act'[a].at = "schedRemove", Done(a) PROVE FALSE
      BY <3>1 DEF Done, Idle, TypeOK
    <3> QED
      BY <1>3, <3>1 DEF ScheduleChecks, BumpArtifactPinRevision
  <2>4. CASE Edge(act[a].at, act'[a].at) /\ Same(a)
    <3>1. act[a].at \in Confirming \/ (act[a].at = "pubCheck" /\ act'[a].at = "pubSend")
      BY <1>3, <2>4 DEF Edge, Confirming
    <3>2. CASE act[a].at = "pubCheck" /\ act'[a].at = "pubSend"
      <4>1. RequestDies(a) \/ Crash(a) => act'[a] = Idle
        BY ScheduleMoves
      <4>2. PublishChecks(a)
        BY <1>3, <3>2, <4>1, NextAt DEF Idle
      <4>3. ~Goto(a, "pubFail") /\ ~Ends(a, "thrown")
        BY <3>2 DEF Goto, Ends, Done, Idle, TypeOK
      <4> QED
        BY <1>3, <4>2, <4>3 DEF PublishChecks, BumpArtifactPinRevision
    <3> QED
      BY <2>4, <3>1, <3>2 DEF Same
  <2> QED
    BY <1>3, <2>1, <2>2, <2>3, <2>4, ActorWalks
<1> QED
  BY <1>1, <1>2, <1>3

LEMMA EditStep ==
  ASSUME TypeOK, ActorInv, EditInv, [Next]_vars
  PROVE  EditInv'
<1> DEFINE Clear(p) == /\ \A a \in Actors : act[a].p = p => act[a].at \notin Confirming
                       /\ \A a \in Actors : act[a].p = p /\ act[a].at = "update" => ~Confirmed(p)
           Safe(c) == /\ act[c].rev <= pinRevision
                      /\ act[c].rev = pinRevision =>
                           \A p \in Posts \ act[c].ps :
                             Clear(p) /\ (act[c].at = "edit" /\ Confirmed(p) => post[p].pin # act[c].v)
           ClearNext(p) == /\ \A a \in Actors : act'[a].p = p => act'[a].at \notin Confirming
                           /\ \A a \in Actors : act'[a].p = p /\ act'[a].at = "update" => ~Confirmed(p)'
           SafeNext(c) == /\ act'[c].rev <= pinRevision'
                          /\ act'[c].rev = pinRevision' =>
                               \A p \in Posts \ act'[c].ps :
                                 /\ ClearNext(p)
                                 /\ act'[c].at = "edit" /\ Confirmed(p)' => post'[p].pin # act'[c].v
<1> SUFFICES ASSUME NEW c \in Clients, act'[c].at \in {"editPins", "edit"} PROVE SafeNext(c)
  BY DEF EditInv, Actors
<1>0. /\ c \in Actors /\ act[c] \in ActRecords /\ act[c].rev \in Nat
      /\ pinRevision \in Nat /\ pinRevision' \in {pinRevision, pinRevision + 1}
  BY PinRevisionGrows DEF TypeOK, ActRecords, Actors
<1>1. ASSUME act[c].at \in {"editPins", "edit"} PROVE Safe(c)
  BY <1>1 DEF EditInv
<1>2. ASSUME NEW p \in Posts, Clear(p)
      PROVE  /\ Confirmed(p)' => Confirmed(p)
             /\ Confirmed(p) => post'[p].pin = post[p].pin
  <2>1. ~\E a \in Actors : act[a].at \in {"schedSave", "pubSave"} /\ act[a].p = p
    BY <1>2 DEF Confirming
  <2>2. Confirmed(p) => ~\E a \in Actors : act[a].at = "update" /\ act[a].p = p
    BY <1>2
  <2>3. \A c1 \in Clients : c1 \in Actors
    BY DEF Actors
  <2>4. CASE post'[p] = post[p]
    BY <2>4 DEF Confirmed
  <2>5. CASE post[p].status = "NONE" /\ post'[p].status = "DRAFT"
    BY <2>5 DEF Confirmed
  <2>6. ASSUME post'[p] # post[p], post'[p].status # "DRAFT" \/ post[p].status # "NONE"
        PROVE  /\ post'[p].status = "SCHEDULED" => post[p].status = "SCHEDULED"
               /\ post'[p].status = "PUBLISHED" => post[p].status = "PUBLISHED"
               /\ Confirmed(p) => post'[p].pin = post[p].pin
    <3>1. /\ post'[p].status = "SCHEDULED" /\ post[p].status # "SCHEDULED" =>
               \E c1 \in Clients : act[c1].at = "schedSave" /\ act[c1].p = p
          /\ post'[p].status = "PUBLISHED" /\ post[p].status # "PUBLISHED" =>
               \E a \in Actors : act[a].at = "pubSave" /\ act[a].p = p
          /\ \/ post'[p].pin = post[p].pin
             \/ \E a \in Actors : act[a].at = "update" /\ act[a].p = p
      <4>1. Written(p)
        BY <2>6, PostStep DEF Created
      <4> QED
        BY <4>1, Zenon DEF Written, Scheduling, Updating, Sending
    <3> QED
      BY <2>1, <2>2, <2>3, <3>1
  <2> QED
    BY <2>4, <2>5, <2>6 DEF Confirmed
\* Nobody who was not there before confirms, while the pin revision stays.
<1>3. ASSUME NEW p \in Posts, Clear(p), pinRevision' = pinRevision PROVE ClearNext(p)
  <2>0. Confirmed(p)' => Confirmed(p)
    BY <1>2, <1>3
  <2>1. ASSUME NEW a \in Actors, Acts(a), act'[a].p = p
        PROVE  act'[a].at \notin Confirming /\ (act'[a].at = "update" => ~Confirmed(p))
    <3>1. act'[a].at \notin Confirming
      BY <1>0, <1>3, <2>1, PinRevisionGrows
    <3>2. CASE act'[a].at = "update"
      <4>1. PICK q \in Posts : Enters(a, q)
        BY <2>1, <3>2, ActorWalks DEF Edge
      <4>2. q = p
        <5>1. act'[a].p = q
          BY <4>1, EntersAt
        <5> QED
          BY <2>1, <5>1
      <4>3. post[p].status \in {"DRAFT", "FAILED"}
        BY <3>2, <4>1, <4>2, EntersAt DEF EntryFits
      <4> QED
        BY <3>1, <4>3 DEF Confirmed
    <3> QED
      BY <3>1, <3>2
  <2>2. ASSUME NEW a \in Actors, Acts(a) PROVE ClearNext(p)
    BY <1>3, <2>0, <2>1, <2>2, OthersStay
  <2>3. act' = act => ClearNext(p)
    BY <1>3, <2>0
  <2>4. World => act' = act
    BY WorldWrites
  <2>5. UNCHANGED vars \/ (\E q \in Posts, v \in Versions : CreatePost(q, v)) => act' = act
    BY DEF CreatePost, vars
  <2> QED
    BY <2>2, <2>3, <2>4, <2>5, Cases
\* The editor stays where it is.
<1>4. CASE act'[c] = act[c]
  <2>1. Safe(c)
    BY <1>1, <1>4
  <2>2. act[c].rev = pinRevision' => act[c].rev = pinRevision /\ pinRevision' = pinRevision
    BY <1>0, <2>1
  <2>3. act[c].rev <= pinRevision'
    BY <1>0, <2>1
  <2> QED
    BY <1>2, <1>3, <1>4, <2>1, <2>2, <2>3
<1>5. CASE Acts(c)
  <2>1. \/ Edge(act[c].at, act'[c].at) /\ Same(c)
        \/ LoadForEdit(c) /\ act'[c].at = "editPins" /\ act'[c].rev = pinRevision
           /\ act'[c].ps = {p \in Posts : ~Quiet(p)}
    <3>1. act'[c].at \in {"editPins", "edit"}
      OBVIOUS
    <3>2. ~\E p \in Posts : Enters(c, p)
      BY <1>0, <3>1, EntersAt DEF EntryPlaces
    <3> QED
      BY <1>0, <1>5, <3>1, <3>2, ActorWalks
  <2>2. CASE LoadForEdit(c) /\ act'[c].at = "editPins" /\ act'[c].rev = pinRevision
             /\ act'[c].ps = {p \in Posts : ~Quiet(p)}
    <3>1. pinRevision' = pinRevision
      BY <2>2 DEF LoadForEdit, storeVars
    <3>2. ASSUME NEW p \in Posts \ act'[c].ps PROVE Clear(p)
      <4>1. Quiet(p)
        BY <2>2
      <4>2. ASSUME NEW a \in Actors, act[a].p = p PROVE act[a].at = "idle"
        BY <4>1, <4>2 DEF Quiet, WorksOn
      <4> QED
        BY <4>2 DEF Confirming
    <3> QED
      BY <1>0, <1>3, <2>2, <3>1, <3>2
  <2>3. CASE Edge(act[c].at, act'[c].at) /\ Same(c)
    <3>1. act[c].at = "editPins" /\ act'[c].at = "edit"
      BY <2>3 DEF Edge
    <3>2. EditChecksPins(c) /\ ~Pinned(act[c].v)
      <4>1. RequestDies(c) \/ Crash(c) \/ Done(c) => act'[c] = Idle
        BY <1>0, ScheduleMoves, DoneMoves
      <4>2. EditChecksPins(c)
        BY <1>0, <1>5, <3>1, <4>1, NextAt DEF Idle
      <4> QED
        BY <3>1, <4>1, <4>2 DEF EditChecksPins, Idle
    <3>3. pinRevision' = pinRevision /\ post' = post
      BY <3>2 DEF EditChecksPins, storeVars, postVars
    <3>4. \A p \in Posts : Confirmed(p)' => post'[p].pin # act[c].v
      BY <3>2, <3>3 DEF Pinned, Confirmed
    <3>5. Safe(c)
      BY <1>1, <3>1
    <3> QED
      BY <1>0, <1>3, <2>3, <3>3, <3>4, <3>5 DEF Same
  <2> QED
    BY <2>1, <2>2, <2>3
<1>6. ASSUME NEW a \in Actors, Acts(a) PROVE Acts(c) \/ act'[c] = act[c]
  BY <1>0, <1>6, OthersStay
<1>7. act' = act => act'[c] = act[c]
  OBVIOUS
<1>8. World => act' = act
  BY WorldWrites
<1>9. UNCHANGED vars \/ (\E q \in Posts, v \in Versions : CreatePost(q, v)) => act' = act
  BY DEF CreatePost, vars
<1> QED
  BY <1>4, <1>5, <1>6, <1>7, <1>8, <1>9, Cases

-----------------------------------------------------------------------------
(* Who works alone *)

\* Whoever begins to work on a post others work on disturbs it.
LEMMA Joining ==
  ASSUME TypeOK, ActorInv, NEW a \in Actors, Acts(a), NEW p \in Posts,
         WorksOn(a, p)', ~WorksOn(a, p)
  PROVE  /\ Enters(a, p) \/ (Disconnect(a) /\ act'[a].at = "discFind")
         /\ act[a].at = "idle"
         /\ overlaps'[p] = IF Quiet(p) THEN overlaps[p] ELSE overlaps[p] + 1
         /\ \A q \in Posts \ {p} : Enters(a, p) => overlaps'[q] = overlaps[q]
<1>1. act'[a].at # "idle" /\ (act'[a].p = p \/ act'[a].at \in Disconnecting)
  BY DEF WorksOn
<1>2. act[a].at = "idle" \/ (act[a].p # p /\ act[a].at \notin Disconnecting)
  BY DEF WorksOn
<1>3. NoPost # p
  BY PostAssumption
<1>4. ~(Edge(act[a].at, act'[a].at) /\ Same(a))
  BY <1>1, <1>2 DEF Edge, Same, Disconnecting
<1>5. /\ ~(ScheduleChecks(a) /\ act'[a].at = "schedRemove" /\ act'[a].p = act[a].p)
      /\ ~(ScheduleSaves(a) /\ act'[a].at = "schedCount" /\ act'[a].p = act[a].p)
      /\ ~(PublishLoads(a) /\ act'[a].at = "pubCheck" /\ act'[a].p = act[a].p)
  BY <1>1, <1>2 DEF ScheduleChecks, ScheduleSaves, PublishLoads, Disconnecting
<1>6. ~DisconnectFinds(a)
  BY <1>2 DEF DisconnectFinds, Disconnecting
<1>7. ~(LoadForEdit(a) /\ act'[a].at = "editPins" /\ act'[a].p = NoPost)
  BY <1>1, <1>3 DEF Disconnecting
<1>8. (\E q \in Posts : Enters(a, q)) \/ (Disconnect(a) /\ act'[a].at = "discFind")
  BY <1>1, <1>4, <1>5, <1>6, <1>7, ActorWalks
<1>9. CASE \E q \in Posts : Enters(a, q)
  <2>1. PICK q \in Posts : Enters(a, q)
    BY <1>9
  <2>2. act'[a].p = q /\ act'[a].at \notin Disconnecting /\ act[a].at = "idle"
        /\ Disturb({r \in Posts : r = q /\ ~Quiet(r)})
    BY <2>1, EntersAt DEF EntryPlaces, Disconnecting
  <2>3. q = p
    BY <1>1, <2>2
  <2> QED
    BY <2>1, <2>2, <2>3, DisturbTyped
<1>10. CASE Disconnect(a) /\ act'[a].at = "discFind"
  <2>1. act[a].at = "idle" /\ Disturb({q \in Posts : ~Quiet(q)})
    BY <1>10 DEF Disconnect
  <2>2. ~Enters(a, p)
    BY <1>10, EntersAt DEF EntryPlaces
  <2> QED
    BY <1>10, <2>1, <2>2, DisturbTyped
<1> QED
  BY <1>8, <1>9, <1>10

LEMMA AloneStep ==
  ASSUME TypeOK, ActorInv, AloneInv, [Next]_vars
  PROVE  AloneInv'
<1> SUFFICES ASSUME NEW p \in Posts, overlaps'[p] = 0,
                    NEW b \in Actors, NEW c \in Actors, WorksOn(b, p)', WorksOn(c, p)', b # c
             PROVE  FALSE
  BY DEF AloneInv, Undisturbed, Actors
<1>1. overlaps[p] = 0
  BY OverlapsGrow DEF TypeOK
<1>2. ~(WorksOn(b, p) /\ WorksOn(c, p))
  BY <1>1 DEF AloneInv, Undisturbed
<1>3. ASSUME NEW a \in Actors, Acts(a) PROVE FALSE
  <2>1. ASSUME NEW x \in Actors, NEW y \in Actors, x # y, WorksOn(x, p)', WorksOn(y, p)', ~WorksOn(x, p)
        PROVE  FALSE
    <3>1. x = a
      BY <1>3, <2>1, OthersStay DEF WorksOn
    <3>2. WorksOn(y, p)
      BY <1>3, <2>1, <3>1, OthersStay DEF WorksOn
    <3>3. ~Quiet(p)
      BY <3>2 DEF Quiet
    <3> QED
      BY <1>1, <1>3, <2>1, <3>1, <3>3, Joining
  <2> QED
    BY <1>2, <2>1
<1>4. act' = act => FALSE
  BY <1>2 DEF WorksOn
<1>5. World => act' = act
  BY WorldWrites
<1>6. UNCHANGED vars \/ (\E q \in Posts, v \in Versions : CreatePost(q, v)) => act' = act
  BY DEF CreatePost, vars
<1> QED
  BY <1>3, <1>4, <1>5, <1>6, Cases

-----------------------------------------------------------------------------
(* A post and its job *)

LEMMA HeadStays ==
  ASSUME TypeOK, NEW a \in Actors, Acts(a)
  PROVE  currentVersion' = currentVersion
BY ActorWrites DEF storeVars, BumpArtifactPinRevision, EditVersion

\* What save() makes of a post of which the actor holds a fresh copy.
LEMMA SavedFresh ==
  ASSUME TypeOK, NEW a \in Actors, act[a].p \in Posts, Exists(act[a].p), act[a].doc = post[act[a].p],
         NEW new \in PostDocs, new.rev = act[a].doc.rev,
         IF CanSave(a, new) THEN Save(a, new) ELSE UNCHANGED post
  PROVE  LET p == act[a].p IN
         /\ CanSave(a, new)
         /\ post'[p].status = new.status /\ post'[p].pin = new.pin /\ post'[p].flagged = new.flagged
         /\ post'[p].channelPostId = new.channelPostId
         /\ new.pin = post[p].pin => post'[p] = new
<1>1. CanSave(a, new)
  BY DEF CanSave
<1> DEFINE p == act[a].p
<1>2. /\ post' \in [Posts -> PostDocs]
      /\ post'[p].status = new.status /\ post'[p].pin = new.pin /\ post'[p].flagged = new.flagged
      /\ post'[p].channelPostId = new.channelPostId
      /\ new.pin = post[p].pin => post'[p].rev = new.rev
  <2>1. \/ post'[p] = post[p] /\ ~CanSave(a, new)
        \/ /\ post'[p].status = Dirty(post[p].status, new.status, post[p].status)
           /\ post'[p].pin = Dirty(post[p].pin, new.pin, post[p].pin)
           /\ post'[p].rev = IF new.pin # post[p].pin THEN post[p].rev + 1 ELSE post[p].rev
           /\ post'[p].flagged = Dirty(post[p].flagged, new.flagged, post[p].flagged)
           /\ post'[p].channelPostId
                = Dirty(post[p].channelPostId, new.channelPostId, post[p].channelPostId)
    BY <1>1, Saved
  <2>2. post' \in [Posts -> PostDocs]
    BY <1>1, Saved
  <2> QED
    BY <1>1, <2>1, <2>2 DEF Dirty
<1>3. post'[p] \in PostDocs
  BY <1>2
<1>4. ASSUME new.pin = post[p].pin PROVE post'[p] = new
  BY <1>2, <1>3, <1>4 DEF PostDocs
<1> QED
  BY <1>1, <1>2, <1>4

\* One step of the only actor at work on an undisturbed post: what it leaves
\* behind, and the place it goes to, fit each other again.
OwnStep(a, p) ==
  /\ Acts(a) /\ WorksOn(a, p) /\ Stage(a, p) /\ stalls[p] = 0
  /\ job[p] = "active" => a \in Workers /\ act[a].p = p /\ act[a].at \in Publishing
  /\ post[p].status # "NONE" \/ act[a].p # p
  /\ overlaps'[p] = 0 /\ overlaps[p] = 0

StillFits(a, p) ==
  /\ stalls'[p] = 0
  /\ job'[p] = "active" => a \in Workers /\ act'[a].p = p /\ act'[a].at \in Publishing
  /\ act'[a].at = "idle" => Fits(p)'
  /\ act'[a].at # "idle" => Stage(a, p)'

LEMMA ScheduleFits ==
  ASSUME TypeOK, ActorInv, NEW a \in Actors, NEW p \in Posts, OwnStep(a, p),
         \/ UpdatePost(a) \/ ScheduleChecks(a) \/ ScheduleRemovesJob(a) \/ ScheduleAddsJob(a)
         \/ ScheduleAddFails(a) \/ ScheduleSaves(a) \/ ScheduleCounts(a) \/ ScheduleFlags(a)
         \/ UnscheduleRemovesJob(a) \/ UnscheduleSaves(a) \/ PublishNowRemovesJob(a)
  PROVE  StillFits(a, p)
<1>1. act[a].at \in PostPlaces /\ act[a].at \notin Disconnecting \cup {"thrown", "returned"} \cup Publishing
  BY DEF UpdatePost, ScheduleChecks, ScheduleRemovesJob, ScheduleAddsJob, ScheduleAddFails,
     ScheduleSaves, ScheduleCounts, ScheduleFlags, UnscheduleRemovesJob, UnscheduleSaves,
     PublishNowRemovesJob, PostPlaces, Places, Disconnecting, Publishing
<1>2. /\ act[a].p = p /\ act[a].doc = post[p] /\ job[p] # "active" /\ Removable(p)
      /\ currentVersion' = currentVersion /\ post[p] \in PostDocs /\ post[p].status # "NONE"
  BY <1>1, HeadStays DEF OwnStep, WorksOn, Stage, TypeOK, Removable
<1>3. job \in [Posts -> {"none", "delayed", "active", "failed"}] /\ stalls \in [Posts -> Nat]
  BY DEF TypeOK
<1>4. stalls[p] = 0 /\ Stage(a, p)
  BY DEF OwnStep
<1>5. \A x : act'[a] = To(a, x) => act'[a].at = x /\ act'[a].p = p /\ act'[a].doc = post[p]
  BY <1>2 DEF To, TypeOK
<1>6. act'[a] = Idle => act'[a].at = "idle"
  BY DEF Idle
<1>7. ASSUME NEW new \in PostDocs, new.rev = post[p].rev, Exists(p),
             IF CanSave(a, new) THEN Save(a, new) ELSE UNCHANGED post
      PROVE  /\ CanSave(a, new) /\ post'[p].status = new.status
             /\ new.pin = post[p].pin => post'[p] = new
  BY <1>2, <1>7, SavedFresh
<1>8. ASSUME NEW st \in PostStatus
      PROVE  LET new == [post[p] EXCEPT !.status = st] IN
             new \in PostDocs /\ new.status = st /\ new.pin = post[p].pin /\ new.rev = post[p].rev
  BY <1>2 DEF PostDocs
<1> USE DEF Publishing
<1>9. ASSUME UpdatePost(a) PROVE StillFits(a, p)
  <2>1. act[a].at = "update" /\ job' = job /\ stalls' = stalls /\ act'[a].at = "idle"
    BY <1>6, <1>9, ScheduleMoves DEF UpdatePost
  <2>2. post[p].status \in Editable /\ job[p] # "delayed"
    BY <1>4, <2>1 DEF Stage
  <2>3. post'[p].status = "DRAFT"
    <3>1. PICK v \in Versions \cup {post[p].pin} :
            LET new == [post[p] EXCEPT !.status = "DRAFT", !.pin = v] IN
            IF CanSave(a, new) THEN Save(a, new) ELSE UNCHANGED post
      BY <1>2, <1>9 DEF UpdatePost
    <3> DEFINE new == [post[p] EXCEPT !.status = "DRAFT", !.pin = v]
    <3>2. v \in 0..MaxVersions
      BY <1>2, MaxVersionsAssumption DEF Versions, PostDocs
    <3>3. new \in PostDocs /\ new.status = "DRAFT" /\ new.rev = post[p].rev
      BY <1>2, <3>2 DEF PostDocs, PostStatus
    <3>4. Exists(p)
      BY <2>2 DEF Exists, Editable
    <3> HIDE DEF new
    <3> QED
      BY <1>7, <3>1, <3>3, <3>4 DEF new
  <2> QED
    BY <1>2, <1>3, <1>4, <2>1, <2>2, <2>3 DEF StillFits, Fits
<1>10. ASSUME ScheduleChecks(a) PROVE StillFits(a, p)
  <2>1. act[a].at = "schedCheck" /\ post' = post /\ job' = job /\ stalls' = stalls
    BY <1>10 DEF ScheduleChecks, postVars
  <2>2. \/ act'[a].at = "schedRemove" /\ act'[a].p = p /\ act'[a].doc = post[p]
        \/ act'[a].at = "idle"
    <3>1. LET r == [act[a] EXCEPT !.at = "schedRemove", !.first = ~WasCounted(a)] IN
            r.at = "schedRemove" /\ r.p = p /\ r.doc = post[p]
      BY <1>2, Fields, Zenon
    <3> QED
      BY <1>6, <1>10, <3>1, ScheduleMoves, Zenon
  <2>3. Fits(p) /\ post[p].status \in Schedulable
    BY <1>4, <2>1 DEF Stage
  <2> QED
    BY <1>2, <1>3, <1>4, <2>1, <2>2, <2>3 DEF StillFits, Stage, Fits, Disconnecting
<1>11. ASSUME ScheduleRemovesJob(a) PROVE StillFits(a, p)
  <2>1. act[a].at = "schedRemove" /\ post' = post /\ stalls' = stalls
        /\ job' = [job EXCEPT ![p] = "none"] /\ act'[a] \in {To(a, "schedReplace"), To(a, "schedAdd")}
    BY <1>2, <1>5, <1>11, GotoMoves DEF ScheduleRemovesJob, RemoveJob, PostPlaces, Places, Disconnecting
  <2>2. act'[a].at \in {"schedReplace", "schedAdd"} /\ act'[a].p = p /\ act'[a].doc = post[p]
    BY <1>5, <2>1
  <2>3. post[p].status \in Schedulable
    BY <1>4, <2>1 DEF Stage
  <2> QED
    BY <1>2, <1>3, <1>4, <2>1, <2>2, <2>3 DEF StillFits, Stage, Fits, Disconnecting
<1>12. ASSUME ScheduleAddsJob(a) PROVE StillFits(a, p)
  <2>1. act[a].at \in {"schedAdd", "schedReplace"} /\ post' = post
    BY <1>12 DEF ScheduleAddsJob
  <2>2. post[p].status \in Schedulable /\ job[p] = "none"
    BY <1>4, <2>1 DEF Stage
  <2>3. job'[p] = "delayed" /\ stalls'[p] = 0
    BY <1>2, <1>3, <1>12, <2>2 DEF ScheduleAddsJob, AddScheduleJob
  <2>4. act'[a].at = "schedSave" /\ act'[a].p = p /\ act'[a].doc = post[p]
    BY <1>5, <1>12, ScheduleMoves
  <2> QED
    BY <1>2, <2>1, <2>2, <2>3, <2>4 DEF StillFits, Stage, Fits, Disconnecting
<1>13. ASSUME ScheduleAddFails(a) PROVE FALSE
  BY <1>2, <1>13, DisturbTyped DEF ScheduleAddFails, OwnStep
<1>14. ASSUME ScheduleSaves(a) PROVE StillFits(a, p)
  <2>1. act[a].at = "schedSave" /\ job' = job /\ stalls' = stalls
    BY <1>14 DEF ScheduleSaves
  <2>2. post[p].status \in Schedulable /\ job[p] = "delayed"
    BY <1>4, <2>1 DEF Stage
  <2> DEFINE new == [post[p] EXCEPT !.status = "SCHEDULED"]
  <2>3. CanSave(a, new) /\ post'[p] = new /\ new.status = "SCHEDULED"
    <3>1. Exists(p) /\ "SCHEDULED" \in PostStatus
      BY <2>2 DEF Exists, Schedulable, PostStatus
    <3>2. IF CanSave(a, new) THEN Save(a, new) ELSE UNCHANGED post
      BY <1>2, <1>14 DEF ScheduleSaves
    <3>3. new \in PostDocs /\ new.status = "SCHEDULED" /\ new.pin = post[p].pin /\ new.rev = post[p].rev
      BY <1>8, <3>1
    <3> HIDE DEF new
    <3> QED
      BY <1>7, <3>1, <3>2, <3>3
  <2>4. act'[a].at = "schedCount" /\ act'[a].p = p /\ act'[a].doc = new
    <3>1. act' = [act EXCEPT ![a] = [act[a] EXCEPT !.at = "schedCount", !.doc = new]]
      BY <1>2, <1>14, <2>3 DEF ScheduleSaves
    <3> HIDE DEF new
    <3> QED
      BY <1>2, <3>1 DEF TypeOK
  <2> HIDE DEF new
  <2> QED
    BY <1>2, <1>4, <2>1, <2>2, <2>3, <2>4 DEF StillFits, Stage, Fits, Disconnecting
<1>15. ASSUME ScheduleCounts(a) PROVE StillFits(a, p)
  <2>1. act[a].at = "schedCount" /\ post' = post /\ job' = job /\ stalls' = stalls
    BY <1>15 DEF ScheduleCounts, postVars
  <2>2. post[p].status = "SCHEDULED" /\ job[p] = "delayed"
    BY <1>4, <2>1 DEF Stage
  <2>3. act'[a].at = "schedFlag" /\ act'[a].p = p /\ act'[a].doc = post[p]
    BY <1>5, <1>15, ScheduleMoves
  <2> QED
    BY <1>2, <1>4, <2>1, <2>2, <2>3 DEF StillFits, Stage, Fits, Disconnecting
<1>16. ASSUME ScheduleFlags(a) PROVE StillFits(a, p)
  <2>1. act[a].at = "schedFlag" /\ job' = job /\ stalls' = stalls /\ act'[a].at = "idle"
    BY <1>6, <1>16, ScheduleMoves DEF ScheduleFlags
  <2>2. post[p].status = "SCHEDULED" /\ job[p] = "delayed"
    BY <1>4, <2>1 DEF Stage
  <2> DEFINE new == [post[p] EXCEPT !.flagged = TRUE]
  <2>3. IF CanSave(a, new) THEN Save(a, new) ELSE UNCHANGED post
    BY <1>2, <1>16 DEF ScheduleFlags
  <2>4. new \in PostDocs /\ new.status = "SCHEDULED" /\ new.rev = post[p].rev
    BY <1>2, <2>2 DEF PostDocs
  <2>5. Exists(p)
    BY <2>2 DEF Exists
  <2> HIDE DEF new
  <2>6. post'[p].status = "SCHEDULED"
    BY <1>7, <2>3, <2>4, <2>5
  <2> QED
    BY <1>2, <1>4, <2>1, <2>2, <2>6 DEF StillFits, Fits
<1>17. ASSUME UnscheduleRemovesJob(a) PROVE StillFits(a, p)
  <2>1. act[a].at = "unschedRemove" /\ post' = post /\ stalls' = stalls
        /\ job' = [job EXCEPT ![p] = "none"] /\ act'[a] = To(a, "unschedSave")
    BY <1>2, <1>17, GotoMoves DEF UnscheduleRemovesJob, RemoveJob, PostPlaces, Places, Disconnecting
  <2>2. act'[a].at = "unschedSave" /\ act'[a].p = p /\ act'[a].doc = post[p]
    BY <1>5, <2>1
  <2>3. post[p].status = "SCHEDULED"
    BY <1>4, <2>1 DEF Stage
  <2> QED
    BY <1>2, <1>3, <1>4, <2>1, <2>2, <2>3 DEF StillFits, Stage, Fits, Disconnecting
<1>18. ASSUME UnscheduleSaves(a) PROVE StillFits(a, p)
  <2>1. act[a].at = "unschedSave" /\ job' = job /\ stalls' = stalls /\ act'[a].at = "idle"
    BY <1>6, <1>18, ScheduleMoves DEF UnscheduleSaves
  <2>2. post[p].status = "SCHEDULED" /\ job[p] = "none"
    BY <1>4, <2>1 DEF Stage
  <2> DEFINE new == [post[p] EXCEPT !.status = "DRAFT"]
  <2>3. IF CanSave(a, new) THEN Save(a, new) ELSE UNCHANGED post
    BY <1>2, <1>18 DEF UnscheduleSaves
  <2>4. new \in PostDocs /\ new.status = "DRAFT" /\ new.rev = post[p].rev /\ Exists(p)
    BY <1>2, <2>2 DEF PostDocs, PostStatus, Exists
  <2> HIDE DEF new
  <2>5. post'[p].status = "DRAFT"
    BY <1>7, <2>3, <2>4
  <2> QED
    BY <1>2, <1>4, <2>1, <2>2, <2>5 DEF StillFits, Fits
<1>19. ASSUME PublishNowRemovesJob(a) PROVE StillFits(a, p)
  <2>1. act[a].at = "nowRemove" /\ post' = post /\ stalls' = stalls /\ a \notin Workers
    BY <1>19, OnlyClientsSchedule, PostAssumption DEF PublishNowRemovesJob, OwnStep
  <2>2. Fits(p)
    BY <1>4, <2>1 DEF Stage
  <2>3. CASE job' = [job EXCEPT ![p] = "none"] /\ act'[a] = To(a, "pubLoad")
    <3>1. act'[a].at = "pubLoad" /\ act'[a].p = p /\ act'[a].doc = post[p]
      BY <1>5, <2>3
    <3> QED
      BY <1>2, <1>3, <1>4, <2>1, <2>3, <3>1 DEF StillFits, Stage, Fits, Disconnecting
  <2>4. CASE job' = job /\ act'[a] = Idle
    BY <1>2, <1>4, <1>6, <2>1, <2>2, <2>4 DEF StillFits, Fits
  <2>5. \/ job' = [job EXCEPT ![p] = "none"] /\ act'[a] = To(a, "pubLoad")
        \/ job' = job /\ act'[a] = Idle
    BY <1>2, <1>19, GotoMoves, DoneMoves DEF PublishNowRemovesJob, RemoveJob, PostPlaces, Places, Disconnecting
  <2> QED
    BY <2>3, <2>4, <2>5
<1> QED
  BY <1>9, <1>10, <1>11, <1>12, <1>13, <1>14, <1>15, <1>16, <1>17, <1>18, <1>19

LEMMA PublishFits ==
  ASSUME TypeOK, ActorInv, NEW a \in Actors, NEW p \in Posts, OwnStep(a, p),
         Publish(a) \/ (JobEnds(a) /\ a \in Workers)
  PROVE  StillFits(a, p)
<1>1. act[a].at \in Publishing /\ act[a].at \in PostPlaces
  BY DEF Publish, PublishLoads, PublishChecks, PublishSends, PublishAnswerLost,
     PublishSaves, PublishSaveFails, FailPost, JobEnds, PostPlaces, Places, Disconnecting, Publishing
<1>2. /\ act[a].p = p /\ currentVersion' = currentVersion /\ post[p] \in PostDocs
      /\ post[p].status # "NONE"
      /\ job[p] = IF a \in Workers THEN "active" ELSE "none"
      /\ stalls[p] = 0 /\ Stage(a, p)
      /\ act[a].at \notin {"thrown", "returned"} => act[a].doc = post[p]
  BY <1>1, HeadStays DEF OwnStep, WorksOn, Stage, TypeOK, Disconnecting, Publishing
<1>3. job \in [Posts -> {"none", "delayed", "active", "failed"}] /\ stalls \in [Posts -> Nat]
  BY DEF TypeOK
<1>4. \A x : act'[a] = To(a, x) => act'[a].at = x /\ act'[a].p = p /\ act'[a].doc = act[a].doc
  BY <1>2 DEF To, TypeOK
<1>5. act'[a] = Idle => act'[a].at = "idle"
  BY DEF Idle
<1>6. ASSUME NEW x, Ended(a, x)
      PROVE  IF a \in Workers THEN act'[a].at = x /\ act'[a].p = p ELSE act'[a].at = "idle"
  BY <1>4, <1>5, <1>6 DEF Ended
<1>7. ASSUME NEW new \in PostDocs, new.rev = post[p].rev, Exists(p), act[a].doc = post[p],
             IF CanSave(a, new) THEN Save(a, new) ELSE UNCHANGED post
      PROVE  /\ CanSave(a, new) /\ post'[p].status = new.status
             /\ new.pin = post[p].pin => post'[p] = new
  BY <1>2, <1>7, SavedFresh
\* The three ways on: to the next check, or out of publishPost.
<1>8. ASSUME NEW x \in {"pubCheck", "pubSend", "pubSave", "pubFail"}, act'[a].at = x,
             act'[a].p = p, act'[a].doc = post[p], post[p].status \in Schedulable,
             post' = post, job' = job, stalls' = stalls
      PROVE  StillFits(a, p)
  BY <1>2, <1>8 DEF StillFits, Stage, Disconnecting, Publishing
<1>9. ASSUME Ended(a, "thrown"), job' = job, stalls' = stalls,
             post'[p].status = "SCHEDULED" => post'[p].pin # currentVersion
      PROVE  StillFits(a, p)
  BY <1>2, <1>6, <1>9 DEF StillFits, Stage, Fits, Disconnecting, Publishing
<1>10. ASSUME Ended(a, "returned"), job' = job, stalls' = stalls, post'[p].status = "PUBLISHED"
       PROVE  StillFits(a, p)
  BY <1>2, <1>6, <1>10 DEF StillFits, Stage, Fits, Disconnecting, Publishing
<1>11. ASSUME PublishLoads(a) PROVE StillFits(a, p)
  <2>1. act[a].at = "pubLoad" /\ post' = post /\ job' = job /\ stalls' = stalls
    BY <1>11 DEF PublishLoads, postVars
  <2>2. CASE Exists(p) /\ post[p].status # "PUBLISHED"
    <3>1. act' = [act EXCEPT ![a] = [act[a] EXCEPT !.at = "pubCheck", !.doc = post[p]]]
      BY <1>2, <1>11, <2>2 DEF PublishLoads
    <3>2. act'[a].at = "pubCheck" /\ act'[a].p = p /\ act'[a].doc = post[p]
      BY <1>2, <3>1 DEF TypeOK
    <3>3. post[p].status \in Schedulable
      BY <1>2, <2>2 DEF Exists, PostDocs, PostStatus, Schedulable
    <3> QED
      BY <1>8, <2>1, <3>2, <3>3
  <2>3. CASE ~(Exists(p) /\ post[p].status # "PUBLISHED")
    <3>1. Ends(a, "thrown")
      BY <1>2, <1>11, <2>3 DEF PublishLoads
    <3>2. Ended(a, "thrown")
      BY <1>1, <3>1, EndsMoves DEF Ended
    <3>3. post[p].status # "SCHEDULED"
      BY <2>3 DEF Exists
    <3> QED
      BY <1>9, <2>1, <3>2, <3>3
  <2> QED
    BY <2>2, <2>3
<1>12. ASSUME PublishChecks(a) PROVE StillFits(a, p)
  <2>1. act[a].at = "pubCheck" /\ post' = post /\ job' = job /\ stalls' = stalls
    BY <1>12 DEF PublishChecks, postVars
  <2>2. post[p].status \in Schedulable /\ act[a].doc = post[p]
    BY <1>2, <2>1 DEF Stage
  <2>3. CASE Goto(a, "pubFail") \/ Goto(a, "pubSend")
    <3>1. act'[a].at \in {"pubFail", "pubSend"} /\ act'[a].p = p /\ act'[a].doc = post[p]
      BY <1>1, <1>4, <2>2, <2>3, GotoMoves DEF PostPlaces, Places, Disconnecting
    <3> QED
      BY <1>8, <2>1, <2>2, <3>1
  <2>4. CASE ~CanBump(act[a].doc.pin) /\ Ends(a, "thrown")
    <3>1. Ended(a, "thrown")
      BY <1>1, <2>4, EndsMoves DEF Ended
    <3>2. post[p].pin # currentVersion
      BY <2>2, <2>4 DEF CanBump
    <3> QED
      BY <1>9, <2>1, <3>1, <3>2
  <2> QED
    BY <1>12, <2>3, <2>4 DEF PublishChecks
<1>13. ASSUME PublishSends(a) PROVE StillFits(a, p)
  <2>1. act[a].at = "pubSend" /\ post' = post /\ job' = job /\ stalls' = stalls
    BY <1>13 DEF PublishSends
  <2>2. post[p].status \in Schedulable /\ act[a].doc = post[p]
    BY <1>2, <2>1 DEF Stage
  <2>3. act'[a].at \in {"pubFail", "pubSave"} /\ act'[a].p = p /\ act'[a].doc = post[p]
    BY <1>4, <1>13, <2>2, OtherMoves
  <2> QED
    BY <1>8, <2>1, <2>2, <2>3
<1>14. ~PublishAnswerLost(a) /\ ~PublishSaveFails(a)
  <2>1. PublishAnswerLost(a) \/ PublishSaveFails(a) => Disturb({p})
    BY <1>2 DEF PublishAnswerLost, PublishSaveFails
  <2> QED
    BY <2>1, DisturbTyped DEF OwnStep
<1>15. ASSUME PublishSaves(a) PROVE StillFits(a, p)
  <2>1. act[a].at = "pubSave" /\ job' = job /\ stalls' = stalls
    BY <1>15 DEF PublishSaves
  <2>2. post[p].status \in Schedulable /\ act[a].doc = post[p]
    BY <1>2, <2>1 DEF Stage
  <2> DEFINE new == [post[p] EXCEPT !.status = "PUBLISHED", !.channelPostId = TRUE]
  <2>3. IF CanSave(a, new) THEN Save(a, new) /\ Ends(a, "returned") ELSE UNCHANGED post
    BY <1>15, <2>2 DEF PublishSaves
  <2>4. new \in PostDocs /\ new.status = "PUBLISHED" /\ new.rev = post[p].rev
    BY <1>2 DEF PostDocs, PostStatus
  <2>5. Exists(p)
    BY <2>2 DEF Exists, Schedulable
  <2> HIDE DEF new
  <2>6. CanSave(a, new) /\ post'[p].status = "PUBLISHED"
    BY <1>7, <2>2, <2>3, <2>4, <2>5
  <2>7. Ended(a, "returned")
    BY <1>1, <2>3, <2>6, EndsMoves DEF Ended
  <2> QED
    BY <1>10, <2>1, <2>6, <2>7
<1>16. ASSUME FailPost(a) PROVE StillFits(a, p)
  <2>1. act[a].at = "pubFail" /\ job' = job /\ stalls' = stalls /\ Ended(a, "thrown")
    BY <1>16, OtherMoves DEF FailPost
  <2>2. post[p].status \in Schedulable /\ act[a].doc = post[p]
    BY <1>2, <2>1 DEF Stage
  <2> DEFINE new == [post[p] EXCEPT !.status = "FAILED"]
  <2>3. IF CanSave(a, new) THEN Save(a, new) ELSE UNCHANGED post
    BY <1>16, <2>2 DEF FailPost
  <2>4. new \in PostDocs /\ new.status = "FAILED" /\ new.rev = post[p].rev
    BY <1>2 DEF PostDocs, PostStatus
  <2>5. Exists(p)
    BY <2>2 DEF Exists, Schedulable
  <2> HIDE DEF new
  <2>6. post'[p].status = "FAILED"
    BY <1>7, <2>2, <2>3, <2>4, <2>5
  <2> QED
    BY <1>9, <2>1, <2>6
<1>17. ASSUME JobEnds(a) PROVE StillFits(a, p)
  <2>1. /\ act[a].at \in {"thrown", "returned"} /\ post' = post /\ stalls' = stalls
        /\ job' = [job EXCEPT ![p] = IF act[a].at = "thrown" THEN "failed" ELSE "none"]
        /\ act'[a].at = "idle"
    BY <1>2, <1>5, <1>17, ScheduleMoves DEF JobEnds
  <2>2. job'[p] \in {"failed", "none"}
    BY <1>3, <2>1
  <2>3. post[p].status = "SCHEDULED" => post[p].pin # currentVersion
    BY <1>2, <2>1 DEF Stage
  <2> QED
    BY <1>2, <2>1, <2>2, <2>3 DEF StillFits, Fits
<1> QED
  BY <1>11, <1>12, <1>13, <1>14, <1>15, <1>16, <1>17 DEF Publish

LEMMA RemovalFits ==
  ASSUME TypeOK, ActorInv, NEW a \in Actors, NEW p \in Posts, OwnStep(a, p),
         \/ DeleteRemoves(a) \/ DeletePost(a)
         \/ DisconnectFinds(a) \/ DisconnectRemovesJobs(a) \/ DisconnectFails(a)
  PROVE  StillFits(a, p)
<1>1. act[a].at \in {"delRemove", "delete"} \cup Disconnecting
  BY DEF DeleteRemoves, DeletePost, DisconnectFinds, DisconnectRemovesJobs, DisconnectFails,
     Disconnecting
<1>2. /\ currentVersion' = currentVersion /\ post[p] \in PostDocs
      /\ job[p] # "active" /\ Removable(p)
      /\ stalls[p] = 0 /\ Stage(a, p)
      /\ act[a].at \notin Disconnecting => act[a].p = p /\ act[a].doc = post[p]
  BY <1>1, HeadStays DEF OwnStep, WorksOn, Stage, TypeOK, Disconnecting, Publishing, Removable
<1>3. job \in [Posts -> {"none", "delayed", "active", "failed"}] /\ stalls \in [Posts -> Nat]
  BY DEF TypeOK
<1>4. \A x : act'[a] = To(a, x) => /\ act'[a].at = x /\ act'[a].p = act[a].p
                                   /\ act'[a].doc = act[a].doc /\ act'[a].ps = act[a].ps
  BY DEF To, TypeOK
<1>5. act'[a] = Idle => act'[a].at = "idle"
  BY DEF Idle
<1>6. ASSUME DeleteRemoves(a) PROVE StillFits(a, p)
  <2>1. act[a].at = "delRemove" /\ post' = post /\ stalls' = stalls
    BY <1>6 DEF DeleteRemoves
  <2>2. Fits(p) /\ act[a].p = p /\ act[a].doc = post[p]
    BY <1>2, <2>1 DEF Stage, Disconnecting
  <2>3. CASE act'[a] = To(a, "delete") /\ job'[p] # "delayed" /\ job'[p] # "active"
    <3>1. act'[a].at = "delete" /\ act'[a].p = p /\ act'[a].doc = post[p]
      BY <1>4, <2>2, <2>3
    <3> QED
      BY <1>2, <2>1, <2>2, <2>3, <3>1 DEF StillFits, Stage, Disconnecting, Publishing
  <2>4. CASE act'[a] = Idle /\ job' = job
    BY <1>2, <1>5, <2>1, <2>2, <2>4 DEF StillFits, Fits
  <2>5. CASE post[p].status = "SCHEDULED"
    <3>1. RemoveJob(p) /\ Goto(a, "delete")
      BY <1>2, <1>6, <2>2, <2>5 DEF DeleteRemoves
    <3>2. job'[p] = "none" /\ act'[a] = To(a, "delete")
      BY <1>3, <2>1, <3>1, GotoMoves DEF RemoveJob, PostPlaces, Places, Disconnecting
    <3> QED
      BY <2>3, <3>2
  <2>6. CASE post[p].status # "SCHEDULED"
    <3>1. job' = job /\ (Goto(a, "delete") \/ Done(a))
      BY <1>6, <2>2, <2>6 DEF DeleteRemoves
    <3>2. job[p] # "delayed"
      BY <2>2, <2>6 DEF Fits
    <3>3. act'[a] \in {To(a, "delete"), Idle}
      BY <1>6, ScheduleMoves
    <3> QED
      BY <1>2, <2>3, <2>4, <3>1, <3>2, <3>3
  <2> QED
    BY <2>5, <2>6
<1>7. ASSUME DeletePost(a) PROVE StillFits(a, p)
  <2>1. act[a].at = "delete" /\ job' = job /\ stalls' = stalls /\ act'[a].at = "idle"
    BY <1>5, <1>7, ScheduleMoves DEF DeletePost
  <2>2. job[p] # "delayed" /\ act[a].p = p
    BY <1>2, <2>1 DEF Stage, Disconnecting
  <2>3. post'[p].status # "SCHEDULED"
    <3>1. CASE Exists(p)
      <4>1. post' = [post EXCEPT ![p] = [post[p] EXCEPT !.status = "DELETED"]]
        BY <1>7, <2>2, <3>1 DEF DeletePost
      <4> QED
        BY <1>2, <4>1 DEF TypeOK, PostDocs
    <3>2. CASE ~Exists(p)
      BY <1>7, <2>2, <3>2 DEF DeletePost, Exists
    <3> QED
      BY <3>1, <3>2
  <2> QED
    BY <1>2, <2>1, <2>2, <2>3 DEF StillFits, Fits
<1>8. ASSUME DisconnectFinds(a) PROVE StillFits(a, p)
  <2>1. act[a].at = "discFind" /\ post' = post /\ job' = job /\ stalls' = stalls
    BY <1>8 DEF DisconnectFinds, postVars
  <2>2. act'[a].at = "discRemove" /\ (p \in act'[a].ps <=> post[p].status = "SCHEDULED")
    <3>1. LET r == [act[a] EXCEPT !.at = "discRemove",
                            !.ps = {q \in Posts : post[q].status = "SCHEDULED"}] IN
          r.at = "discRemove" /\ r.ps = {q \in Posts : post[q].status = "SCHEDULED"}
      BY DEF TypeOK
    <3> QED
      BY <1>8, <3>1, OtherMoves
  <2>3. Fits(p)
    BY <1>2, <2>1 DEF Stage
  <2> QED
    BY <1>2, <2>1, <2>2, <2>3 DEF StillFits, Stage, Fits, Disconnecting, Publishing
<1>9. ASSUME DisconnectRemovesJobs(a) PROVE StillFits(a, p)
  <2> DEFINE free == {q \in act[a].ps : Removable(q)}
  <2>1. act[a].at = "discRemove" /\ post' = post /\ stalls' = stalls
    BY <1>9 DEF DisconnectRemovesJobs
  <2>2. Fits(p) /\ (p \in act[a].ps <=> post[p].status = "SCHEDULED")
    BY <1>2, <2>1 DEF Stage
  <2>3. PICK ps \in SUBSET free :
          /\ free = act[a].ps => ps = free
          /\ job' = [q \in Posts |-> IF q \in ps THEN "none" ELSE job[q]]
          /\ Disturb(IF free = act[a].ps THEN {} ELSE ps)
    BY <1>9 DEF DisconnectRemovesJobs
  <2>4. CASE free = act[a].ps
    <3>1. act'[a] = To(a, "discFail")
      BY <1>9, <2>1, <2>4, GotoMoves DEF DisconnectRemovesJobs, PostPlaces, Places, Disconnecting
    <3>2. act'[a].at = "discFail" /\ act'[a].ps = act[a].ps
      BY <1>4, <3>1
    <3>3. job'[p] # "delayed" /\ job'[p] # "active"
      BY <1>2, <2>2, <2>3, <2>4 DEF Fits
    <3> QED
      BY <1>2, <2>1, <2>2, <3>2, <3>3 DEF StillFits, Stage, Disconnecting, Publishing
  <2>5. CASE free # act[a].ps
    <3>1. act'[a].at = "idle"
      BY <1>5, <1>9, <2>5, DoneMoves DEF DisconnectRemovesJobs
    <3>2. p \notin ps
      BY <2>3, <2>5, DisturbTyped DEF OwnStep
    <3>3. job'[p] = job[p]
      BY <2>3, <3>2
    <3> QED
      BY <1>2, <2>1, <2>2, <3>1, <3>3 DEF StillFits, Fits
  <2> QED
    BY <2>4, <2>5
<1>10. ASSUME DisconnectFails(a) PROVE StillFits(a, p)
  <2>1. act[a].at = "discFail" /\ job' = job /\ stalls' = stalls /\ act'[a].at = "idle"
    BY <1>5, <1>10, ScheduleMoves DEF DisconnectFails
  <2>2. job[p] # "delayed" /\ (p \in act[a].ps <=> post[p].status = "SCHEDULED")
    BY <1>2, <2>1 DEF Stage
  <2>3. post'[p].status # "SCHEDULED"
    <3>1. post'[p] = IF p \in act[a].ps /\ Exists(p) THEN [post[p] EXCEPT !.status = "FAILED"]
                                                     ELSE post[p]
      BY <1>10 DEF DisconnectFails
    <3>2. [post[p] EXCEPT !.status = "FAILED"].status = "FAILED"
      BY <1>2 DEF PostDocs
    <3> QED
      BY <2>2, <3>1, <3>2 DEF Exists
  <2> QED
    BY <1>2, <2>1, <2>2, <2>3 DEF StillFits, Fits
<1> QED
  BY <1>6, <1>7, <1>8, <1>9, <1>10

LEMMA OwnFits ==
  ASSUME TypeOK, ActorInv, NEW a \in Actors, NEW p \in Posts, OwnStep(a, p)
  PROVE  StillFits(a, p)
<1>1. Acts(a) /\ WorksOn(a, p) /\ overlaps'[p] = 0 /\ act[a].at # "idle"
  BY DEF OwnStep, WorksOn
<1>2. \A q \in Posts : ~Enters(a, q)
  BY <1>1, EntersAt
<1>3. ~Disconnect(a) /\ ~LoadForEdit(a)
  BY <1>1 DEF Disconnect, LoadForEdit
<1>4. ~RequestDies(a) /\ ~Crash(a)
  <2>1. RequestDies(a) \/ Crash(a) => Disturb(Touched(a))
    BY DEF RequestDies, Crash
  <2>2. p \in Touched(a)
    BY <1>1 DEF Touched
  <2> QED
    BY <1>1, <2>1, <2>2, DisturbTyped DEF OwnStep
<1>5. ~EditChecksPins(a) /\ ~EditWrites(a)
  <2>1. ASSUME act[a].at \in {"editPins", "edit"} PROVE FALSE
    <3>1. act[a].p = NoPost /\ act[a].at \notin Disconnecting
      BY <2>1 DEF ActorInv, Placed, PostPlaces, Disconnecting
    <3> QED
      BY <1>1, <3>1, PostAssumption DEF WorksOn
  <2> QED
    BY <2>1 DEF EditChecksPins, EditWrites
<1>6. Proceed(a) \/ Publish(a) \/ (JobEnds(a) /\ a \in Workers)
  BY <1>1, <1>2, <1>3, <1>4, Zenon DEF Acts, Requests, Works, Enters
<1>7. CASE Publish(a) \/ (JobEnds(a) /\ a \in Workers)
  BY <1>7, PublishFits, Zenon
<1>8. CASE Proceed(a) /\ ~Publish(a)
  <2>1. \/ \/ UpdatePost(a) \/ ScheduleChecks(a) \/ ScheduleRemovesJob(a) \/ ScheduleAddsJob(a)
           \/ ScheduleAddFails(a) \/ ScheduleSaves(a) \/ ScheduleCounts(a) \/ ScheduleFlags(a)
           \/ UnscheduleRemovesJob(a) \/ UnscheduleSaves(a) \/ PublishNowRemovesJob(a)
        \/ \/ DeleteRemoves(a) \/ DeletePost(a)
           \/ DisconnectFinds(a) \/ DisconnectRemovesJobs(a) \/ DisconnectFails(a)
    BY <1>5, <1>8, Zenon DEF Proceed
  <2> QED
    BY <2>1, ScheduleFits, RemovalFits, Zenon
<1> QED
  BY <1>6, <1>7, <1>8, Zenon

\* Whoever works on a post goes on with it or is done.
LEMMA Leaving ==
  ASSUME TypeOK, ActorInv, NEW a \in Actors, Acts(a), NEW p \in Posts, WorksOn(a, p)
  PROVE  act'[a].at = "idle" \/ WorksOn(a, p)'
<1>1. act[a].at # "idle" /\ (act[a].p = p \/ act[a].at \in Disconnecting)
  BY DEF WorksOn
<1>2. \A q \in Posts : ~Enters(a, q)
  BY <1>1, EntersAt
<1>3. ~Disconnect(a) /\ ~LoadForEdit(a)
  BY <1>1 DEF Disconnect, LoadForEdit
<1>4. CASE Edge(act[a].at, act'[a].at) /\ Same(a)
  BY <1>1, <1>4 DEF Edge, Same, WorksOn, Disconnecting
<1>5. CASE /\ act'[a].at \in {"schedRemove", "schedCount", "pubCheck"} /\ act'[a].p = act[a].p
           /\ ScheduleChecks(a) \/ ScheduleSaves(a) \/ PublishLoads(a)
  BY <1>1, <1>5 DEF WorksOn, Disconnecting, ScheduleChecks, ScheduleSaves, PublishLoads
<1>6. CASE DisconnectFinds(a) /\ act'[a].at = "discRemove"
  BY <1>6 DEF WorksOn, Disconnecting
<1> QED
  BY <1>2, <1>3, <1>4, <1>5, <1>6, ActorWalks

LEMMA StageStep ==
  ASSUME TypeOK, ActorInv, PinInv, BornInv, AloneInv, StageInv, [Next]_vars
  PROVE  StageInv'
<1> SUFFICES ASSUME NEW p \in Posts, overlaps'[p] = 0
             PROVE  Sound(p)'
  BY DEF StageInv, Undisturbed
<1>1. overlaps[p] = 0
  BY OverlapsGrow DEF TypeOK
<1>2. Sound(p) /\ \A a, b \in Actors : WorksOn(a, p) /\ WorksOn(b, p) => a = b
  BY <1>1 DEF StageInv, AloneInv, Undisturbed
<1>3. \A w \in Workers : w \in Actors
  BY DEF Actors
<1>4. post[p].pin \in 0..MaxVersions /\ currentVersion \in 0..MaxVersions /\ MaxVersions \in Nat
  BY MaxVersionsAssumption DEF TypeOK, StoreTypeOK, PostDocs
<1>5. ASSUME NEW a \in Actors, Acts(a), StillFits(a, p), act'[a].at = "idle" \/ WorksOn(a, p)',
             \A b \in Actors \ {a} : ~WorksOn(b, p)
      PROVE  Sound(p)'
  <2>1. \A b \in Actors \ {a} : ~WorksOn(b, p)'
    BY <1>5, OthersStay DEF WorksOn
  <2>2. Quiet(p)' => act'[a].at = "idle"
    BY <1>5 DEF Quiet
  <2>3. \A b \in Actors : WorksOn(b, p)' => b = a /\ act'[a].at # "idle"
    BY <2>1 DEF WorksOn
  <2>4. Quiet(p)' => Fits(p)'
    BY <1>5, <2>2 DEF StillFits
  <2>5. job'[p] = "active" => \E w \in Workers : act'[w].p = p /\ act'[w].at \in Publishing
    BY <1>5 DEF StillFits
  <2>6. \A b \in Actors : WorksOn(b, p)' => Stage(b, p)'
    BY <1>5, <2>3 DEF StillFits
  <2>7. \A b \in Actors' : WorksOn(b, p)' => Stage(b, p)'
    BY <2>6 DEF Actors
  <2>8. stalls'[p] = 0
    BY <1>5 DEF StillFits
  <2> QED
    BY <2>4, <2>5, <2>7, <2>8 DEF Sound, Publishing
<1>6. ASSUME NEW a \in Actors, Acts(a), WorksOn(a, p) PROVE Sound(p)'
  <2>1. \A b \in Actors \ {a} : ~WorksOn(b, p)
    BY <1>2, <1>6
  <2>2. job[p] = "active" => a \in Workers /\ act[a].p = p /\ act[a].at \in Publishing
    <3>1. ASSUME NEW w \in Workers, act[w].p = p, act[w].at \in Publishing PROVE w = a
      BY <1>3, <2>1, <3>1 DEF WorksOn, Publishing
    <3> QED
      BY <1>2, <3>1 DEF Sound
  <2>3. post[p].status # "NONE" \/ act[a].p # p
    BY DEF BornInv
  <2>4. Stage(a, p) /\ stalls[p] = 0
    BY <1>2, <1>6 DEF Sound
  <2>5. OwnStep(a, p)
    BY <1>1, <1>6, <2>2, <2>3, <2>4 DEF OwnStep
  <2> QED
    BY <1>5, <1>6, <2>1, <2>5, OwnFits, Leaving
<1>7. ASSUME NEW a \in Actors, Acts(a), ~WorksOn(a, p), WorksOn(a, p)' PROVE Sound(p)'
  <2>1. /\ Enters(a, p) \/ (Disconnect(a) /\ act'[a].at = "discFind")
        /\ Quiet(p)
    BY <1>1, <1>7, Joining
  <2>2. Fits(p) /\ stalls[p] = 0
    BY <1>2, <2>1 DEF Sound
  <2>3. job[p] # "active"
    BY <1>2, <1>3, <2>1 DEF Sound, Quiet, WorksOn, Publishing
  <2>4. currentVersion' = currentVersion
    BY <1>7, HeadStays
  <2>5. StillFits(a, p)
    <3>1. CASE Enters(a, p)
      <4>1. /\ act'[a].p = p /\ act'[a].doc = post[p]
            /\ act'[a].at \in {"update", "schedCheck", "unschedRemove", "nowRemove", "delRemove", "pubLoad"}
            /\ UNCHANGED <<storeVars, post, stalls, live, usageVars, connected>>
        BY <3>1, EntersAt, EntersKeeps DEF EntryPlaces
      <4>2. LET at == act'[a].at  st == post[p].status IN
              /\ at = "update" => st \in {"DRAFT", "FAILED"}
              /\ at \in {"schedCheck", "nowRemove"} => st \in {"DRAFT", "SCHEDULED", "FAILED"}
              /\ at = "unschedRemove" => st = "SCHEDULED"
              /\ at = "pubLoad" => /\ a \in Workers /\ job[p] = "delayed"
                                  /\ job' = [job EXCEPT ![p] = "active"]
              /\ at # "pubLoad" => job' = job
        BY <3>1, EntersAt DEF EntryFits
      <4>3. CASE act'[a].at = "pubLoad"
        <5>1. a \in Workers /\ job'[p] = "active"
          BY <4>2, <4>3 DEF TypeOK
        <5> QED
          BY <2>2, <4>1, <4>3, <5>1 DEF StillFits, Stage, Publishing, Disconnecting
      <4>4. CASE act'[a].at # "pubLoad"
        <5>1. Fits(p)'
          BY <2>2, <2>4, <4>1, <4>2, <4>4 DEF Fits
        <5> QED
          BY <2>2, <2>3, <4>1, <4>2, <4>4, <5>1
             DEF StillFits, Stage, Fits, Publishing, Disconnecting, Schedulable, Editable
      <4> QED
        BY <4>3, <4>4
    <3>2. CASE Disconnect(a) /\ act'[a].at = "discFind"
      <4>1. post' = post /\ stalls' = stalls /\ job' = job
        BY <3>2 DEF Disconnect, postVars
      <4> QED
        BY <2>2, <2>3, <2>4, <3>2, <4>1 DEF StillFits, Stage, Fits, Publishing, Disconnecting
    <3> QED
      BY <2>1, <3>1, <3>2
  <2> QED
    BY <1>5, <1>7, <2>1, <2>5 DEF Quiet
\* From here on nobody takes a step that concerns p.
<1>8. ASSUME post'[p] = post[p], job'[p] = job[p], stalls'[p] = stalls[p],
             currentVersion' = currentVersion \/ post[p].pin < currentVersion
               \/ post[p].pin = currentVersion,
             currentVersion' \in {currentVersion, currentVersion + 1},
             \A b \in Actors : WorksOn(b, p)' <=> WorksOn(b, p),
             \A b \in Actors : WorksOn(b, p) => act'[b] = act[b],
             \A w \in Workers : act[w].p = p => act'[w] = act[w]
      PROVE  Sound(p)'
  <2>1. /\ post[p].pin # currentVersion => post'[p].pin # currentVersion'
    BY <1>4, <1>8 DEF PinInv
  <2>2. Fits(p) => Fits(p)'
    BY <1>8, <2>1 DEF Fits
  <2>3. ASSUME NEW b \in Actors, WorksOn(b, p) PROVE Stage(b, p)'
    <3>1. Stage(b, p) /\ act'[b] = act[b]
      BY <1>2, <1>8, <2>3 DEF Sound
    <3> QED
      BY <1>8, <2>1, <2>2, <3>1, ZenonT(60) DEF Stage
  <2>4. Quiet(p)' => Quiet(p)
    BY <1>8 DEF Quiet, Actors
  <2>5. job'[p] = "active" => \E w \in Workers : act'[w].p = p /\ act'[w].at \in Publishing
    BY <1>2, <1>8 DEF Sound
  <2>6. \A b \in Actors' : WorksOn(b, p)' => Stage(b, p)'
    BY <1>8, <2>3 DEF Actors
  <2>7. stalls'[p] = 0 /\ (Quiet(p)' => Fits(p)')
    BY <1>2, <1>8, <2>2, <2>4 DEF Sound
  <2> QED
    BY <2>5, <2>6, <2>7 DEF Sound, Publishing
<1>9. ASSUME NEW a \in Actors, Acts(a), ~WorksOn(a, p), ~WorksOn(a, p)' PROVE Sound(p)'
  <2>1. act[a].p # p /\ act'[a].p # p
    <3>1. Placed(act[a]) /\ Placed(act'[a])
      BY <1>9, ActorGoes DEF Goes, ActorInv
    <3> QED
      BY <1>9, <3>1, PostAssumption DEF Placed, WorksOn, PostPlaces
  <2>2. ~DisconnectRemovesJobs(a)
    BY <1>9 DEF DisconnectRemovesJobs, WorksOn, Disconnecting
  <2>3. post'[p] = post[p] /\ job'[p] = job[p] /\ stalls'[p] = stalls[p]
        /\ currentVersion' = currentVersion
    BY <1>9, <2>1, <2>2, PostTyped, JobTyped, HeadStays
  <2>4. \A b \in Actors : b # a => act'[b] = act[b]
    BY <1>9, OthersStay
  <2>5. \A b \in Actors : WorksOn(b, p)' <=> WorksOn(b, p)
    BY <1>9, <2>4 DEF WorksOn
  <2> QED
    BY <1>3, <1>4, <1>8, <1>9, <2>1, <2>3, <2>4, <2>5
<1>10. ASSUME NEW q \in Posts, NEW v \in Versions, CreatePost(q, v) PROVE Sound(p)'
  <2>1. UNCHANGED <<storeVars, job, stalls, act>>
    BY <1>10, CreateWrites
  <2>2. currentVersion' = currentVersion /\ job' = job /\ stalls' = stalls /\ act' = act
    BY <2>1 DEF storeVars
  <2>3. \A b \in Actors : WorksOn(b, p)' <=> WorksOn(b, p)
    BY <2>2 DEF WorksOn
  <2>4. CASE q # p
    <3>1. post'[p] = post[p]
      BY <1>10, <2>4, CreateWrites
    <3> QED
      BY <1>4, <1>8, <2>2, <2>3, <3>1
  <2>5. CASE q = p
    <3>1. post[p].status = "NONE" /\ post'[p].status = "DRAFT"
      <4>1. post[p].status = "NONE" /\ post'[p] = [NoDoc EXCEPT !.status = "DRAFT", !.pin = v]
        BY <1>10, <2>5, CreateWrites
      <4> QED
        BY <4>1 DEF NoDoc
    <3>2. job[p] = "none" /\ \A b \in Actors : act[b].p # p
      BY <3>1 DEF BornInv
    <3>3. stalls'[p] = 0 /\ Fits(p)' /\ job'[p] = "none"
      BY <1>2, <2>2, <3>1, <3>2 DEF Sound, Fits
    <3>4. ASSUME NEW b \in Actors, WorksOn(b, p)' PROVE Stage(b, p)'
      <4>1. act'[b] = act[b] /\ act[b].at \in Disconnecting /\ Stage(b, p)
        BY <1>2, <2>2, <2>3, <3>2, <3>4 DEF WorksOn, Sound
      <4>2. act[b].at \in {"discRemove", "discFail"} => p \notin act[b].ps
        BY <3>1, <4>1 DEF Stage
      <4> QED
        BY <3>1, <3>3, <4>1, <4>2 DEF Stage, Disconnecting, Publishing
    <3>5. \A b \in Actors' : WorksOn(b, p)' => Stage(b, p)'
      BY <3>4 DEF Actors
    <3> QED
      BY <3>3, <3>5 DEF Sound
  <2> QED
    BY <2>4, <2>5
<1>11. ASSUME World PROVE Sound(p)'
  <2>1. post' = post /\ act' = act
    BY <1>11, WorldWrites
  <2>2. currentVersion' \in {currentVersion, currentVersion + 1}
    BY <1>11, WorldWrites, StoreStep DEF TypeOK
  <2>3. job'[p] = job[p] /\ stalls'[p] = stalls[p]
    <3>1. CASE UNCHANGED <<job, stalls>>
      BY <3>1
    <3>2. ASSUME NEW q \in Posts, Stalled(q) PROVE job'[p] = job[p] /\ stalls'[p] = stalls[p]
      <4>1. q # p
        BY <1>2, <3>2 DEF Stalled, Sound
      <4> QED
        BY <3>2, <4>1 DEF Stalled, TypeOK
    <3>3. ASSUME NEW q \in Posts, NEW w \in Workers, GivesUp(w, q)
          PROVE  job'[p] = job[p] /\ stalls'[p] = stalls[p]
      <4>1. q # p
        BY <1>2, <3>3, PostAssumption DEF GivesUp, Sound
      <4>2. stalls' = stalls /\ job' = [job EXCEPT ![q] = "failed"]
        BY <3>3 DEF GivesUp, Fire
      <4> QED
        BY <4>1, <4>2 DEF TypeOK
    <3> QED
      BY <1>11, <3>1, <3>2, <3>3, WorldWrites
  <2>4. \A b \in Actors : WorksOn(b, p)' <=> WorksOn(b, p)
    BY <2>1 DEF WorksOn
  <2>5. post[p].pin < currentVersion \/ post[p].pin = currentVersion
    BY <1>4 DEF PinInv
  <2> QED
    BY <1>8, <2>1, <2>2, <2>3, <2>4, <2>5
<1>12. CASE UNCHANGED vars
  <2>1. post' = post /\ job' = job /\ stalls' = stalls /\ act' = act /\ currentVersion' = currentVersion
    BY <1>12 DEF vars, postVars, storeVars
  <2>2. \A b \in Actors : WorksOn(b, p)' <=> WorksOn(b, p)
    BY <2>1 DEF WorksOn
  <2> QED
    BY <1>4, <1>8, <2>1, <2>2
<1>13. ASSUME NEW a \in Actors, Acts(a) PROVE Sound(p)'
  BY <1>6, <1>7, <1>9, <1>13
<1> QED
  BY <1>10, <1>11, <1>12, <1>13, Cases

-----------------------------------------------------------------------------
(* Duplicates on LinkedIn *)

LEMMA CopyStep ==
  ASSUME TypeOK, ActorInv, CopyInv, [Next]_vars
  PROVE  CopyInv'
<1> SUFFICES ASSUME NEW b \in Actors, act'[b].at \in {"pubCheck", "pubSend", "pubSave"}
             PROVE  act'[b].doc.status # "PUBLISHED"
  BY DEF CopyInv, Actors
<1>1. act'[b] = act[b] => act'[b].doc.status # "PUBLISHED"
  BY DEF CopyInv
<1>2. ASSUME NEW a \in Actors, Acts(a) PROVE act'[b].doc.status # "PUBLISHED"
  <2>1. CASE b # a
    BY <1>1, <1>2, <2>1, OthersStay
  <2>2. CASE b = a /\ Edge(act[a].at, act'[a].at) /\ Same(a)
    BY <2>2 DEF Edge, Same, CopyInv
  <2>3. CASE b = a /\ PublishLoads(a) /\ act'[a].at = "pubCheck" /\ act'[a].doc = post[act[a].p]
    <3>1. ~Ends(a, "thrown")
      BY <2>3 DEF Ends, Goto, Done, Idle, TypeOK
    <3> QED
      BY <2>3, <3>1 DEF PublishLoads
  <2>4. ASSUME NEW p \in Posts, Enters(a, p) PROVE act'[a].at \notin {"pubCheck", "pubSend", "pubSave"}
    BY <2>4, EntersAt DEF EntryPlaces
  <2> QED
    BY <1>2, <2>1, <2>2, <2>3, <2>4, ActorWalks
<1>3. World \/ UNCHANGED vars \/ (\E p \in Posts, v \in Versions : CreatePost(p, v)) => act' = act
  BY WorldWrites DEF CreatePost, vars
<1> QED
  BY <1>1, <1>2, <1>3, Cases

\* What a step may do to the roles, to LinkedIn and to the post.
SendMove(a, p) ==
  LET r == Role(act[a], p)
      s == Role(act'[a], p) IN
  /\ overlaps'[p] >= overlaps[p]
  /\ \/ live'[p] <= live[p]
     \/ r = "holds" /\ s = "sends" /\ live'[p] <= live[p] + 1
     \/ r = "holds" /\ s = "holds" /\ live'[p] <= live[p] + 1 /\ overlaps'[p] > overlaps[p]
  /\ \/ s = r \/ s = "none"
     \/ r = "none" /\ s \in {"holds", "loads"} /\ (Quiet(p) \/ overlaps'[p] > overlaps[p])
     \/ r = "loads" /\ s = "holds"
     \/ r = "holds" /\ s = "sends"
  /\ s = "holds" /\ r # "holds" => ~Closed(p)
  /\ \/ Closed(p)' <=> Closed(p)
     \/ r = "holds" /\ s = "none" /\ ~Closed(p)'
     \/ r = "none" /\ s = "none" /\ Closed(p)'
     \/ r = "sends"
  /\ r = "sends" => s = "none" /\ (Closed(p)' \/ overlaps'[p] > overlaps[p])

\* The roles of an actor before and after its step.
LEMMA RoleMoves ==
  ASSUME TypeOK, ActorInv, NEW a \in Actors, NEW p \in Posts, Acts(a)
  PROVE  LET r == Role(act[a], p)
             s == Role(act'[a], p) IN
         /\ \/ s = r \/ s = "none"
            \/ r = "none" /\ s \in {"holds", "loads"} /\ (Quiet(p) \/ overlaps'[p] > overlaps[p])
            \/ r = "loads" /\ s = "holds"
            \/ r = "holds" /\ s = "sends"
         /\ s = "holds" /\ r # "holds" => ~Closed(p)
         /\ r = "sends" => s = "none"
<1> DEFINE r == Role(act[a], p)
           s == Role(act'[a], p)
           Goal == /\ \/ s = r \/ s = "none"
                      \/ r = "none" /\ s \in {"holds", "loads"} /\ (Quiet(p) \/ overlaps'[p] > overlaps[p])
                      \/ r = "loads" /\ s = "holds"
                      \/ r = "holds" /\ s = "sends"
                   /\ s = "holds" /\ r # "holds" => ~Closed(p)
                   /\ r = "sends" => s = "none"
<1>1. NoPost # p /\ overlaps \in [Posts -> Nat]
  BY PostAssumption DEF TypeOK
<1>2. ASSUME act'[a].at \in {"idle", "schedCount", "schedFlag", "delete", "delRemove",
                             "thrown", "returned", "editPins", "edit"}
      PROVE  Goal
  <2>1. s = "none"
    BY <1>2 DEF Role, HoldingPlaces, Disconnecting
  <2> QED
    BY <2>1
<1>3. CASE Edge(act[a].at, act'[a].at) /\ Same(a)
  <2>1. act'[a].p = act[a].p /\ act'[a].ps = act[a].ps /\ Edge(act[a].at, act'[a].at)
    BY <1>3 DEF Same
  <2>2. CASE act[a].p # p /\ act[a].at # "discRemove"
    <3>1. s = "none"
      BY <2>1, <2>2 DEF Edge, Role, Disconnecting
    <3> QED
      BY <3>1
  <2>3. CASE act[a].p = p /\ act[a].at \in {"schedRemove", "schedReplace", "schedAdd", "unschedRemove"}
    <3>1. act'[a].at \in {"schedReplace", "schedAdd", "schedSave", "unschedSave"}
      BY <2>1, <2>3 DEF Edge
    <3>2. r = "holds" /\ s = "holds"
      BY <2>1, <2>3, <3>1 DEF Role, HoldingPlaces, Disconnecting
    <3> QED
      BY <3>2
  <2>4. CASE act[a].p = p /\ act[a].at = "nowRemove"
    <3>1. act'[a].at = "pubLoad"
      BY <2>1, <2>4 DEF Edge
    <3>2. r = "loads" /\ s = "loads"
      BY <2>1, <2>4, <3>1 DEF Role, HoldingPlaces, Disconnecting
    <3> QED
      BY <3>2
  <2>5. CASE act[a].at = "discRemove"
    <3>1. act'[a].at = "discFail"
      BY <2>1, <2>5 DEF Edge
    <3>2. s = r /\ r # "sends"
      BY <2>1, <2>5, <3>1 DEF Role, Disconnecting
    <3> QED
      BY <3>2
  <2>6. CASE act[a].p = p /\ act[a].at \in {"pubCheck", "pubSend"}
    <3>1. act'[a].at \in {"pubFail", "pubSend", "pubSave", "thrown"}
      BY <2>1, <2>6 DEF Edge
    <3>2. r = "holds" /\ s \in {"holds", "sends", "none"}
      BY <2>1, <2>6, <3>1 DEF Role, HoldingPlaces, Disconnecting
    <3> QED
      BY <3>2
  <2>7. CASE act'[a].at \in {"schedFlag", "delete", "edit", "returned", "thrown"}
    BY <1>2, <2>7
  <2> QED
    BY <2>1, <2>2, <2>3, <2>4, <2>5, <2>6, <2>7 DEF Edge
<1>4. ASSUME NEW q \in Posts, Enters(a, q) PROVE Goal
  <2>1. act[a].at = "idle" /\ act'[a].p = q /\ act'[a].at \notin Disconnecting \cup {"pubSave"}
    BY <1>4, EntersAt DEF EntryPlaces, Disconnecting
  <2>2. r = "none"
    BY <2>1 DEF Role, HoldingPlaces, Disconnecting
  <2>3. CASE q # p
    <3>1. s = "none"
      BY <2>1, <2>3 DEF Role
    <3> QED
      BY <3>1
  <2>4. CASE q = p
    <3>1. Disturb({x \in Posts : x = p /\ ~Quiet(x)})
      BY <1>4, <2>4, EntersAt
    <3>2. Quiet(p) \/ overlaps'[p] > overlaps[p]
      BY <1>1, <3>1, DisturbTyped
    <3>3. LET at == act'[a].at  st == post[p].status IN
            /\ at \in {"update", "schedCheck", "unschedRemove", "nowRemove", "delRemove", "pubLoad"}
            /\ at = "update" => st \in {"DRAFT", "FAILED"}
            /\ at \in {"schedCheck", "nowRemove"} => st \in {"DRAFT", "SCHEDULED", "FAILED"}
            /\ at = "unschedRemove" => st = "SCHEDULED"
      BY <1>4, <2>4, EntersAt DEF EntryPlaces, EntryFits
    <3>4. s = "holds" => ~Closed(p)
      BY <2>1, <3>3 DEF Role, HoldingPlaces, Closed
    <3>5. s \in {"none", "holds", "loads"}
      BY <2>1 DEF Role
    <3> QED
      BY <2>2, <3>2, <3>4, <3>5
  <2> QED
    BY <2>3, <2>4
<1>5. CASE ScheduleChecks(a) /\ act'[a].at = "schedRemove" /\ act'[a].p = act[a].p
  <2>1. s = r /\ r # "sends"
    BY <1>5 DEF ScheduleChecks, Role, HoldingPlaces, Disconnecting
  <2> QED
    BY <2>1
<1>6. CASE PublishLoads(a) /\ act'[a].at = "pubCheck" /\ act'[a].p = act[a].p
  <2>1. act[a].at = "pubLoad" /\ Exists(act[a].p) /\ post[act[a].p].status # "PUBLISHED"
    <3>1. ~Ends(a, "thrown")
      BY <1>6 DEF Ends, Goto, Done, Idle, TypeOK
    <3> QED
      BY <1>6, <3>1 DEF PublishLoads
  <2>2. act[a].p # p => s = "none"
    BY <1>6 DEF Role, Disconnecting
  <2>3. act[a].p = p => r = "loads" /\ s = "holds" /\ ~Closed(p)
    BY <1>6, <2>1 DEF Role, HoldingPlaces, Disconnecting, Exists, Closed
  <2> QED
    BY <2>2, <2>3
<1>7. CASE Disconnect(a) /\ act'[a].at = "discFind"
  <2>1. act[a].at = "idle" /\ Disturb({x \in Posts : ~Quiet(x)})
    BY <1>7 DEF Disconnect
  <2>2. Quiet(p) \/ overlaps'[p] > overlaps[p]
    BY <1>1, <2>1, DisturbTyped
  <2>3. r = "none" /\ s = "loads"
    BY <1>7, <2>1 DEF Role, HoldingPlaces, Disconnecting
  <2> QED
    BY <2>2, <2>3
<1>8. CASE /\ DisconnectFinds(a) /\ act'[a].at = "discRemove"
           /\ act'[a].ps = {q \in Posts : post[q].status = "SCHEDULED"}
  <2>1. r = "loads"
    BY <1>8 DEF DisconnectFinds, Role, Disconnecting
  <2>2. s \in {"holds", "none"} /\ (s = "holds" => ~Closed(p))
    BY <1>8 DEF Role, Disconnecting, Closed
  <2> QED
    BY <2>1, <2>2
<1> QED
  BY <1>2, <1>3, <1>4, <1>5, <1>6, <1>7, <1>8, ActorWalks

\* What an actor at its save() does next.
LEMMA NextSave ==
  ASSUME TypeOK, NEW a \in Actors, Acts(a), act[a].at = "pubSave"
  PROVE  PublishSaves(a) \/ PublishSaveFails(a) \/ RequestDies(a) \/ Crash(a)
<1>1. ~JobEnds(a) /\ ~Disconnect(a) /\ ~LoadForEdit(a) /\ \A p \in Posts : ~Takes(a, p) /\ ~Load(a, p)
  BY DEF JobEnds, Disconnect, LoadForEdit, Takes, Fire, Load, LoadForUpdate, LoadForSchedule,
     LoadForUnschedule, LoadForPublishNow, LoadForDelete, BeginCall, Begin
<1>2. Publish(a) => PublishSaves(a) \/ PublishSaveFails(a)
  <2>1. ~PublishLoads(a) /\ ~PublishSends(a) /\ ~PublishAnswerLost(a)
    BY DEF PublishLoads, PublishSends, PublishAnswerLost
  <2>2. ~PublishChecks(a) /\ ~FailPost(a)
    BY DEF PublishChecks, FailPost
  <2> QED
    BY <2>1, <2>2 DEF Publish
<1>3. Proceed(a) => Publish(a)
  <2>1. ~UpdatePost(a) /\ ~ScheduleChecks(a) /\ ~ScheduleRemovesJob(a) /\ ~ScheduleAddsJob(a)
        /\ ~ScheduleAddFails(a) /\ ~ScheduleSaves(a) /\ ~ScheduleFlags(a) /\ ~ScheduleCounts(a)
    BY DEF UpdatePost, ScheduleChecks, ScheduleRemovesJob, ScheduleAddsJob, ScheduleAddFails,
       ScheduleSaves, ScheduleFlags, ScheduleCounts
  <2>2. ~UnscheduleRemovesJob(a) /\ ~UnscheduleSaves(a) /\ ~PublishNowRemovesJob(a)
        /\ ~DeleteRemoves(a) /\ ~DeletePost(a)
    BY DEF UnscheduleRemovesJob, UnscheduleSaves, PublishNowRemovesJob, DeleteRemoves, DeletePost
  <2>3. ~DisconnectFinds(a) /\ ~DisconnectRemovesJobs(a) /\ ~DisconnectFails(a)
        /\ ~EditWrites(a) /\ ~EditChecksPins(a)
    BY DEF DisconnectFinds, DisconnectRemovesJobs, DisconnectFails, EditWrites, EditChecksPins
  <2> QED
    BY <2>1, <2>2, <2>3 DEF Proceed
<1> QED
  BY <1>1, <1>2, <1>3 DEF Acts, Requests, Works

\* The status of a post after a step of an actor.
LEMMA StatusMoves ==
  ASSUME TypeOK, ActorInv, NEW a \in Actors, NEW p \in Posts, Acts(a)
  PROVE  LET r == Role(act[a], p)
             s == Role(act'[a], p) IN
         \/ post'[p].status = post[p].status
         \/ r = "holds" /\ s = "none" /\ ~Closed(p)'
         \/ r = "none" /\ s = "none" /\ Closed(p)'
         \/ r = "sends"
<1> DEFINE r == Role(act[a], p)
           s == Role(act'[a], p)
<1>1. act'[a].at \in {"idle", "schedCount", "thrown"} => s = "none"
  BY DEF Role, HoldingPlaces, Disconnecting
<1>2. CASE UNCHANGED post
  BY <1>2
<1>3. CASE Saves(a)
  <2>1. act[a].p \in Posts
    BY <1>3, SaveSteps, Zenon DEF Saves
  <2>2. PICK new \in PostDocs : /\ Copies(a, new)
                                /\ \/ CanSave(a, new) /\ Save(a, new)
                                   \/ ~CanSave(a, new) /\ UNCHANGED post
    BY <1>3, SaveSteps, Zenon DEF Saves
  <2>3. /\ \A q \in Posts \ {act[a].p} : post'[q] = post[q]
        /\ post'[act[a].p].status = post[act[a].p].status
           \/ (post'[act[a].p].status = new.status /\ new.status # act[a].doc.status)
    BY <2>1, <2>2, Saved DEF Dirty
  <2>4. CASE act[a].p # p
    BY <2>3, <2>4
  <2>5. CASE act[a].p = p
    <3>1. act[a].doc \in PostDocs
      BY DEF TypeOK
    <3>2. \/ act[a].at \in {"update", "schedAdd", "schedReplace", "schedSave", "unschedSave", "pubFail"}
             /\ act'[a].at \in {"idle", "schedCount", "thrown"}
             /\ new.status \in {"DRAFT", "SCHEDULED", "FAILED"}
          \/ act[a].at = "schedFlag" /\ new.status = act[a].doc.status
          \/ act[a].at = "pubSave"
      BY <2>2, <3>1 DEF Copies, PostDocs
    <3>3. CASE act[a].at \in {"update", "schedAdd", "schedReplace", "schedSave", "unschedSave", "pubFail"}
               /\ act'[a].at \in {"idle", "schedCount", "thrown"}
               /\ new.status \in {"DRAFT", "SCHEDULED", "FAILED"}
      <4>1. r = "holds" /\ s = "none"
        BY <1>1, <2>5, <3>3 DEF Role, HoldingPlaces, Disconnecting
      <4> QED
        BY <2>3, <2>5, <3>3, <4>1 DEF Closed
    <3>4. CASE act[a].at = "schedFlag" /\ new.status = act[a].doc.status
      BY <2>3, <2>5, <3>4
    <3>5. CASE act[a].at = "pubSave"
      BY <2>5, <3>5 DEF Role, HoldingPlaces, Disconnecting
    <3> QED
      BY <3>2, <3>3, <3>4, <3>5
  <2> QED
    BY <2>4, <2>5
<1>4. CASE DeletePost(a)
  <2>0. act'[a] = Idle
    BY <1>4, ScheduleMoves, Zenon
  <2>1. act[a].at = "delete" /\ act'[a].at = "idle"
    BY <1>4, <2>0 DEF DeletePost, Idle
  <2>2. r = "none" /\ s = "none"
    BY <1>1, <2>1 DEF Role, HoldingPlaces, Disconnecting
  <2>3. \/ post' = [post EXCEPT ![act[a].p] = [post[act[a].p] EXCEPT !.status = "DELETED"]]
        \/ UNCHANGED post
    BY <1>4 DEF DeletePost
  <2>4. post'[p].status \in {post[p].status, "DELETED"}
    <3>1. post[p] \in PostDocs /\ post \in [Posts -> PostDocs]
      BY DEF TypeOK
    <3>2. [post[p] EXCEPT !.status = "DELETED"].status = "DELETED"
      BY <3>1 DEF PostDocs
    <3>3. CASE act[a].p = p
      BY <2>3, <3>1, <3>2, <3>3
    <3>4. CASE act[a].p # p
      BY <2>3, <3>1, <3>4
    <3> QED
      BY <3>3, <3>4
  <2> QED
    BY <2>2, <2>4 DEF Closed
<1>5. CASE DisconnectFails(a)
  <2>0. act'[a] = Idle
    BY <1>5, ScheduleMoves, Zenon
  <2>1. act[a].at = "discFail" /\ act'[a].at = "idle"
    BY <1>5, <2>0 DEF DisconnectFails, Idle
  <2>2. s = "none" /\ (p \in act[a].ps => r = "holds")
    BY <1>1, <2>1 DEF Role, Disconnecting
  <2>3. post'[p] = IF p \in act[a].ps /\ Exists(p) THEN [post[p] EXCEPT !.status = "FAILED"]
                                                   ELSE post[p]
    BY <1>5 DEF DisconnectFails
  <2>4. post'[p].status = post[p].status \/ (p \in act[a].ps /\ post'[p].status = "FAILED")
    BY <2>3 DEF TypeOK, PostDocs
  <2> QED
    BY <2>2, <2>4 DEF Closed
<1> QED
  BY <1>2, <1>3, <1>4, <1>5, ActorWrites

LEMMA SendMoves ==
  ASSUME TypeOK, ActorInv, BornInv, CopyInv, NEW a \in Actors, NEW p \in Posts, Acts(a)
  PROVE  SendMove(a, p)
<1> DEFINE r == Role(act[a], p)
           s == Role(act'[a], p)
<1>0. overlaps \in [Posts -> Nat] /\ live \in [Posts -> Nat] /\ NoPost # p
  BY PostAssumption DEF TypeOK
<1>1. overlaps'[p] >= overlaps[p]
  <2>1. overlaps' = overlaps \/ \E ps : Disturb(ps)
    BY ActorWrites
  <2> QED
    BY <1>0, <2>1, DisturbTyped
<1>2. \/ live'[p] <= live[p]
      \/ r = "holds" /\ s = "sends" /\ live'[p] <= live[p] + 1
      \/ r = "holds" /\ s = "holds" /\ live'[p] <= live[p] + 1 /\ overlaps'[p] > overlaps[p]
  <2>1. CASE UNCHANGED live
    BY <1>0, <2>1
  <2>2. CASE PublishSends(a)
    <3>1. /\ act[a].at = "pubSend"
          /\ \/ live' = [live EXCEPT ![act[a].p] = live[act[a].p] + 1] /\ Goto(a, "pubSave")
             \/ live' = live
      BY <1>0, <2>2 DEF PublishSends
    <3>2. CASE live' = live
      BY <1>0, <3>2
    <3>3. CASE live' = [live EXCEPT ![act[a].p] = live[act[a].p] + 1] /\ Goto(a, "pubSave")
      <4>1. CASE act[a].p # p
        BY <1>0, <3>3, <4>1
      <4>2. CASE act[a].p = p
        <5>1. act'[a].at = "pubSave" /\ act'[a].p = p
          BY <3>3, <4>2 DEF Goto, TypeOK
        <5>2. r = "holds" /\ s = "sends"
          BY <3>1, <4>2, <5>1 DEF Role, HoldingPlaces, Disconnecting
        <5>3. live'[p] <= live[p] + 1
          BY <1>0, <3>3, <4>2
        <5> QED
          BY <5>2, <5>3
      <4> QED
        BY <4>1, <4>2
    <3> QED
      BY <3>1, <3>2, <3>3
  <2>3. CASE PublishAnswerLost(a)
    <3>1. /\ act[a].at = "pubSend" /\ Disturb({act[a].p}) /\ Goto(a, "pubFail")
          /\ live' = [live EXCEPT ![act[a].p] = live[act[a].p] + 1]
      BY <1>0, <2>3 DEF PublishAnswerLost
    <3>2. CASE act[a].p # p
      BY <1>0, <3>1, <3>2
    <3>3. CASE act[a].p = p
      <4>1. act'[a].at = "pubFail" /\ act'[a].p = p
        BY <3>1, <3>3 DEF Goto, TypeOK
      <4>2. r = "holds" /\ s = "holds"
        BY <3>1, <3>3, <4>1 DEF Role, HoldingPlaces, Disconnecting
      <4>3. live'[p] <= live[p] + 1 /\ overlaps'[p] > overlaps[p]
        BY <1>0, <3>1, <3>3, DisturbTyped
      <4> QED
        BY <4>2, <4>3
    <3> QED
      BY <3>2, <3>3
  <2>4. CASE DeleteRemoves(a)
    <3>1. \/ live' = live
          \/ live' = [live EXCEPT ![act[a].p] = IF live[act[a].p] = 0 THEN 0 ELSE live[act[a].p] - 1]
      BY <1>0, <2>4 DEF DeleteRemoves
    <3> QED
      BY <1>0, <3>1
  <2> QED
    BY <2>1, <2>2, <2>3, <2>4, ActorWrites
<1>3. /\ \/ s = r \/ s = "none"
         \/ r = "none" /\ s \in {"holds", "loads"} /\ (Quiet(p) \/ overlaps'[p] > overlaps[p])
         \/ r = "loads" /\ s = "holds"
         \/ r = "holds" /\ s = "sends"
      /\ s = "holds" /\ r # "holds" => ~Closed(p)
      /\ r = "sends" => s = "none"
  BY RoleMoves
<1>4. \/ Closed(p)' <=> Closed(p)
      \/ r = "holds" /\ s = "none" /\ ~Closed(p)'
      \/ r = "none" /\ s = "none" /\ Closed(p)'
      \/ r = "sends"
  BY StatusMoves DEF Closed
<1>5. ASSUME r = "sends" PROVE Closed(p)' \/ overlaps'[p] > overlaps[p]
  <2>1. act[a].at = "pubSave" /\ act[a].p = p
    BY <1>5 DEF Role
  <2>2. CASE PublishSaveFails(a)
    BY <1>0, <2>1, <2>2, DisturbTyped DEF PublishSaveFails
  <2>3. CASE RequestDies(a) \/ Crash(a)
    <3>1. Disturb(Touched(a)) /\ p \in Touched(a)
      BY <2>1, <2>3 DEF RequestDies, Crash, Touched, WorksOn
    <3> QED
      BY <1>0, <3>1, DisturbTyped
  <2>4. CASE PublishSaves(a)
    <3> DEFINE new == [act[a].doc EXCEPT !.status = "PUBLISHED", !.channelPostId = TRUE]
    <3>1. act[a].doc \in PostDocs /\ act[a].doc.status # "PUBLISHED" /\ post[p].status # "NONE"
      BY <2>1 DEF CopyInv, BornInv, TypeOK
    <3>2. new \in PostDocs /\ new.status = "PUBLISHED" /\ new.pin = act[a].doc.pin
      BY <3>1 DEF PostDocs, PostStatus
    <3>3. \/ CanSave(a, new) /\ Save(a, new)
          \/ ~CanSave(a, new) /\ UNCHANGED post
      BY <2>4 DEF PublishSaves
    <3> HIDE DEF new
    <3>4. \/ post'[p] = post[p] /\ ~Exists(p)
          \/ post'[p].status = Dirty(act[a].doc.status, new.status, post[p].status)
      BY <2>1, <3>2, <3>3, Saved
    <3> QED
      BY <3>1, <3>2, <3>4 DEF Dirty, Exists, Closed
  <2> QED
    BY <2>1, <2>2, <2>3, <2>4, NextSave
<1> QED
  BY <1>1, <1>2, <1>3, <1>4, <1>5 DEF SendMove

\* The same in numbers: x and y are the actor's role before and after, and each
\* pair of the others a quantity before and after.
One(x, r) == IF x = r THEN 1 ELSE 0

TeamsMove(x, y, quiet, h, i, l, m, s, t) ==
  /\ x \in {"holds", "loads", "sends", "none"}
  /\ i + One(x, "holds") = h + One(y, "holds")
  /\ m + One(x, "loads") = l + One(y, "loads")
  /\ t + One(x, "sends") = s + One(y, "sends")
  /\ x = "holds" => h > 0
  /\ x = "loads" => l > 0
  /\ x = "sends" => s > 0
  /\ quiet => h = 0 /\ l = 0 /\ s = 0

PostMoves(x, y, quiet, v, w, o, q, closed, shut) ==
  /\ q >= o
  /\ \/ w <= v
     \/ x = "holds" /\ y = "sends" /\ w <= v + 1
     \/ x = "holds" /\ y = "holds" /\ w <= v + 1 /\ q > o
  /\ \/ y = x \/ y = "none"
     \/ x = "none" /\ y \in {"holds", "loads"} /\ (quiet \/ q > o)
     \/ x = "loads" /\ y = "holds"
     \/ x = "holds" /\ y = "sends"
  /\ y = "holds" /\ x # "holds" => ~closed
  /\ \/ shut <=> closed
     \/ x = "holds" /\ y = "none" /\ ~shut
     \/ x = "none" /\ y = "none" /\ shut
     \/ x = "sends"
  /\ x = "sends" => y = "none" /\ (shut \/ q > o)

\* The arithmetic of such a move.
LEMMA BoundMoves ==
  ASSUME NEW v \in Nat, NEW o \in Nat, NEW h \in Nat, NEW l \in Nat, NEW s \in Nat,
         NEW w \in Nat, NEW q \in Nat, NEW i \in Nat, NEW m \in Nat, NEW t \in Nat,
         NEW x, NEW y, NEW p,
         Bound(v, o, h, l, s, Closed(p)),
         TeamsMove(x, y, Quiet(p), h, i, l, m, s, t),
         PostMoves(x, y, Quiet(p), v, w, o, q, Closed(p), Closed(p)')
  PROVE  Bound(w, q, i, m, t, Closed(p)')
<1> USE DEF TeamsMove, PostMoves, One
<1>1. CASE y = x /\ x = "holds"
  BY <1>1 DEF Bound
<1>2. CASE y = x /\ x # "holds"
  BY <1>2 DEF Bound
<1>3. CASE y = "none" /\ x = "holds"
  BY <1>3 DEF Bound
<1>4. CASE y = "none" /\ x = "loads"
  BY <1>4 DEF Bound
<1>5. CASE y = "none" /\ x = "sends"
  BY <1>5 DEF Bound
<1>6. CASE y = "holds" /\ x = "none"
  BY <1>6 DEF Bound
<1>7. CASE y = "loads" /\ x = "none"
  BY <1>7 DEF Bound
<1>8. CASE y = "holds" /\ x = "loads"
  BY <1>8 DEF Bound
<1>9. CASE y = "sends" /\ x = "holds"
  BY <1>9 DEF Bound
<1> QED
  BY <1>1, <1>2, <1>3, <1>4, <1>5, <1>6, <1>7, <1>8, <1>9

LEMMA TeamFinite ==
  ASSUME NEW p, NEW r
  PROVE  /\ IsFiniteSet(Team(p, r)) /\ Cardinality(Team(p, r)) \in Nat
         /\ IsFiniteSet(Team(p, r)') /\ Cardinality(Team(p, r)') \in Nat
<1>1. IsFiniteSet(Actors)
  BY FS_Union, PostAssumption DEF Actors
<1>2. Team(p, r) \subseteq Actors /\ Team(p, r)' \subseteq Actors
  BY DEF Team, Actors
<1> QED
  BY <1>1, <1>2, FS_Subset, FS_CardinalityType

\* Only the actor that takes a step changes its team.
LEMMA TeamMoves ==
  ASSUME TypeOK, ActorInv, NEW a \in Actors, Acts(a), NEW p, NEW r
  PROVE  /\ Cardinality(Team(p, r))' + (IF Role(act[a], p) = r THEN 1 ELSE 0)
              = Cardinality(Team(p, r)) + (IF Role(act'[a], p) = r THEN 1 ELSE 0)
         /\ Role(act[a], p) = r => Cardinality(Team(p, r)) > 0
<1> DEFINE S == Team(p, r)
           T == Team(p, r)'
           R == {b \in Actors \ {a} : Role(act[b], p) = r}
<1>1. R = {b \in Actors \ {a} : Role(act'[b], p) = r}
  BY OthersStay
<1>2. S = IF Role(act[a], p) = r THEN R \cup {a} ELSE R
  BY DEF Team
<1>3. T = IF Role(act'[a], p) = r THEN R \cup {a} ELSE R
  BY <1>1 DEF Team, Actors
<1>4. IsFiniteSet(R) /\ a \notin R
  <2>1. R \subseteq S
    BY DEF Team
  <2> QED
    BY <2>1, TeamFinite, FS_Subset
<1>5. Cardinality(R) \in Nat /\ Cardinality(R \cup {a}) = Cardinality(R) + 1
  BY <1>4, FS_AddElement, FS_CardinalityType
<1>6. Cardinality(S) = Cardinality(R) + (IF Role(act[a], p) = r THEN 1 ELSE 0)
  BY <1>2, <1>5
<1>7. Cardinality(T) = Cardinality(R) + (IF Role(act'[a], p) = r THEN 1 ELSE 0)
  BY <1>3, <1>5
<1> HIDE DEF R, S, T
<1>8. /\ Cardinality(T) + (IF Role(act[a], p) = r THEN 1 ELSE 0)
           = Cardinality(S) + (IF Role(act'[a], p) = r THEN 1 ELSE 0)
      /\ Role(act[a], p) = r => Cardinality(S) > 0
  BY <1>5, <1>6, <1>7
<1>9. Cardinality(Team(p, r))' = Cardinality(T)
  BY DEF T
<1> QED
  BY <1>8, <1>9 DEF S

LEMMA SendStep ==
  ASSUME TypeOK, ActorInv, BornInv, CopyInv, SendInv, [Next]_vars
  PROVE  SendInv'
<1> SUFFICES ASSUME NEW p \in Posts
             PROVE  Bound(live'[p], overlaps'[p], Cardinality(Team(p, "holds"))',
                          Cardinality(Team(p, "loads"))', Cardinality(Team(p, "sends"))', Closed(p)')
  BY DEF SendInv
<1> DEFINE h == Cardinality(Team(p, "holds"))
           l == Cardinality(Team(p, "loads"))
           s == Cardinality(Team(p, "sends"))
<1>1. /\ h \in Nat /\ l \in Nat /\ s \in Nat /\ h' \in Nat /\ l' \in Nat /\ s' \in Nat
      /\ Closed(p) \in BOOLEAN /\ Closed(p)' \in BOOLEAN
  BY TeamFinite DEF Closed
<1>2. live[p] \in Nat /\ overlaps[p] \in Nat /\ live'[p] \in Nat /\ overlaps'[p] \in Nat
  BY TypeStep DEF TypeOK
<1>3. Bound(live[p], overlaps[p], h, l, s, Closed(p))
  BY DEF SendInv
<1>4. ASSUME NEW a \in Actors, Acts(a)
      PROVE  Bound(live'[p], overlaps'[p], h', l', s', Closed(p)')
  <2> DEFINE x == Role(act[a], p)
             y == Role(act'[a], p)
  <2>1. SendMove(a, p)
    BY <1>4, SendMoves
  <2>2. /\ h' + (IF x = "holds" THEN 1 ELSE 0) = h + (IF y = "holds" THEN 1 ELSE 0)
        /\ l' + (IF x = "loads" THEN 1 ELSE 0) = l + (IF y = "loads" THEN 1 ELSE 0)
        /\ s' + (IF x = "sends" THEN 1 ELSE 0) = s + (IF y = "sends" THEN 1 ELSE 0)
        /\ (x = "holds" => h > 0) /\ (x = "loads" => l > 0) /\ (x = "sends" => s > 0)
    BY <1>4, TeamMoves
  <2>3. Quiet(p) => h = 0 /\ l = 0 /\ s = 0
    <3>1. ASSUME Quiet(p), NEW r \in {"holds", "loads", "sends"} PROVE Team(p, r) = {}
      BY <3>1 DEF Quiet, WorksOn, Team, Role, Disconnecting, HoldingPlaces
    <3> QED
      BY <3>1, FS_EmptySet
  <2>4. x \in {"holds", "loads", "sends", "none"} /\ Quiet(p) \in BOOLEAN
    BY DEF Role, Quiet
  <2> HIDE DEF x, y
  <2>5. /\ overlaps'[p] >= overlaps[p]
        /\ \/ live'[p] <= live[p]
           \/ x = "holds" /\ y = "sends" /\ live'[p] <= live[p] + 1
           \/ x = "holds" /\ y = "holds" /\ live'[p] <= live[p] + 1 /\ overlaps'[p] > overlaps[p]
        /\ \/ y = x \/ y = "none"
           \/ x = "none" /\ y \in {"holds", "loads"} /\ (Quiet(p) \/ overlaps'[p] > overlaps[p])
           \/ x = "loads" /\ y = "holds"
           \/ x = "holds" /\ y = "sends"
        /\ y = "holds" /\ x # "holds" => ~Closed(p)
        /\ \/ Closed(p)' <=> Closed(p)
           \/ x = "holds" /\ y = "none" /\ ~Closed(p)'
           \/ x = "none" /\ y = "none" /\ Closed(p)'
           \/ x = "sends"
        /\ x = "sends" => y = "none" /\ (Closed(p)' \/ overlaps'[p] > overlaps[p])
    BY <2>1, Zenon DEF SendMove, x, y
  <2> QED
    <3>1. TeamsMove(x, y, Quiet(p), h, h', l, l', s, s')
      BY <2>2, <2>3, <2>4 DEF TeamsMove, One
    <3>2. PostMoves(x, y, Quiet(p), live[p], live'[p], overlaps[p], overlaps'[p], Closed(p), Closed(p)')
      BY <2>5, Zenon DEF PostMoves
    <3> QED
      BY <1>1, <1>2, <1>3, <3>1, <3>2, BoundMoves
<1>5. ASSUME act' = act, live' = live, overlaps' = overlaps, Closed(p)' <=> Closed(p)
      PROVE  Bound(live'[p], overlaps'[p], h', l', s', Closed(p)')
  <2>1. \A r : Team(p, r)' = Team(p, r)
    BY <1>5 DEF Team, Actors
  <2> QED
    BY <1>1, <1>3, <1>5, <2>1
<1>6. CASE World
  BY <1>5, <1>6, WorldWrites DEF Closed
<1>7. ASSUME NEW q \in Posts, NEW v \in Versions, CreatePost(q, v)
      PROVE  Bound(live'[p], overlaps'[p], h', l', s', Closed(p)')
  <2>1. Closed(p)' <=> Closed(p)
    <3>1. CASE q = p
      BY <1>7, <3>1, CreateWrites, NothingTyped DEF Closed, PostDocs
    <3>2. CASE q # p
      BY <1>7, <3>2, CreateWrites DEF Closed
    <3> QED
      BY <3>1, <3>2
  <2> QED
    BY <1>5, <1>7, <2>1, CreateWrites
<1>8. CASE UNCHANGED vars
  BY <1>5, <1>8 DEF vars, postVars, Closed
<1> QED
  BY <1>4, <1>6, <1>7, <1>8, Cases

-----------------------------------------------------------------------------
(* The theorems *)

LEMMA InitInv == Init => IInv
<1> SUFFICES ASSUME Init PROVE IInv
  OBVIOUS
<1>1. /\ currentVersion = 1 /\ deletedAt = FALSE /\ pinRevision = 0
      /\ vstatus = [v \in Versions |-> IF v = 1 THEN "READY" ELSE "NONE"]
      /\ vcontent = [v \in Versions |-> IF v = 1 THEN "generated" ELSE "empty"]
      /\ post = [p \in Posts |-> NoDoc] /\ job = [p \in Posts |-> "none"]
      /\ stalls = [p \in Posts |-> 0] /\ live = [p \in Posts |-> 0]
      /\ counted = [t \in 1..MaxPeriods |-> {}] /\ period = 1 /\ returned = FALSE
      /\ connected = TRUE /\ act = [a \in Actors |-> Idle]
      /\ overlaps = [p \in Posts |-> 0] /\ calls = 0 /\ faults = 0
  BY DEF Init
<1>2. \A a \in Actors : act[a] = Idle /\ act[a].at = "idle" /\ act[a].p = NoPost /\ act[a].doc = NoDoc
  BY <1>1 DEF Idle
<1>3. \A p \in Posts : /\ post[p] = NoDoc /\ post[p].status = "NONE" /\ post[p].pin = 0
                       /\ post[p].flagged = FALSE /\ NoPost # p
  BY <1>1, PostAssumption DEF NoDoc
<1>4. TypeOK
  <2>1. StoreTypeOK
    <3>1. currentVersion \in 0..MaxVersions /\ pinRevision \in Nat
      BY <1>1, MaxVersionsAssumption
    <3>2. vstatus \in [Versions -> VersionStatus]
      BY <1>1 DEF VersionStatus
    <3>3. vcontent \in [Versions -> Contents]
      BY <1>1 DEF Contents
    <3> QED
      BY <1>1, <3>1, <3>2, <3>3 DEF StoreTypeOK
  <2>2. post \in [Posts -> PostDocs] /\ act \in [Actors -> ActRecords]
    <3> HIDE DEF ActRecords
    <3> QED
      BY <1>1, NothingTyped
  <2>3. period \in 1..MaxPeriods
    BY <1>1, PostAssumption
  <2> QED
    BY <1>1, <2>1, <2>2, <2>3 DEF TypeOK, ActRecords
<1>5. ActorInv
  BY <1>2 DEF ActorInv, Placed, PostPlaces
<1>6. PinInv
  BY <1>1, <1>3, MaxVersionsAssumption DEF PinInv, Versions
<1>7. BornInv
  BY <1>1, <1>2, PostAssumption DEF BornInv
<1>8. UsageInv /\ ScheduledIsCounted
  BY <1>2, <1>3 DEF UsageInv, ScheduledIsCounted, Admitted, NoDoc
<1>9. QuotaInv
  <2>1. Pending = {}
    BY <1>2 DEF Pending, Admitted, Actors
  <2>2. \A t \in 1..MaxPeriods : counted[t] = {}
    BY <1>1
  <2>3. Cardinality(Clients) \in Nat \ {0} /\ IsFiniteSet({}) /\ Cardinality({}) = 0
    BY PostAssumption, FS_EmptySet, FS_CardinalityType
  <2>4. period = 1 /\ 1 \in 1..MaxPeriods /\ Quota \in Nat
    BY <1>1, PostAssumption
  <2> QED
    <3>1. \A t \in 1..MaxPeriods : IsFiniteSet(counted[t]) /\ Cardinality(counted[t]) = 0
      BY <2>2, <2>3
    <3>2. ~\E t \in 1..MaxPeriods : t < period
      BY <2>4
    <3>3. Cardinality(counted[period]) + Cardinality(Pending) <= Quota + Cardinality(Clients) - 1
      BY <2>1, <2>3, <2>4, <3>1
    <3> QED
      BY <2>1, <2>2, <3>1, <3>2, <3>3 DEF QuotaInv
<1>10. EditInv /\ CopyInv
  BY <1>2, PostAssumption DEF EditInv, CopyInv, Actors
<1>11. \A p \in Posts, a \in Actors : ~WorksOn(a, p)
  BY <1>2 DEF WorksOn
<1>12. AloneInv /\ StageInv
  BY <1>1, <1>3, <1>11 DEF AloneInv, StageInv, Sound, Fits
<1>13. SendInv
  <2>1. ASSUME NEW p \in Posts, NEW r \in {"holds", "loads", "sends"} PROVE Team(p, r) = {}
    BY <1>2, <1>3, <2>1 DEF Team, Role, Disconnecting, HoldingPlaces
  <2>2. Cardinality({}) = 0
    BY FS_EmptySet
  <2> QED
    <3> SUFFICES ASSUME NEW p \in Posts
                 PROVE  Bound(live[p], overlaps[p], Cardinality(Team(p, "holds")),
                              Cardinality(Team(p, "loads")), Cardinality(Team(p, "sends")), Closed(p))
      BY DEF SendInv
    <3>1. /\ Cardinality(Team(p, "holds")) = 0 /\ Cardinality(Team(p, "loads")) = 0
          /\ Cardinality(Team(p, "sends")) = 0
      BY <2>1, <2>2
    <3>2. live[p] = 0 /\ overlaps[p] = 0 /\ ~Closed(p)
      BY <1>1, <1>3 DEF Closed
    <3> QED
      BY <3>1, <3>2 DEF Bound
<1> QED
  BY <1>4, <1>5, <1>6, <1>7, <1>8, <1>9, <1>10, <1>12, <1>13 DEF IInv

LEMMA Inductive == IInv /\ [Next]_vars => IInv'
BY TypeStep, PinStep, BornStep, UsageStep, QuotaStep, EditStep, AloneStep, StageStep, CopyStep,
   SendStep
   DEF IInv

LEMMA Invariance == Spec => []IInv
BY InitInv, Inductive, PTL DEF Spec

\* Every variable stays in its set, whatever overlaps, dies or stalls.
THEOREM TypeCorrect == Spec => []TypeOK
<1>1. IInv => TypeOK
  BY DEF IInv
<1> QED
  BY <1>1, Invariance, PTL

\* publishPost, the retries of the queue and the checks of every status lead to
\* no duplicate on LinkedIn by themselves: each one takes a disturbance of its own.
THEOREM NoSecondPostUnaided == Spec => []DuplicatesBounded
<1>1. IInv => DuplicatesBounded
  <2> SUFFICES ASSUME IInv, NEW p \in Posts PROVE live[p] <= 1 + overlaps[p]
    BY DEF DuplicatesBounded
  <2>1. live[p] \in Nat /\ overlaps[p] \in Nat
    BY DEF IInv, TypeOK
  <2>2. \A r : Cardinality(Team(p, r)) \in Nat
    BY TeamFinite
  <2>3. PICK h \in Nat, l \in Nat, s \in Nat : Bound(live[p], overlaps[p], h, l, s, Closed(p))
    BY <2>2 DEF IInv, SendInv
  <2> QED
    BY <2>1, <2>3 DEF Bound
<1> QED
  BY <1>1, Invariance, PTL

\* A post nobody disturbed and nobody is working on has its job in the queue
\* exactly when it is SCHEDULED, or pins a version that a refine has replaced.
THEOREM JobsMatch == Spec => []JobsFollowStatus
<1>1. IInv => JobsFollowStatus
  BY DEF IInv, StageInv, Sound, Fits, JobsFollowStatus
<1> QED
  BY <1>1, Invariance, PTL

\* As long as no request dies, a SCHEDULED post is in the usage of some period or
\* its request is about to count it (incrementScheduledPostUsage).
THEOREM NothingForFree == Spec => []ScheduledIsCounted
<1>1. IInv => ScheduledIsCounted
  BY DEF IInv
<1> QED
  BY <1>1, Invariance, PTL

\* Requests that pass assertScheduledPostQuota together exceed the quota of a
\* period by one less than there are clients, as long as no period returns.
THEOREM OvershootByClients == Spec => []QuotaOvershootBounded
<1>1. IInv => QuotaOvershootBounded
  <2> SUFFICES ASSUME QuotaInv, TypeOK, ~returned, NEW t \in 1..MaxPeriods
               PROVE  Cardinality(counted[t]) <= Quota + Cardinality(Clients) - 1
    BY DEF IInv, QuotaOvershootBounded
  <2>1. Cardinality(Clients) \in Nat \ {0} /\ Cardinality({}) = 0 /\ Quota \in Nat
    BY PostAssumption, FS_EmptySet, FS_CardinalityType
  <2>2. Cardinality(counted[t]) \in Nat /\ period \in 1..MaxPeriods
    BY FS_CardinalityType DEF QuotaInv, TypeOK
  <2>3. Cardinality(Pending) \in Nat
    BY PostAssumption, FS_Subset, FS_CardinalityType DEF Pending
  <2>4. CASE t > period
    BY <2>1, <2>4 DEF QuotaInv
  <2>5. CASE t < period
    BY <2>5 DEF QuotaInv
  <2>6. CASE t = period
    BY <2>1, <2>2, <2>3, <2>6 DEF QuotaInv
  <2> QED
    BY <2>2, <2>4, <2>5, <2>6
<1> QED
  BY <1>1, Invariance, PTL

\* No step takes a PUBLISHED post back or moves the pin of a SCHEDULED or
\* PUBLISHED one, unless somebody disturbed the post: the status checks of the
\* requests are enough for requests that do not overlap.
THEOREM ConfirmedKept == Spec => ConfirmedPostsKeep
<1>1. ASSUME IInv, [Next]_vars, NEW p \in Posts, overlaps'[p] = 0
      PROVE  /\ post[p].status = "PUBLISHED" => post'[p].status \in {"PUBLISHED", "DELETED"}
             /\ post[p].status \in {"SCHEDULED", "PUBLISHED"}
                  /\ post'[p].status \in {"SCHEDULED", "PUBLISHED"}
                  => post'[p].pin = post[p].pin
  <2>0. TypeOK /\ ActorInv /\ StageInv
    BY <1>1 DEF IInv
  <2>1. overlaps[p] = 0
    BY <1>1, <2>0, OverlapsGrow DEF TypeOK
  <2>2. \A a \in Actors : WorksOn(a, p) => Stage(a, p)
    BY <2>0, <2>1 DEF StageInv, Undisturbed, Sound
  <2>3. ASSUME post[p].status = "PUBLISHED" PROVE post'[p].status \in {"PUBLISHED", "DELETED"}
    <3>1. ASSUME NEW a \in Actors, Acts(a) PROVE post'[p].status \in {"PUBLISHED", "DELETED"}
      <4>1. ASSUME Role(act[a], p) \in {"holds", "sends"} PROVE FALSE
        <5>1. WorksOn(a, p)
          BY <4>1 DEF Role, WorksOn, HoldingPlaces, Disconnecting
        <5>2. Stage(a, p)
          BY <2>2, <5>1
        <5> QED
          BY <2>3, <4>1, <5>2
             DEF Role, Stage, HoldingPlaces, Disconnecting, Editable, Schedulable
      <4> QED
        BY <2>0, <2>3, <3>1, <4>1, StatusMoves DEF Closed
    <3>2. World \/ UNCHANGED vars => post' = post
      BY <2>0, WorldWrites DEF vars, postVars
    <3>3. ASSUME NEW q \in Posts, NEW v \in Versions, CreatePost(q, v) PROVE post'[p] = post[p]
      BY <2>0, <2>3, <3>3, CreateWrites
    <3> QED
      BY <1>1, <2>0, <2>3, <3>1, <3>2, <3>3, Cases
  <2>4. ASSUME post[p].status \in {"SCHEDULED", "PUBLISHED"},
               post'[p].status \in {"SCHEDULED", "PUBLISHED"}
        PROVE  post'[p].pin = post[p].pin
    <3>1. ASSUME NEW a \in Actors, act[a].at = "update", act[a].p = p PROVE FALSE
      <4>1. Stage(a, p)
        BY <2>2, <3>1 DEF WorksOn
      <4> QED
        BY <2>4, <3>1, <4>1 DEF Stage, Editable
    <3>2. \/ post'[p] = post[p]
          \/ post[p].status = "NONE"
          \/ post'[p].pin = post[p].pin
          \/ \E a \in Actors : act[a].at = "update" /\ act[a].p = p
      BY <1>1, <2>0, PostStep DEF Created, Written, Updating
    <3> QED
      BY <2>4, <3>1, <3>2
  <2> QED
    BY <2>3, <2>4
<1>2. IInv /\ [Next]_vars => [\A p \in Posts : overlaps'[p] = 0 =>
       /\ post[p].status = "PUBLISHED" => post'[p].status \in {"PUBLISHED", "DELETED"}
       /\ post[p].status \in {"SCHEDULED", "PUBLISHED"}
            /\ post'[p].status \in {"SCHEDULED", "PUBLISHED"}
            => post'[p].pin = post[p].pin]_vars
  BY <1>1, Zenon
<1> QED
  BY <1>2, Invariance, PTL DEF Spec, ConfirmedPostsKeep

\* An edit that is saved touches no version a SCHEDULED or PUBLISHED post pins,
\* unless somebody was working on that post when the editor read the artifact:
\* updateArtifact's write repeats the pin revision it read.
THEOREM EditsSpareThePinned == Spec => EditsRespectPins
<1>1. ASSUME IInv, [Next]_vars, NEW c \in Clients,
             act[c].at = "edit", act'[c].at = "idle", vcontent' # vcontent,
             NEW p \in Posts \ act[c].ps, post[p].status \in {"SCHEDULED", "PUBLISHED"}
      PROVE  post[p].pin # act[c].v
  <2>0. TypeOK /\ ActorInv /\ EditInv /\ c \in Actors
    BY <1>1 DEF IInv, Actors
  <2>1. act'[c] # act[c]
    BY <1>1
  <2>2. PICK a \in Actors : Acts(a)
    <3>1. World \/ UNCHANGED vars \/ (\E q \in Posts, v \in Versions : CreatePost(q, v)) => act' = act
      BY <2>0, WorldWrites DEF CreatePost, vars
    <3> QED
      BY <1>1, <2>0, <2>1, <3>1, Cases
  <2>3. a = c
    BY <2>0, <2>1, <2>2, OthersStay
  <2>4. EditVersion(act[c].v, act[c].rev)
    BY <1>1, <2>2, <2>3, ActorWrites DEF storeVars, BumpArtifactPinRevision
  <2>5. act[c].rev = pinRevision
    BY <2>4 DEF EditVersion, EditMatches
  <2> QED
    BY <1>1, <2>0, <2>5 DEF EditInv, Confirmed
<1>2. IInv /\ [Next]_vars => [\A c \in Clients :
       act[c].at = "edit" /\ act'[c].at = "idle" /\ vcontent' # vcontent =>
       \A p \in Posts \ act[c].ps :
         post[p].status \in {"SCHEDULED", "PUBLISHED"} => post[p].pin # act[c].v]_vars
  BY <1>1, Zenon
<1> QED
  BY <1>2, Invariance, PTL DEF Spec, EditsRespectPins
=============================================================================
