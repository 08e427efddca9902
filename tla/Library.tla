-------------------------------- MODULE Library --------------------------------
(***************************************************************************)
(* The artifacts of a user as the library shows them: the list with its       *)
(* filters, and for a document the slides of a version beside the PDF         *)
(* rendered from them, which lies in object storage under a key of its own.   *)
(* ArtifactRun looks at one artifact and the whole life of its runs; here an  *)
(* attempt of a run is what it generates, uploads and writes.                 *)
(*                                                                           *)
(* The text of slides is who wrote them: an attempt of the run, by its        *)
(* number, or an editor. Titles, searches and pages of a PDF are left out.    *)
(***************************************************************************)
EXTENDS Paging

CONSTANTS
  MaxRevisions,     \* bound on the versions of an artifact
  MaxTries,         \* attempts of a run
  MaxLibraryCalls,  \* bound on creations, refines, edits, pins and deletes
  MaxLibraryFaults  \* bound on failed or stalled attempts

ASSUME LibraryAssumption ==
  /\ MaxRevisions \in Nat \ {0} /\ MaxTries \in Nat \ {0}
  /\ MaxLibraryCalls \in Nat /\ MaxLibraryFaults \in Nat

VARIABLES
  artifacts,      \* [Items -> the Mongo document]
  shelf,          \* [Items -> the place by the last update, 1 the latest, 0 none]
  pdfs,           \* [Items -> [Revisions -> whose slides the stored PDF shows]]
  attempts,       \* [Items -> [Revisions -> [Tries -> where the attempt is]]]
  libraryCalls, libraryFaults

libraryVars == <<artifacts, shelf, pdfs, attempts, libraryCalls, libraryFaults>>

Revisions == 1..MaxRevisions
Tries     == 1..MaxTries
Edited    == MaxTries + 1
Texts     == 0..Edited        \* 0: none
ShelfStatus == {"NONE", "GENERATING", "READY", "FAILED"}
ShelfTypes  == {"POST", "DOCUMENT"}

\* key: the version has its pdfKey and pageCount.
NoRevision == [status |-> "NONE", slides |-> 0, key |-> FALSE]
NoArtifact == [type |-> "POST", current |-> 0, deleted |-> FALSE, pinned |-> 0, stamp |-> 1,
               versions |-> [v \in Revisions |-> NoRevision]]

LibraryInit ==
  /\ artifacts = [i \in Items |-> NoArtifact]
  /\ shelf = [i \in Items |-> 0]
  /\ pdfs = [i \in Items |-> [v \in Revisions |-> 0]]
  /\ attempts = [i \in Items |-> [v \in Revisions |-> [n \in Tries |-> "none"]]]
  /\ libraryCalls = 0 /\ libraryFaults = 0

LibraryCall  == libraryCalls < MaxLibraryCalls /\ libraryCalls' = libraryCalls + 1
LibraryFault == libraryFaults < MaxLibraryFaults /\ libraryFaults' = libraryFaults + 1

Created(i) == artifacts[i].current # 0
OnShelf(i) == Created(i) /\ ~artifacts[i].deleted
Shown(i)   == artifacts[i].versions[artifacts[i].current]
-----------------------------------------------------------------------------
(* GET /artifacts *)

\* Live artifacts, by the status of the current version and the month of the
\* last update.
Listed(i, f, arts) ==
  /\ arts[i].current # 0 /\ ~arts[i].deleted
  /\ Matches(f, arts[i].type, arts[i].versions[arts[i].current].status, arts[i].stamp)

ListArtifacts(f, arts) == {i \in Items : Listed(i, f, arts)}

ReadArtifacts(f) ==
  /\ LET list == ListArtifacts(f, artifacts) IN ReadPage(f, list, shelf, ByCount(list))
  /\ UNCHANGED libraryVars

\* The artifacts updated after i, all of them when i is new, move back by one.
ToFront(i, j) ==
  CASE j = i -> 1
    [] j # i /\ shelf[j] # 0 /\ (shelf[i] = 0 \/ shelf[j] < shelf[i]) -> shelf[j] + 1
    [] OTHER -> shelf[j]

\* Mongoose stamps updatedAt on every write of the document, whatever it sets.
Write(i, doc) ==
  /\ artifacts' = [artifacts EXCEPT ![i] = [doc EXCEPT !.stamp = month]]
  /\ shelf' = [j \in Items |-> ToFront(i, j)]
  /\ ListMoves(ListArtifacts(reader.filter, artifacts),
               ListArtifacts(reader.filter, artifacts'), {i})
  /\ UNCHANGED month
-----------------------------------------------------------------------------
(* GET /artifacts/:id *)

\* Slip: one PDF for all versions of an artifact.
PdfKey_PerArtifact(v) == 1
\* documentPdfKey names the artifact and the version.
PdfKey(v) == v

\* serializeContent gives a signed URL of what the key names, 0: no URL.
Pdf(i, v) ==
  IF artifacts[i].type = "DOCUMENT" /\ artifacts[i].versions[v].key
    THEN pdfs[i][PdfKey(v)] ELSE 0

Detail(i, v) == [slides |-> artifacts[i].versions[v].slides, pdf |-> Pdf(i, v)]
-----------------------------------------------------------------------------
(* What the user does *)

Create(i, type) ==
  /\ ~Created(i) /\ \A j \in Items : j < i => Created(j)
  /\ LibraryCall
  /\ Write(i, [NoArtifact EXCEPT !.type = type, !.current = 1,
                                 !.versions[1].status = "GENERATING"])
  /\ attempts' = [attempts EXCEPT ![i][1][1] = "generating"]
  /\ UNCHANGED <<pdfs, libraryFaults>>

\* readRefineInput: the latest earlier version whose content parses.
HasPrior(i, v) == \E u \in Revisions : u < v /\ artifacts[i].versions[u].slides # 0

\* Without it the run ends as it begins.
Refine(i) ==
  LET v == artifacts[i].current + 1 IN
  /\ OnShelf(i) /\ v \in Revisions /\ Shown(i).status # "GENERATING"
  /\ LibraryCall
  /\ Write(i, [artifacts[i] EXCEPT !.current = v, !.versions[v].status =
                 IF HasPrior(i, v) THEN "GENERATING" ELSE "FAILED"])
  /\ attempts' = [attempts EXCEPT ![i][v][1] = IF HasPrior(i, v) THEN "generating" ELSE "over"]
  /\ UNCHANGED <<pdfs, libraryFaults>>

\* contentPatch drops what is derived; mergeRecords keeps it.
Merge(version, slides) == IF slides THEN [version EXCEPT !.slides = Edited] ELSE version

\* The READY head that no post pins; the PDF stays as it is.
Edit(i, slides) ==
  LET v == artifacts[i].current IN
  /\ OnShelf(i) /\ Shown(i).status = "READY" /\ artifacts[i].pinned # v
  /\ LibraryCall
  /\ Write(i, [artifacts[i] EXCEPT !.versions[v] = Merge(Shown(i), slides)])
  /\ UNCHANGED <<pdfs, attempts, libraryFaults>>

\* bumpArtifactPinRevision, when a post with the current version is scheduled.
Pin(i) ==
  /\ OnShelf(i) /\ Shown(i).status = "READY"
  /\ LibraryCall
  /\ Write(i, [artifacts[i] EXCEPT !.pinned = artifacts[i].current])
  /\ UNCHANGED <<pdfs, attempts, libraryFaults>>

\* The post is unscheduled or deleted; the artifact is not written.
Unpin(i) ==
  /\ artifacts[i].pinned # 0
  /\ artifacts' = [artifacts EXCEPT ![i].pinned = 0]
  /\ UNCHANGED <<shelf, pdfs, attempts, libraryCalls, libraryFaults, pagingVars>>

Delete(i) ==
  /\ OnShelf(i)
  /\ LibraryCall
  /\ Write(i, [artifacts[i] EXCEPT !.deleted = TRUE])
  /\ UNCHANGED <<pdfs, attempts, libraryFaults>>
-----------------------------------------------------------------------------
(* What an attempt of the run of a version does *)

At(i, v, n, at) == attempts[i][v][n] = at
Moves(i, v, n, at) == attempts' = [attempts EXCEPT ![i][v][n] = at]

\* The same key for every attempt: an upload replaces the one before.
RenderDeck(i, v, n) ==
  /\ At(i, v, n, "generating") /\ artifacts[i].type = "DOCUMENT"
  /\ pdfs' = [pdfs EXCEPT ![i][PdfKey(v)] = n]
  /\ Moves(i, v, n, "rendered")
  /\ UNCHANGED <<artifacts, shelf, libraryCalls, libraryFaults, pagingVars>>

\* Slip: the version gets the status of the run's record.
FoldRender_RunStatus(type, n) == [status |-> "COMPLETED", slides |-> n, key |-> type = "DOCUMENT"]
\* The key goes onto the slides of a document, which is not READY without it.
FoldRender(type, n) == [status |-> "READY", slides |-> n, key |-> type = "DOCUMENT"]

Persist(i, v, n) ==
  /\ At(i, v, n, IF artifacts[i].type = "DOCUMENT" THEN "rendered" ELSE "generating")
  /\ ~artifacts[i].deleted
  /\ Write(i, [artifacts[i] EXCEPT !.versions[v] = FoldRender(artifacts[i].type, n)])
  /\ Moves(i, v, n, "written")
  /\ UNCHANGED <<pdfs, libraryCalls, libraryFaults>>

RunEnds(i, v, n) ==
  /\ At(i, v, n, "written")
  /\ Moves(i, v, n, "over")
  /\ UNCHANGED <<artifacts, shelf, pdfs, libraryCalls, libraryFaults, pagingVars>>

Underway(i, v, n) == attempts[i][v][n] \in {"generating", "rendered", "written"}

\* The attempt fails, or its lock is lost: then the worker may still be at work
\* while the next attempt begins.
Retry(i, v, n) ==
  /\ n + 1 \in Tries /\ Underway(i, v, n) /\ At(i, v, n + 1, "none")
  /\ LibraryFault
  /\ \E at \in {"over", attempts[i][v][n]} :
       attempts' = [attempts EXCEPT ![i][v] =
                      [attempts[i][v] EXCEPT ![n] = at, ![n + 1] = "generating"]]
  /\ UNCHANGED <<artifacts, shelf, pdfs, libraryCalls, pagingVars>>

\* Nothing is tried again: failVersion, which keeps the content.
Fail(i, v, n) ==
  /\ Underway(i, v, n)
  /\ \A k \in Tries : k > n => At(i, v, k, "none")
  /\ LibraryFault \/ (artifacts[i].deleted /\ UNCHANGED libraryFaults)
  /\ Moves(i, v, n, "over")
  /\ IF artifacts[i].deleted THEN UNCHANGED <<artifacts, shelf, pagingVars>>
     ELSE Write(i, [artifacts[i] EXCEPT !.versions[v].status = "FAILED"])
  /\ UNCHANGED <<pdfs, libraryCalls>>
-----------------------------------------------------------------------------
LibraryNext ==
  \/ \E i \in Items :
       \/ \E type \in ShelfTypes : Create(i, type)
       \/ Refine(i) \/ Pin(i) \/ Unpin(i) \/ Delete(i)
       \/ \E slides \in BOOLEAN : Edit(i, slides)
       \/ \E v \in Revisions, n \in Tries :
            \/ RenderDeck(i, v, n) \/ Persist(i, v, n)
            \/ RunEnds(i, v, n) \/ Retry(i, v, n) \/ Fail(i, v, n)
  \/ \E f \in Filters(ShelfTypes, ShelfStatus \ {"NONE"}) : ReadArtifacts(f)
  \/ MonthEnds /\ UNCHANGED <<reader, libraryVars>>

LibrarySpec == PagingInit /\ LibraryInit /\ [][LibraryNext]_<<libraryVars, pagingVars>>
-----------------------------------------------------------------------------
(* Properties *)

LibraryTypeOK ==
  /\ artifacts \in [Items -> [type : ShelfTypes, current : 0..MaxRevisions, deleted : BOOLEAN,
       pinned : 0..MaxRevisions, stamp : 1..MaxMonths,
       versions : [Revisions -> [status : ShelfStatus, slides : Texts, key : BOOLEAN]]]]
  /\ shelf \in [Items -> 0..MaxItems]
  /\ pdfs \in [Items -> [Revisions -> Texts]]

OneAttempt(i, v) == \A n \in Tries : n > 1 => At(i, v, n, "none")

\* A READY document can be opened and published: whatever is edited, refined or
\* tried again, its PDF is there, and it shows the slides of this version unless
\* they were edited or more than one attempt rendered them.
DeckShown ==
  \A i \in Items, v \in Revisions :
    artifacts[i].type = "DOCUMENT" /\ artifacts[i].versions[v].status = "READY" =>
      /\ Detail(i, v).pdf # 0
      /\ OneAttempt(i, v) => Detail(i, v).slides \in {Edited, Detail(i, v).pdf}
=============================================================================
