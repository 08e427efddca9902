------------------------------ MODULE MCLibrary ------------------------------
(***************************************************************************)
(* What a client reads, on small instances: the artifacts with their decks,   *)
(* and the posts. One of three settings in a behaviour: the list of           *)
(* artifacts read beside runs that do not fail, one artifact whose attempts   *)
(* fail and overlap while no list is read, and the list of posts.             *)
(***************************************************************************)
EXTENDS Library, Feed

VARIABLE part   \* the setting

vars == <<libraryVars, feedVars, pagingVars, part>>

Init == PagingInit /\ LibraryInit /\ FeedInit /\ part \in {"lists", "decks", "feed"}

Number(n) == \A i \in Items : i > n => shelf'[i] = 0

Next ==
  /\ UNCHANGED part
  /\ \/ part = "lists" /\ LibraryNext /\ libraryFaults' = 0 /\ Number(2) /\ libraryCalls' < 4
        /\ UNCHANGED feedVars
     \/ /\ part = "decks" /\ LibraryNext /\ Number(1) /\ reader' = Idle /\ month' = 1
        /\ UNCHANGED feedVars
     \/ part = "feed" /\ FeedNext /\ UNCHANGED libraryVars

Spec == Init /\ [][Next]_vars

TypeOK == PagingTypeOK /\ LibraryTypeOK /\ FeedTypeOK
=============================================================================
