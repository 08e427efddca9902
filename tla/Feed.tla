--------------------------------- MODULE Feed ---------------------------------
(***************************************************************************)
(* The posts of a user as GET /posts lists them: newest first, by status and  *)
(* by the month of the last update. PostPublishing has the whole life of a    *)
(* post; here a write is what it does to the list.                            *)
(***************************************************************************)
EXTENDS Paging

CONSTANT MaxFeedCalls   \* bound on what is done to posts

ASSUME FeedAssumption == MaxFeedCalls \in Nat

VARIABLES
  feed,       \* [Items -> the Mongo document of the post]
  feedCalls

feedVars == <<feed, feedCalls>>

FeedStatus == {"NONE", "DRAFT", "SCHEDULED", "PUBLISHED", "FAILED"}

FeedInit ==
  /\ feed = [i \in Items |-> [status |-> "NONE", created |-> FALSE, stamp |-> 1]]
  /\ feedCalls = 0

FeedCall == feedCalls < MaxFeedCalls /\ feedCalls' = feedCalls + 1

\* Newest first, which no later write changes; the status filter is the
\* stored status, the month filter the last update.
NewestFirst == [k \in Items |-> MaxItems + 1 - k]

InFeed(i, f, posts) ==
  /\ posts[i].status # "NONE"
  /\ Matches(f, "POST", posts[i].status, posts[i].stamp)

GetPosts(f, posts) ==
  {i \in Items : InFeed(i, f, posts)}

ReadPosts(f) ==
  /\ LET list == GetPosts(f, feed) IN
     ReadPage(f, list, NewestFirst, ByLength(list, NewestFirst))
  /\ UNCHANGED feedVars

WritePost(i, status, front) ==
  /\ FeedCall
  /\ feed' = [feed EXCEPT ![i] = [status |-> status, created |-> TRUE, stamp |-> month]]
  /\ ListMoves(GetPosts(reader.filter, feed), GetPosts(reader.filter, feed'), front)
  /\ UNCHANGED month

NewPost(i) ==
  /\ ~feed[i].created
  /\ \A j \in Items : j < i => feed[j].created
  /\ WritePost(i, "DRAFT", {i})

\* editPost, the media and the retry of a FAILED post leave it a DRAFT; it is
\* scheduled, unscheduled, published or fails.
MayBecome(status) ==
  CASE status = "DRAFT" -> {"DRAFT", "SCHEDULED", "PUBLISHED", "FAILED"}
    [] status = "SCHEDULED" -> {"DRAFT", "PUBLISHED", "FAILED"}
    [] status = "FAILED" -> {"DRAFT", "SCHEDULED", "PUBLISHED", "FAILED"}
    [] OTHER -> {}

ChangePost(i, status) ==
  /\ status \in MayBecome(feed[i].status)
  /\ WritePost(i, status, {})

DeletePost(i) ==
  /\ feed[i].status # "NONE"
  /\ WritePost(i, "NONE", {})

FeedNext ==
  \/ \E i \in Items :
       NewPost(i) \/ DeletePost(i) \/ \E status \in FeedStatus : ChangePost(i, status)
  \/ \E f \in Filters({}, FeedStatus \ {"NONE"}) : ReadPosts(f)
  \/ MonthEnds /\ UNCHANGED <<reader, feedVars>>

FeedSpec == PagingInit /\ FeedInit /\ [][FeedNext]_<<feedVars, pagingVars>>
-----------------------------------------------------------------------------
FeedTypeOK ==
  /\ feed \in [Items -> [status : FeedStatus, created : BOOLEAN, stamp : 1..MaxMonths]]
  /\ feedCalls \in 0..MaxFeedCalls
=============================================================================
