-------------------------------- MODULE Paging --------------------------------
(***************************************************************************)
(* Offset paging over a list that changes between two pages, as GET         *)
(* /artifacts and GET /posts do it: each page is a query of its own, with a  *)
(* skip and a limit, and nothing ties it to the page before. One client      *)
(* reads a list from its first page to its last; the lists are those of      *)
(* Library and Feed.                                                         *)
(***************************************************************************)
EXTENDS Naturals, FiniteSets

CONSTANTS
  MaxItems,   \* bound on what a user creates: its artifacts, or its posts
  PageSize,   \* ARTIFACT_PAGE_SIZE, POST_PAGE_SIZE
  MaxMonths   \* bound on the months that pass

ASSUME PagingAssumption ==
  MaxItems \in Nat /\ PageSize \in Nat \ {0} /\ MaxMonths \in Nat \ {0}

VARIABLES
  reader,     \* the client that pages
  month       \* the calendar

pagingVars == <<reader, month>>

\* Numbered in the order of their creation.
Items == 1..MaxItems

\* A month of 0 is no filter; the client asks for one thing at a time.
AnyItem == [type |-> "any", status |-> "any", month |-> 0]
Filters(types, statuses) ==
  {AnyItem} \cup {[AnyItem EXCEPT !.type = t] : t \in types}
            \cup {[AnyItem EXCEPT !.status = t] : t \in statuses}
            \cup {[AnyItem EXCEPT !.month = m] : m \in 1..MaxMonths}

Matches(f, type, status, stamp) ==
  /\ f.type \in {"any", type}
  /\ f.status \in {"any", status}
  /\ f.month \in {0, stamp}

\* Slip: the first page is skipped by as much as the second.
Skip_OneMore(page) == (page - 1) * PageSize + 1
Skip(page) == (page - 1) * PageSize

PageLimit == PageSize

\* A list is a set of items, of which that with the smaller rank comes first.
Place(list, rank, i) == Cardinality({j \in list : rank[j] <= rank[i]})

PageOf(list, rank, page) ==
  {i \in list : /\ Skip(page) < Place(list, rank, i)
               /\ Place(list, rank, i) <= Skip(page) + PageLimit}

Pages(list) == (Cardinality(list) + PageSize - 1) \div PageSize

\* page: the last one read, 0 before the first; over: the client has read the
\* last page. The rest is history: the items seen, and how often one of them was
\* seen again; the items listed all the time and never moved; how many left the
\* list and how many came into it or to its front between the first page and now.
Idle == [page |-> 0, over |-> FALSE, filter |-> AnyItem, seen |-> {}, again |-> 0,
         steady |-> {}, left |-> 0, came |-> 0]

PagingInit == reader = Idle /\ month = 1

\* A client knows the last page by the number of pages, or by its being short.
ByCount(list)        == reader.page + 1 >= Pages(list)
ByLength(list, rank) == Cardinality(PageOf(list, rank, reader.page + 1)) < PageSize

ReadPage(f, list, rank, last) ==
  LET page == reader.page + 1
      on   == PageOf(list, rank, page) IN
  /\ ~reader.over
  /\ reader.page # 0 => f = reader.filter
  /\ reader' = [reader EXCEPT
       !.page = page, !.filter = f, !.over = last, !.seen = reader.seen \cup on,
       !.again = reader.again + Cardinality(on \cap reader.seen),
       !.steady = IF page = 1 THEN list ELSE reader.steady]
  /\ UNCHANGED month

\* What a write does to the list the client is reading.
ListMoves(before, after, front) ==
  reader' = IF reader.page = 0 \/ reader.over THEN reader
            ELSE [reader EXCEPT
              !.steady = (reader.steady \cap after) \ front,
              !.left = reader.left + Cardinality(before \ after),
              !.came = reader.came + Cardinality((front \cap after) \cup (after \ before))]

MonthEnds ==
  /\ month < MaxMonths
  /\ month' = month + 1
-----------------------------------------------------------------------------
PagingTypeOK ==
  /\ reader \in [page : 0..(MaxItems + 1), over : BOOLEAN,
                 filter : Filters({"POST", "DOCUMENT"},
                            {"GENERATING", "READY", "FAILED", "DRAFT", "SCHEDULED", "PUBLISHED"}),
                 seen : SUBSET Items, again : Nat, steady : SUBSET Items,
                 left : Nat, came : Nat]
  /\ month \in 1..MaxMonths

Missed == reader.steady \ reader.seen

\* A client that has read the list to its end has missed no more of the items
\* that stood still than have left the list meanwhile: an edit, a new item or a
\* finished run hides nothing but itself; and it has seen no more items again
\* than came into the list or to its front (listArtifacts, getPosts).
PagesCover ==
  /\ reader.over => Cardinality(Missed) <= reader.left
  /\ reader.again <= reader.came
=============================================================================
