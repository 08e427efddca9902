--------------------------- MODULE MCLibrary_proofs ---------------------------
(***************************************************************************)
(* Proofs about Paging, whose pages cover a list that moves, about Library   *)
(* and Feed, whose writes move one item of it, about the decks of Library,   *)
(* and about MCLibrary, in which one of them moves.                          *)
(*                                                                           *)
(* A place is a cardinality: how many items of the list have no larger rank. *)
(* A write moves one item, so that every other place changes by one at most, *)
(* and only across the reader where the moved item crossed it.               *)
(***************************************************************************)
EXTENDS MCLibrary, FiniteSetTheorems, TLAPS

-----------------------------------------------------------------------------
(* Places in a list *)

\* A list of items in a strict order.
Ranked(list, rank) ==
  /\ list \subseteq Items
  /\ \A i \in list : rank[i] \in Nat
  /\ \A i, j \in list : rank[i] = rank[j] => i = j

LEMMA ItemsFinite ==
  /\ IsFiniteSet(Items) /\ Items \subseteq Nat /\ MaxItems \in Nat /\ Cardinality(Items) = MaxItems
<1>1. MaxItems \in Nat
  BY PagingAssumption
<1>2. IsFiniteSet(1..MaxItems) /\ Cardinality(1..MaxItems) = MaxItems
  BY <1>1, FS_Interval
<1> QED
  BY <1>1, <1>2 DEF Items

LEMMA PartsFinite ==
  ASSUME NEW s, s \subseteq Items
  PROVE  IsFiniteSet(s) /\ Cardinality(s) \in Nat /\ Cardinality(s) <= MaxItems
<1>1. IsFiniteSet(s) /\ Cardinality(s) <= Cardinality(Items)
  BY ItemsFinite, FS_Subset
<1> QED
  BY <1>1, ItemsFinite, FS_CardinalityType

LEMMA PartsCounted ==
  ASSUME NEW s, NEW t, t \subseteq Items, s \subseteq t
  PROVE  Cardinality(s) <= Cardinality(t)
BY PartsFinite, FS_Subset

\* With one item more than s at most, a set is at most one larger.
LEMMA OneMore ==
  ASSUME NEW s, NEW t, s \subseteq Items, t \subseteq Items,
         \A i, j \in t \ s : i = j
  PROVE  Cardinality(t) <= Cardinality(s) + 1
<1>1. CASE t \subseteq s
  <2>1. Cardinality(t) <= Cardinality(s)
    BY <1>1, PartsCounted
  <2> QED BY <2>1, PartsFinite
<1>2. CASE ~ (t \subseteq s)
  <2>1. PICK i \in t : i \notin s
    BY <1>2
  <2>2. t \subseteq s \cup {i} /\ s \cup {i} \subseteq Items
    BY <2>1
  <2>3. Cardinality(t) <= Cardinality(s \cup {i})
    BY <2>2, PartsCounted
  <2>4. Cardinality(s \cup {i}) = Cardinality(s) + 1
    BY <2>1, PartsFinite, FS_AddElement
  <2> QED BY <2>3, <2>4
<1> QED
  BY <1>1, <1>2

LEMMA OneLess ==
  ASSUME NEW s, NEW t, s \subseteq Items, t \subseteq Items, s \cap t = {}
  PROVE  Cardinality(s \cup t) = Cardinality(s) + Cardinality(t)
<1>1. /\ IsFiniteSet(s) /\ IsFiniteSet(t) /\ Cardinality(s) \in Nat /\ Cardinality(t) \in Nat
  BY PartsFinite
<1>2. Cardinality(s \cup t) = Cardinality(s) + Cardinality(t) - Cardinality(s \cap t)
  BY <1>1, FS_Union
<1>3. Cardinality(s \cap t) = 0
  BY FS_EmptySet
<1> QED
  BY <1>1, <1>2, <1>3

\* The items up to i, of which its place is the number.
UpTo(list, rank, i) == {j \in list : rank[j] <= rank[i]}

LEMMA PlaceIs ==
  ASSUME NEW list, NEW rank, NEW i
  PROVE  Place(list, rank, i) = Cardinality(UpTo(list, rank, i))
BY DEF Place, UpTo

LEMMA PlaceType ==
  ASSUME NEW list, NEW rank, Ranked(list, rank), NEW i \in list
  PROVE  /\ Place(list, rank, i) \in Nat /\ Place(list, rank, i) >= 1
         /\ Place(list, rank, i) <= Cardinality(list)
<1>1. UpTo(list, rank, i) \subseteq list /\ i \in UpTo(list, rank, i) /\ list \subseteq Items
  BY DEF UpTo, Ranked
<1>2. /\ Cardinality(UpTo(list, rank, i)) \in Nat
      /\ Cardinality(UpTo(list, rank, i)) <= Cardinality(list)
      /\ IsFiniteSet(UpTo(list, rank, i))
  BY <1>1, PartsCounted, PartsFinite
<1>3. Cardinality(UpTo(list, rank, i)) # 0
  BY <1>1, <1>2, FS_EmptySet
<1> QED
  BY <1>2, <1>3, PlaceIs

LEMMA PlaceOrder ==
  ASSUME NEW list, NEW rank, Ranked(list, rank), NEW i \in list, NEW j \in list
  PROVE  /\ rank[i] < rank[j] => Place(list, rank, i) + 1 <= Place(list, rank, j)
         /\ Place(list, rank, i) = Place(list, rank, j) => i = j
         /\ Place(list, rank, i) <= Place(list, rank, j) <=> rank[i] <= rank[j]
<1>1. ASSUME NEW x \in list, NEW y \in list, rank[x] < rank[y]
      PROVE  Place(list, rank, x) + 1 <= Place(list, rank, y)
  <2>1. /\ UpTo(list, rank, x) \cup {y} \subseteq UpTo(list, rank, y)
        /\ y \notin UpTo(list, rank, x)
        /\ UpTo(list, rank, x) \subseteq Items /\ UpTo(list, rank, y) \subseteq Items
    BY <1>1 DEF UpTo, Ranked
  <2>2. Cardinality(UpTo(list, rank, x) \cup {y}) = Cardinality(UpTo(list, rank, x)) + 1
    BY <2>1, PartsFinite, FS_AddElement
  <2>3. Cardinality(UpTo(list, rank, x) \cup {y}) <= Cardinality(UpTo(list, rank, y))
    BY <2>1, PartsCounted
  <2> QED
    BY <2>2, <2>3, PlaceIs
<1>2. /\ Place(list, rank, i) \in Nat /\ Place(list, rank, j) \in Nat
      /\ rank[i] \in Nat /\ rank[j] \in Nat
  BY PlaceType DEF Ranked
<1>3. rank[i] = rank[j] => i = j
  BY DEF Ranked
<1>4. /\ rank[i] < rank[j] => Place(list, rank, i) + 1 <= Place(list, rank, j)
      /\ rank[j] < rank[i] => Place(list, rank, j) + 1 <= Place(list, rank, i)
  BY <1>1
<1> QED
  BY <1>2, <1>3, <1>4

\* No place is left out.
LEMMA PlacesFilled ==
  ASSUME NEW list, NEW rank, Ranked(list, rank), NEW n \in 1..Cardinality(list)
  PROVE  \E i \in list : Place(list, rank, i) = n
<1> DEFINE f == [i \in list |-> Place(list, rank, i)]
           T == 1..Cardinality(list)
<1>1. Cardinality(list) \in Nat
  BY PartsFinite DEF Ranked
<1>2. f \in [list -> T]
  BY <1>1, PlaceType
<1>3. f \in Injection(list, T)
  BY <1>2, PlaceOrder DEF Injection, IsInjective
<1>4. IsFiniteSet(T) /\ Cardinality(T) = Cardinality(list)
  BY <1>1, FS_Interval
<1> HIDE DEF f, T
<1>5. f \in Surjection(list, T)
  BY <1>3, <1>4, FS_Injection
<1> QED
  BY <1>5 DEF Surjection, f, T

\* How many places the pages up to this one cover.
Covered(page) == page * PageSize

\* What the product of two numbers is good for.
LEMMA PageBounds ==
  ASSUME NEW page \in Nat
  PROVE  /\ Covered(page) \in Nat /\ Covered(page) >= page
         /\ Covered(page + 1) = Covered(page) + PageSize
         /\ Covered(page) = 0 <=> page = 0
         /\ Skip(page + 1) = Covered(page) /\ PageLimit = PageSize
         /\ PageSize \in Nat \ {0}
<1>1. PageSize \in Nat \ {0}
  BY PagingAssumption
<1>2. \A x \in Nat, y \in Nat \ {0} : /\ x * y \in Nat /\ (x + 1) * y = x * y + y
                                      /\ x * y >= x /\ (x * y = 0 <=> x = 0)
  <2> SUFFICES ASSUME NEW x \in Nat, NEW y \in Nat \ {0}
               PROVE  /\ x * y \in Nat /\ (x + 1) * y = x * y + y
                      /\ x * y >= x /\ (x * y = 0 <=> x = 0)
    OBVIOUS
  <2>1. x * y \in Nat /\ (x + 1) * y = x * y + y
    OBVIOUS
  <2>2. x * y = x * (y - 1) + x /\ x * (y - 1) \in Nat
    OBVIOUS
  <2>3. x * y >= x
    BY <2>1, <2>2
  <2> QED BY <2>1, <2>3
<1>3. (page + 1) - 1 = page
  OBVIOUS
<1> QED
  BY <1>1, <1>2, <1>3 DEF Covered, Skip, PageLimit

LEMMA PageIs ==
  ASSUME NEW list, NEW rank, NEW page \in Nat
  PROVE  PageOf(list, rank, page + 1) =
           {i \in list : /\ Covered(page) < Place(list, rank, i)
                         /\ Place(list, rank, i) <= Covered(page + 1)}
<1>1. Skip(page + 1) = Covered(page) /\ Skip(page + 1) + PageLimit = Covered(page + 1)
  BY PageBounds
<1> QED
  BY <1>1 DEF PageOf

\* A page before the end of the list is full.
LEMMA PageFull ==
  ASSUME NEW list, NEW rank, Ranked(list, rank), NEW page \in Nat,
         Covered(page + 1) <= Cardinality(list)
  PROVE  Cardinality(PageOf(list, rank, page + 1)) = PageSize
<1> DEFINE on == PageOf(list, rank, page + 1)
           a == Covered(page)
           b == Covered(page + 1)
           T == (a + 1)..b
           f == [i \in on |-> Place(list, rank, i)]
<1>1. /\ a \in Nat /\ b = a + PageSize /\ PageSize \in Nat \ {0}
      /\ on = {i \in list : a < Place(list, rank, i) /\ Place(list, rank, i) <= b}
      /\ Cardinality(list) \in Nat
  BY PageBounds, PageIs, PartsFinite DEF Ranked
<1>2. IsFiniteSet(T) /\ Cardinality(T) = PageSize
  <2>1. a + 1 \in Int /\ b \in Int /\ ~(a + 1 > b) /\ b - (a + 1) + 1 = PageSize
    BY <1>1
  <2> HIDE DEF a, b
  <2> QED BY <2>1, FS_Interval
<1> HIDE DEF a, b, on
<1>3. f \in [on -> T]
  BY <1>1, PlaceType
<1>4. f \in Injection(on, T)
  BY <1>1, <1>3, PlaceOrder DEF Injection, IsInjective
<1>5. ASSUME NEW n \in T
      PROVE  \E i \in on : f[i] = n
  <2>1. n \in 1..Cardinality(list) /\ a < n /\ n <= b
    BY <1>1 DEF b
  <2>2. PICK i \in list : Place(list, rank, i) = n
    BY <2>1, PlacesFilled
  <2>3. i \in on
    BY <1>1, <2>1, <2>2
  <2> QED BY <2>2, <2>3
<1>6. f \in Surjection(on, T)
  BY <1>3, <1>5 DEF Surjection
<1> HIDE DEF f, T
<1>7. Cardinality(on) = Cardinality(T)
  BY <1>2, <1>4, <1>6, FS_Injection
<1> QED
  BY <1>2, <1>7 DEF on

-----------------------------------------------------------------------------
(* Reading *)

\* A client does not read more pages than one after its items.
Readers(rd) ==
  /\ rd \in [page : 0..(MaxItems + 1), over : BOOLEAN,
             filter : Filters({"POST", "DOCUMENT"},
                        {"GENERATING", "READY", "FAILED", "DRAFT", "SCHEDULED", "PUBLISHED"}),
             seen : SUBSET Items, again : Nat, steady : SUBSET Items,
             left : Nat, came : Nat]
  /\ rd.over \/ rd.page <= MaxItems

\* What has been read by now, and what could be missed or seen again.
Skipped(rd, list, rank) ==
  {i \in rd.steady : i \notin rd.seen /\ Place(list, rank, i) <= Covered(rd.page)}
Repeated(rd, list, rank) ==
  {i \in list : i \in rd.seen /\ Place(list, rank, i) > Covered(rd.page)}

\* Between two pages: an item was skipped for each that left, and one that was
\* seen stands before the reader again for each that came.
Amid(rd, list, rank) ==
  /\ rd.steady \subseteq list
  /\ Cardinality(Skipped(rd, list, rank)) <= rd.left
  /\ rd.again + Cardinality(Repeated(rd, list, rank)) <= rd.came

\* PagesCover, of one reader.
Covers(rd) ==
  /\ rd.over => Cardinality(rd.steady \ rd.seen) <= rd.left
  /\ rd.again <= rd.came

\* A client that has begun is amid a list, or has read it to its end.
ReaderInv(rd, list, rank) ==
  /\ Readers(rd)
  /\ rd.page = 0 => rd = Idle
  /\ rd.page # 0 /\ ~rd.over => Amid(rd, list, rank)
  /\ Covers(rd)

LEMMA ReaderParts ==
  ASSUME NEW rd, Readers(rd)
  PROVE  /\ rd.page \in Nat /\ rd.page <= MaxItems + 1 /\ rd.over \in BOOLEAN
         /\ rd.seen \subseteq Items /\ rd.steady \subseteq Items
         /\ rd.again \in Nat /\ rd.left \in Nat /\ rd.came \in Nat
BY ItemsFinite DEF Readers

LEMMA IdleReader ==
  ASSUME NEW list, NEW rank
  PROVE  ReaderInv(Idle, list, rank)
<1>1. /\ Idle.page = 0 /\ Idle.over = FALSE /\ Idle.filter = AnyItem /\ Idle.seen = {}
      /\ Idle.again = 0 /\ Idle.steady = {} /\ Idle.left = 0 /\ Idle.came = 0
  BY DEF Idle
<1>2. Readers(Idle)
  <2>1. \A ts, ss : AnyItem \in Filters(ts, ss)
    BY DEF Filters
  <2>2. 0 \in 0..(MaxItems + 1) /\ 0 <= MaxItems
    BY ItemsFinite
  <2> QED BY <2>1, <2>2 DEF Readers, Idle
<1> QED
  BY <1>1, <1>2 DEF ReaderInv, Covers

\* A reader gets the next page.
Reads(rd, f, on, list, last) ==
  [rd EXCEPT !.page = rd.page + 1, !.filter = f, !.over = last, !.seen = rd.seen \cup on,
     !.again = rd.again + Cardinality(on \cap rd.seen),
     !.steady = IF rd.page + 1 = 1 THEN list ELSE rd.steady]

LEMMA ReadsFields ==
  ASSUME NEW rd, Readers(rd), NEW f, NEW on, NEW list, NEW last
  PROVE  /\ Reads(rd, f, on, list, last).page = rd.page + 1
         /\ Reads(rd, f, on, list, last).filter = f
         /\ Reads(rd, f, on, list, last).over = last
         /\ Reads(rd, f, on, list, last).seen = rd.seen \cup on
         /\ Reads(rd, f, on, list, last).again = rd.again + Cardinality(on \cap rd.seen)
         /\ Reads(rd, f, on, list, last).steady = IF rd.page = 0 THEN list ELSE rd.steady
         /\ Reads(rd, f, on, list, last).left = rd.left
         /\ Reads(rd, f, on, list, last).came = rd.came
<1>1. rd.page \in Nat
  BY ReaderParts
<1>2. rd.page + 1 = 1 <=> rd.page = 0
  BY <1>1
<1> QED
  BY <1>2 DEF Reads, Readers

LEMMA ReadsType ==
  ASSUME NEW rd, Readers(rd), rd.page <= MaxItems, NEW on, on \subseteq Items,
         NEW list, list \subseteq Items, NEW last \in BOOLEAN,
         NEW f \in Filters({"POST", "DOCUMENT"},
                     {"GENERATING", "READY", "FAILED", "DRAFT", "SCHEDULED", "PUBLISHED"}),
         last \/ rd.page + 1 <= MaxItems
  PROVE  Readers(Reads(rd, f, on, list, last))
<1>1. rd.page \in Nat /\ MaxItems \in Nat /\ rd.page + 1 \in 0..(MaxItems + 1)
  BY ReaderParts, ItemsFinite
<1>2. rd.seen \cup on \in SUBSET Items
  BY ReaderParts
<1>3. rd.again + Cardinality(on \cap rd.seen) \in Nat
  <2>1. on \cap rd.seen \subseteq Items
    OBVIOUS
  <2> QED BY <2>1, PartsFinite, ReaderParts
<1>4. (IF rd.page + 1 = 1 THEN list ELSE rd.steady) \in SUBSET Items
  BY ReaderParts
<1>5. Reads(rd, f, on, list, last) \in [page : 0..(MaxItems + 1), over : BOOLEAN,
         filter : Filters({"POST", "DOCUMENT"},
                    {"GENERATING", "READY", "FAILED", "DRAFT", "SCHEDULED", "PUBLISHED"}),
         seen : SUBSET Items, again : Nat, steady : SUBSET Items, left : Nat, came : Nat]
  BY <1>1, <1>2, <1>3, <1>4 DEF Reads, Readers
<1> DEFINE r2 == Reads(rd, f, on, list, last)
<1>6. r2.over = last /\ r2.page = rd.page + 1
  BY DEF Reads, Readers
<1> HIDE DEF r2
<1>7. r2.over \/ r2.page <= MaxItems
  BY <1>6
<1> QED
  BY <1>5, <1>7 DEF Readers, r2

\* The places read before stay read: nothing is skipped by a page, and what it
\* shows again stood before the reader.
LEMMA PageKeeps ==
  ASSUME NEW list, NEW rank, Ranked(list, rank), NEW rd, Readers(rd), NEW f, NEW last,
         rd.page = 0 => rd = Idle, rd.page # 0 => Amid(rd, list, rank)
  PROVE  Amid(Reads(rd, f, PageOf(list, rank, rd.page + 1), list, last), list, rank)
<1> DEFINE on == PageOf(list, rank, rd.page + 1)
           r2 == Reads(rd, f, on, list, last)
           a == Covered(rd.page)
           b == Covered(rd.page + 1)
<1> SUFFICES Amid(r2, list, rank)
  OBVIOUS
<1>0. rd.page \in Nat
  BY ReaderParts
<1>1. /\ a \in Nat /\ b = a + PageSize /\ PageSize \in Nat
      /\ on = {i \in list : a < Place(list, rank, i) /\ Place(list, rank, i) <= b}
      /\ \A i \in list : Place(list, rank, i) \in Nat /\ Place(list, rank, i) >= 1
      /\ rd.page = 0 => a = 0
      /\ list \subseteq Items
  <2>1. a \in Nat /\ b = a + PageSize /\ PageSize \in Nat /\ (rd.page = 0 => a = 0)
    BY <1>0, PageBounds
  <2>2. on = {i \in list : a < Place(list, rank, i) /\ Place(list, rank, i) <= b}
    BY <1>0, PageIs
  <2>3. \A i \in list : Place(list, rank, i) \in Nat /\ Place(list, rank, i) >= 1
    BY PlaceType
  <2> QED BY <2>1, <2>2, <2>3 DEF Ranked
<1> HIDE DEF on, a, b
<1>2. /\ r2.page = rd.page + 1 /\ r2.seen = rd.seen \cup on
      /\ r2.again = rd.again + Cardinality(on \cap rd.seen)
      /\ r2.steady = IF rd.page = 0 THEN list ELSE rd.steady
      /\ r2.left = rd.left /\ r2.came = rd.came
  BY ReadsFields
<1>3. /\ rd.seen \subseteq Items /\ rd.steady \subseteq Items
      /\ rd.again \in Nat /\ rd.left \in Nat /\ rd.came \in Nat
  BY ReaderParts
<1>4. rd.page = 0 => rd.seen = {} /\ rd.again = 0 /\ rd.left = 0 /\ rd.came = 0
  BY DEF Idle
<1> DEFINE K == Skipped(r2, list, rank)
           A == Repeated(r2, list, rank)
           K0 == Skipped(rd, list, rank)
           A0 == Repeated(rd, list, rank)
<1> HIDE DEF r2
<1>5. r2.steady \subseteq list
  BY <1>2 DEF Amid
<1>6. /\ K = {i \in r2.steady : i \notin r2.seen /\ Place(list, rank, i) <= b}
      /\ K0 = {i \in rd.steady : i \notin rd.seen /\ Place(list, rank, i) <= a}
      /\ A = {i \in list : i \in r2.seen /\ Place(list, rank, i) > b}
      /\ A0 = {i \in list : i \in rd.seen /\ Place(list, rank, i) > a}
  BY <1>2 DEF Skipped, Repeated, a, b
<1> HIDE DEF K, A, K0, A0
<1>7. CASE rd.page = 0
  <2>1. K = {}
    BY <1>1, <1>2, <1>5, <1>6, <1>7
  <2>2. A = {}
    BY <1>1, <1>2, <1>4, <1>6, <1>7
  <2>3. on \cap rd.seen = {}
    BY <1>4, <1>7
  <2>4. Cardinality({}) = 0
    BY FS_EmptySet
  <2>5. r2.again = 0 /\ r2.left = 0 /\ r2.came = 0
    <3>1. Cardinality(on \cap rd.seen) = 0
      BY <2>3, <2>4
    <3>2. rd.again = 0 /\ rd.left = 0 /\ rd.came = 0
      BY <1>4, <1>7
    <3> QED BY <3>1, <3>2, <1>2
  <2>6. Cardinality(K) <= r2.left /\ r2.again + Cardinality(A) <= r2.came
    BY <2>1, <2>2, <2>4, <2>5
  <2> QED
    BY <2>6, <1>5 DEF Amid, K, A
<1>8. CASE rd.page # 0
  <2>1. /\ Cardinality(K0) <= rd.left /\ rd.again + Cardinality(A0) <= rd.came
    BY <1>8 DEF Amid, K0, A0
  <2>2. K \subseteq K0 /\ K0 \subseteq Items
    BY <1>1, <1>2, <1>3, <1>5, <1>6, <1>8
  <2>3. Cardinality(K) <= Cardinality(K0) /\ Cardinality(K) \in Nat /\ Cardinality(K0) \in Nat
    BY <2>2, PartsCounted, PartsFinite
  <2> DEFINE o == on \cap rd.seen
  <2>4. A \cup o \subseteq A0 /\ A \cap o = {} /\ A0 \subseteq Items
    BY <1>1, <1>2, <1>6
  <2> HIDE DEF o
  <2>5. /\ Cardinality(A \cup o) = Cardinality(A) + Cardinality(o)
        /\ Cardinality(A \cup o) <= Cardinality(A0)
        /\ Cardinality(A) \in Nat /\ Cardinality(o) \in Nat /\ Cardinality(A0) \in Nat
    <3>1. A \subseteq Items /\ o \subseteq Items /\ A \cup o \subseteq Items
      BY <2>4
    <3>2. Cardinality(A \cup o) = Cardinality(A) + Cardinality(o)
      BY <3>1, <2>4, OneLess
    <3>3. Cardinality(A \cup o) <= Cardinality(A0)
      BY <2>4, PartsCounted
    <3> QED BY <3>1, <3>2, <3>3, <2>4, PartsFinite
  <2>6. Cardinality(K) <= r2.left
    BY <2>1, <2>3, <1>2, <1>3
  <2>7. r2.again + Cardinality(A) <= r2.came
    BY <2>1, <2>5, <1>2, <1>3 DEF o
  <2> QED
    BY <2>6, <2>7, <1>5 DEF Amid, K, A
<1> QED
  BY <1>7, <1>8

\* The last page is the first that covers the list.
LEMMA PagesDivide ==
  ASSUME NEW c \in Nat, NEW n \in Nat
  PROVE  /\ n >= (c + PageSize - 1) \div PageSize => c <= n * PageSize
         /\ n < (c + PageSize - 1) \div PageSize => n < c
<1>1. PageSize \in Nat \ {0}
  BY PagingAssumption
<1> DEFINE q == (c + PageSize - 1) \div PageSize
           m == (c + PageSize - 1) % PageSize
<1>2. q \in Nat /\ m \in Nat /\ m <= PageSize - 1 /\ c + PageSize - 1 = PageSize * q + m
  BY <1>1
<1>3. q <= c
  BY <1>1
<1>4. c <= PageSize * q /\ PageSize * q \in Nat
  BY <1>1, <1>2
<1>5. \A x \in Nat, y \in Nat, p \in Nat : x <= y => p * x <= y * p
  OBVIOUS
<1> HIDE DEF q, m
<1>6. n >= q => PageSize * q <= n * PageSize
  BY <1>1, <1>2, <1>5
<1>7. n * PageSize \in Nat
  BY <1>1
<1>8. n >= q => c <= n * PageSize
  <2> DEFINE u == PageSize * q
             w == n * PageSize
  <2>1. c <= u /\ u \in Nat /\ w \in Nat /\ (n >= q => u <= w)
    BY <1>4, <1>6, <1>7
  <2> HIDE DEF u, w
  <2>2. n >= q => c <= w
    BY <2>1
  <2> QED BY <2>2 DEF w
<1>9. n < q => n < c
  BY <1>2, <1>3
<1> QED
  BY <1>8, <1>9 DEF q

\* What both ways to know the last page have to tell.
Telling(page, list, last) ==
  /\ last \in BOOLEAN
  /\ last => Cardinality(list) <= Covered(page + 1)
  /\ ~last => page + 1 <= MaxItems

LEMMA CountTells ==
  ASSUME NEW list, NEW rank, Ranked(list, rank), Readers(reader)
  PROVE  Telling(reader.page, list, ByCount(list))
<1>1. /\ reader.page \in Nat /\ Cardinality(list) \in Nat /\ Cardinality(list) <= MaxItems
      /\ MaxItems \in Nat
  BY ReaderParts, PartsFinite, ItemsFinite DEF Ranked
<1> DEFINE n == reader.page + 1
           c == Cardinality(list)
<1>2. n \in Nat /\ c \in Nat
  BY <1>1
<1>3. /\ n >= Pages(list) => c <= Covered(n)
      /\ n < Pages(list) => n < c
  <2> HIDE DEF n
  <2>1. Pages(list) = (c + PageSize - 1) \div PageSize /\ Covered(n) = n * PageSize
    BY DEF Pages, Covered
  <2> HIDE DEF c
  <2> QED BY <2>1, <1>2, PagesDivide
<1>4. Pages(list) \in Nat
  BY <1>1, PagingAssumption DEF Pages
<1>5. ByCount(list) <=> n >= Pages(list)
  BY DEF ByCount
<1>6. ByCount(list) \in BOOLEAN
  BY DEF ByCount
<1>7. ~ByCount(list) => n < Pages(list)
  BY <1>2, <1>4, <1>5
<1>8. ~ByCount(list) => n <= MaxItems
  BY <1>1, <1>2, <1>3, <1>7
<1> QED
  BY <1>3, <1>5, <1>6, <1>8 DEF Telling

LEMMA LengthTells ==
  ASSUME NEW list, NEW rank, Ranked(list, rank), Readers(reader)
  PROVE  Telling(reader.page, list, ByLength(list, rank))
<1> DEFINE page == reader.page
           on == PageOf(list, rank, page + 1)
           last == ByLength(list, rank)
<1>1. /\ page \in Nat /\ Cardinality(list) \in Nat /\ Cardinality(list) <= MaxItems
      /\ MaxItems \in Nat /\ list \subseteq Items
  BY ReaderParts, PartsFinite, ItemsFinite DEF Ranked
<1>2. /\ Covered(page) \in Nat /\ Covered(page) >= page /\ Covered(page + 1) \in Nat
      /\ PageSize \in Nat \ {0}
  BY <1>1, PageBounds
<1>3. on = {i \in list : Covered(page) < Place(list, rank, i) /\ Place(list, rank, i) <= Covered(page + 1)}
  BY <1>1, PageIs
<1>4. last \in BOOLEAN /\ (last <=> Cardinality(on) < PageSize)
  BY DEF ByLength
<1>5. last => Cardinality(list) <= Covered(page + 1)
  <2>1. Covered(page + 1) <= Cardinality(list) => Cardinality(on) = PageSize
    BY <1>1, PageFull
  <2> QED
    BY <2>1, <1>1, <1>2, <1>4
<1>6. ~last => page + 1 <= MaxItems
  <2> SUFFICES ASSUME ~last
               PROVE  page + 1 <= MaxItems
    OBVIOUS
  <2>1. on \subseteq Items /\ Cardinality(on) \in Nat
    BY <1>1, <1>3, PartsFinite
  <2>2. Cardinality(on) # 0
    BY <2>1, <1>2, <1>4
  <2>3. PICK i \in on : TRUE
    BY <2>1, <2>2, FS_EmptySet
  <2>4. i \in list /\ Covered(page) < Place(list, rank, i)
    BY <2>3, <1>3
  <2>5. Place(list, rank, i) \in Nat /\ Place(list, rank, i) <= Cardinality(list)
    BY <2>4, PlaceType
  <2> HIDE DEF page
  <2> QED
    BY <2>4, <2>5, <1>1, <1>2
<1> QED
  BY <1>4, <1>5, <1>6 DEF Telling

LEMMA ReaderReads ==
  ASSUME NEW list, NEW rank, Ranked(list, rank), NEW rd, ReaderInv(rd, list, rank), ~rd.over,
         NEW last, Telling(rd.page, list, last),
         NEW f \in Filters({"POST", "DOCUMENT"},
                     {"GENERATING", "READY", "FAILED", "DRAFT", "SCHEDULED", "PUBLISHED"})
  PROVE  ReaderInv(Reads(rd, f, PageOf(list, rank, rd.page + 1), list, last), list, rank)
<1> DEFINE on == PageOf(list, rank, rd.page + 1)
           r2 == Reads(rd, f, on, list, last)
<1> SUFFICES ReaderInv(r2, list, rank)
  OBVIOUS
<1>1. /\ Readers(rd) /\ rd.page \in Nat /\ rd.page <= MaxItems /\ list \subseteq Items
      /\ rd.page = 0 => rd = Idle
      /\ rd.page # 0 => Amid(rd, list, rank)
      /\ last \in BOOLEAN
  BY ReaderParts DEF ReaderInv, Ranked, Telling, Readers
<1>2. on \subseteq list
  BY DEF PageOf
<1>3. Amid(r2, list, rank)
  BY <1>1, PageKeeps
<1>4. Readers(r2)
  <2>1. last \/ rd.page + 1 <= MaxItems
    BY DEF Telling
  <2> HIDE DEF on
  <2> QED BY <1>1, <1>2, <2>1, ReadsType
<1>5. r2.page = rd.page + 1 /\ (r2.over <=> last) /\ r2.over = last
  <2> HIDE DEF on
  <2> QED BY <1>1 DEF Reads, Readers
<1> HIDE DEF r2, on
<1>6. Covers(r2)
  <2>1. /\ r2.steady \subseteq Items /\ r2.again \in Nat /\ r2.left \in Nat /\ r2.came \in Nat
    BY <1>4, ReaderParts
  <2>2. Repeated(r2, list, rank) \subseteq Items /\ Skipped(r2, list, rank) \subseteq Items
    BY <1>1, <2>1 DEF Repeated, Skipped
  <2>3. r2.again <= r2.came
    <3>1. Cardinality(Repeated(r2, list, rank)) \in Nat
      BY <2>2, PartsFinite
    <3> QED BY <3>1, <2>1, <1>3 DEF Amid
  <2>4. ASSUME last
        PROVE  Cardinality(r2.steady \ r2.seen) <= r2.left
    <3>1. Cardinality(list) <= Covered(rd.page + 1) /\ Covered(rd.page + 1) \in Nat
      BY <2>4, <1>1, PageBounds DEF Telling
    <3>2. \A i \in list : Place(list, rank, i) \in Nat /\ Place(list, rank, i) <= Cardinality(list)
      BY PlaceType
    <3>3. Cardinality(list) \in Nat
      BY <1>1, PartsFinite
    <3>4. r2.steady \ r2.seen \subseteq Skipped(r2, list, rank)
      <4>1. r2.steady \subseteq list
        BY <1>3 DEF Amid
      <4>2. \A i \in list : Place(list, rank, i) <= Covered(r2.page)
        BY <3>1, <3>2, <3>3, <1>5
      <4> QED BY <4>1, <4>2 DEF Skipped
    <3>5. Cardinality(r2.steady \ r2.seen) <= Cardinality(Skipped(r2, list, rank))
      BY <3>4, <2>2, PartsCounted
    <3>6. Cardinality(Skipped(r2, list, rank)) \in Nat /\ Cardinality(r2.steady \ r2.seen) \in Nat
      <4>1. r2.steady \ r2.seen \subseteq Items
        BY <2>1
      <4> QED BY <4>1, <2>2, PartsFinite
    <3> QED BY <3>5, <3>6, <1>3, <2>1 DEF Amid
  <2> QED
    BY <2>3, <2>4, <1>5 DEF Covers
<1> QED
  BY <1>1, <1>3, <1>4, <1>5, <1>6 DEF ReaderInv

-----------------------------------------------------------------------------
(* One item moves *)

\* Only i moves: from a list into it, out of it, to its front, or not at all.
OneMoves(list, rank, after, rank2, i, front) ==
  /\ Ranked(list, rank) /\ Ranked(after, rank2)
  /\ front \subseteq {i}
  /\ list \ {i} = after \ {i}
  /\ \A j, k \in list \ {i} : rank[j] <= rank[k] <=> rank2[j] <= rank2[k]
  /\ i \in front /\ i \in after => \A j \in after : rank2[i] <= rank2[j]
  /\ front = {} /\ i \in list /\ i \in after => \A j \in list : rank2[j] = rank[j]

\* What i adds to the place of j.
Before(list, rank, i, j) == IF i \in list /\ rank[i] <= rank[j] THEN 1 ELSE 0

LEMMA PlaceWithout ==
  ASSUME NEW list, NEW rank, list \subseteq Items, NEW i, NEW j
  PROVE  /\ Cardinality(UpTo(list, rank, j) \ {i}) \in Nat
         /\ Place(list, rank, j)
              = Cardinality(UpTo(list, rank, j) \ {i}) + Before(list, rank, i, j)
<1> DEFINE u == UpTo(list, rank, j)
<1>1. u \subseteq Items /\ (i \in u <=> i \in list /\ rank[i] <= rank[j])
  BY DEF UpTo
<1>2. IsFiniteSet(u) /\ Cardinality(u) \in Nat
  BY <1>1, PartsFinite
<1> HIDE DEF u
<1>3. /\ Cardinality(u \ {i}) = IF i \in u THEN Cardinality(u) - 1 ELSE Cardinality(u)
      /\ IsFiniteSet(u \ {i})
  BY <1>2, FS_RemoveElement
<1>4. Cardinality(u \ {i}) \in Nat
  BY <1>3, FS_CardinalityType
<1>5. Place(list, rank, j) = Cardinality(u)
  BY PlaceIs DEF u
<1> QED
  BY <1>1, <1>2, <1>3, <1>4, <1>5 DEF Before, u

LEMMA PlaceMoves ==
  ASSUME NEW list, NEW rank, NEW after, NEW rank2, NEW i, NEW front,
         OneMoves(list, rank, after, rank2, i, front), NEW j \in list \ {i}
  PROVE  \E n \in Nat : /\ Place(list, rank, j) = n + Before(list, rank, i, j)
                        /\ Place(after, rank2, j) = n + Before(after, rank2, i, j)
<1>1. UpTo(list, rank, j) \ {i} = UpTo(after, rank2, j) \ {i}
  BY DEF OneMoves, UpTo
<1>2. list \subseteq Items /\ after \subseteq Items
  BY DEF OneMoves, Ranked
<1> DEFINE n == Cardinality(UpTo(list, rank, j) \ {i})
<1>3. n \in Nat /\ Place(list, rank, j) = n + Before(list, rank, i, j)
  BY <1>2, PlaceWithout
<1>4. Place(after, rank2, j)
        = Cardinality(UpTo(after, rank2, j) \ {i}) + Before(after, rank2, i, j)
  BY <1>2, PlaceWithout
<1>5. Place(after, rank2, j) = n + Before(after, rank2, i, j)
  BY <1>1, <1>4
<1> HIDE DEF n
<1> QED
  BY <1>3, <1>5

\* What the writer of an item does to the reader of the list.
Sees(rd, before, after, front) ==
  [rd EXCEPT !.steady = (rd.steady \cap after) \ front,
     !.left = rd.left + Cardinality(before \ after),
     !.came = rd.came + Cardinality((front \cap after) \cup (after \ before))]

LEMMA SeesFields ==
  ASSUME NEW rd, Readers(rd), NEW before, NEW after, NEW front,
         before \subseteq Items, after \subseteq Items
  PROVE  /\ Readers(Sees(rd, before, after, front))
         /\ Sees(rd, before, after, front).page = rd.page
         /\ Sees(rd, before, after, front).over = rd.over
         /\ Sees(rd, before, after, front).seen = rd.seen
         /\ Sees(rd, before, after, front).again = rd.again
         /\ Sees(rd, before, after, front).steady = (rd.steady \cap after) \ front
         /\ Sees(rd, before, after, front).left = rd.left + Cardinality(before \ after)
         /\ Sees(rd, before, after, front).came
              = rd.came + Cardinality((front \cap after) \cup (after \ before))
<1> DEFINE x == (rd.steady \cap after) \ front
           y == rd.left + Cardinality(before \ after)
           z == rd.came + Cardinality((front \cap after) \cup (after \ before))
<1>1. x \in SUBSET Items
  BY ReaderParts
<1>2. y \in Nat
  <2>1. before \ after \subseteq Items
    OBVIOUS
  <2> QED BY <2>1, PartsFinite, ReaderParts
<1>3. z \in Nat
  <2>1. (front \cap after) \cup (after \ before) \subseteq Items
    OBVIOUS
  <2> QED BY <2>1, PartsFinite, ReaderParts
<1> HIDE DEF x, y, z
<1> QED
  BY <1>1, <1>2, <1>3 DEF Sees, Readers, x, y, z

\* A write skips one item more at most if i leaves, and none if it stays; it puts one
\* more of the items seen before the reader at most if i comes, and none if not.
LEMMA ReaderSees ==
  ASSUME NEW list, NEW rank, NEW after, NEW rank2, NEW i, NEW front,
         OneMoves(list, rank, after, rank2, i, front),
         NEW rd, Readers(rd), rd.page # 0, Amid(rd, list, rank)
  PROVE  Amid(Sees(rd, list, after, front), after, rank2)
<1> DEFINE r2 == Sees(rd, list, after, front)
           s == Covered(rd.page)
           K == Skipped(r2, after, rank2)
           A == Repeated(r2, after, rank2)
           K0 == Skipped(rd, list, rank)
           A0 == Repeated(rd, list, rank)
<1>1. list \subseteq Items /\ after \subseteq Items /\ Ranked(list, rank) /\ Ranked(after, rank2)
  BY DEF OneMoves, Ranked
<1>2. s \in Nat /\ s >= 1
  BY ReaderParts, PageBounds
<1>3. /\ r2.page = rd.page /\ r2.seen = rd.seen /\ r2.again = rd.again
      /\ r2.steady = (rd.steady \cap after) \ front
      /\ r2.left = rd.left + Cardinality(list \ after)
      /\ r2.came = rd.came + Cardinality((front \cap after) \cup (after \ list))
  <2> HIDE DEF s, K, A, K0, A0
  <2> QED BY DEF Sees, Readers
<1>4. /\ rd.seen \subseteq Items /\ rd.steady \subseteq list
      /\ rd.again \in Nat /\ rd.left \in Nat /\ rd.came \in Nat
      /\ Cardinality(K0) <= rd.left /\ rd.again + Cardinality(A0) <= rd.came
  BY ReaderParts DEF Amid
<1> SUFFICES Amid(r2, after, rank2)
  OBVIOUS
<1> HIDE DEF r2
<1>5. /\ K = {j \in r2.steady : j \notin rd.seen /\ Place(after, rank2, j) <= s}
      /\ K0 = {j \in rd.steady : j \notin rd.seen /\ Place(list, rank, j) <= s}
      /\ A = {j \in after : j \in rd.seen /\ Place(after, rank2, j) > s}
      /\ A0 = {j \in list : j \in rd.seen /\ Place(list, rank, j) > s}
  BY <1>3 DEF Skipped, Repeated
<1> HIDE DEF s, K, A, K0, A0
<1>6. r2.steady \subseteq after
  BY <1>3
<1>7. /\ K \subseteq Items /\ K0 \subseteq Items /\ A \subseteq Items /\ A0 \subseteq Items
      /\ Cardinality(K) \in Nat /\ Cardinality(K0) \in Nat
      /\ Cardinality(A) \in Nat /\ Cardinality(A0) \in Nat
  <2>1. K \subseteq Items /\ K0 \subseteq Items /\ A \subseteq Items /\ A0 \subseteq Items
    BY <1>1, <1>4, <1>5, <1>6
  <2> QED BY <2>1, PartsFinite
<1>8. /\ list \ {i} = after \ {i} /\ front \subseteq {i}
      /\ i \in front /\ i \in after => \A j \in after : rank2[i] <= rank2[j]
      /\ front = {} /\ i \in list /\ i \in after => \A j \in list : rank2[j] = rank[j]
  BY DEF OneMoves
<1>9. /\ \A j \in list : Place(list, rank, j) \in Nat /\ rank[j] \in Nat
      /\ \A j \in after : Place(after, rank2, j) \in Nat /\ rank2[j] \in Nat
  BY <1>1, PlaceType DEF Ranked
<1>10. /\ \A j, k \in list : Place(list, rank, j) = Place(list, rank, k) => j = k
       /\ \A j, k \in after : Place(after, rank2, j) = Place(after, rank2, k) => j = k
  BY <1>1, PlaceOrder
\* Another item moves by one place at most, and by which depends on i.
<1>11. \A j \in list \ {i} :
         /\ Place(after, rank2, j) <= s /\ ~(Place(list, rank, j) <= s) =>
              /\ Place(list, rank, j) = s + 1
              /\ Before(list, rank, i, j) = 1 /\ Before(after, rank2, i, j) = 0
         /\ Place(after, rank2, j) > s /\ ~(Place(list, rank, j) > s) =>
              /\ Place(list, rank, j) = s /\ Place(after, rank2, j) = s + 1
              /\ Before(list, rank, i, j) = 0 /\ Before(after, rank2, i, j) = 1
  <2> SUFFICES ASSUME NEW j \in list \ {i}
               PROVE  /\ Place(after, rank2, j) <= s /\ ~(Place(list, rank, j) <= s) =>
                           /\ Place(list, rank, j) = s + 1
                           /\ Before(list, rank, i, j) = 1 /\ Before(after, rank2, i, j) = 0
                      /\ Place(after, rank2, j) > s /\ ~(Place(list, rank, j) > s) =>
                           /\ Place(list, rank, j) = s /\ Place(after, rank2, j) = s + 1
                           /\ Before(list, rank, i, j) = 0 /\ Before(after, rank2, i, j) = 1
    OBVIOUS
  <2>1. PICK n \in Nat : /\ Place(list, rank, j) = n + Before(list, rank, i, j)
                         /\ Place(after, rank2, j) = n + Before(after, rank2, i, j)
    BY PlaceMoves
  <2>2. Before(list, rank, i, j) \in {0, 1} /\ Before(after, rank2, i, j) \in {0, 1}
    BY DEF Before
  <2> QED
    BY <2>1, <2>2, <1>2
<1>12. /\ \A j : Before(list, rank, i, j) = 1 => i \in list
       /\ \A j : Before(after, rank2, i, j) = 1 => i \in after /\ rank2[i] <= rank2[j]
       /\ \A j : Before(after, rank2, i, j) = 0 => i \notin after \/ ~(rank2[i] <= rank2[j])
       /\ \A j : Before(list, rank, i, j) = 0 => i \notin list \/ ~(rank[i] <= rank[j])
  BY DEF Before
\* Where nothing leaves, nothing is skipped.
<1>13. i \in after \/ i \notin list => K \subseteq K0
  <2> SUFFICES ASSUME i \in after \/ i \notin list, NEW j \in K
               PROVE  j \in K0
    OBVIOUS
  <2>1. j \in rd.steady /\ j \in after /\ j \notin front /\ j \notin rd.seen
        /\ Place(after, rank2, j) <= s /\ j \in list
    BY <1>3, <1>4, <1>5
  <2>2. CASE j = i
    <3>1. front = {} /\ after = list /\ \A k \in list : rank2[k] = rank[k]
      BY <2>1, <2>2, <1>8
    <3>2. UpTo(after, rank2, j) = UpTo(list, rank, j)
      BY <3>1, <2>1 DEF UpTo
    <3> QED BY <3>2, <2>1, <1>5, PlaceIs
  <2>3. CASE j # i
    <3>1. ~(Place(list, rank, j) <= s) =>
             Before(list, rank, i, j) = 1 /\ Before(after, rank2, i, j) = 0
      BY <2>1, <2>3, <1>11
    <3>2. ~(Before(list, rank, i, j) = 1 /\ Before(after, rank2, i, j) = 0)
      <4> SUFFICES ASSUME Before(list, rank, i, j) = 1, Before(after, rank2, i, j) = 0
                   PROVE  FALSE
        OBVIOUS
      <4>1. i \in list /\ rank[i] <= rank[j] /\ i \in after /\ ~(rank2[i] <= rank2[j])
        BY <1>12 DEF Before
      <4>2. CASE i \in front
        BY <4>1, <4>2, <2>1, <1>8
      <4>3. CASE i \notin front
        <5>1. front = {}
          BY <4>3, <1>8
        <5> QED BY <5>1, <4>1, <2>1, <1>8
      <4> QED BY <4>2, <4>3
    <3> QED BY <3>1, <3>2, <2>1, <1>5
  <2> QED BY <2>2, <2>3
<1>14. i \in list /\ i \notin after => \A j, k \in K \ K0 : j = k
  <2> SUFFICES ASSUME i \in list, i \notin after, NEW j \in K \ K0, NEW k \in K \ K0
               PROVE  j = k
    OBVIOUS
  <2>1. \A x \in K \ K0 : /\ x \in list \ {i} /\ Place(after, rank2, x) <= s
                          /\ ~(Place(list, rank, x) <= s)
    BY <1>3, <1>4, <1>5, <1>6
  <2>2. \A x \in K \ K0 : x \in list /\ Place(list, rank, x) = s + 1
    BY <2>1, <1>11
  <2> QED
    BY <2>2, <1>10
<1>15. Cardinality(K) <= r2.left
  <2>1. CASE i \in list /\ i \notin after
    <3>1. list \ after = {i}
      BY <2>1, <1>8
    <3>2. Cardinality(list \ after) = 1
      BY <3>1, FS_Singleton
    <3>3. Cardinality(K) <= Cardinality(K0) + 1
      BY <2>1, <1>7, <1>14, OneMore
    <3> QED BY <3>2, <3>3, <1>3, <1>4, <1>7
  <2>2. CASE ~(i \in list /\ i \notin after)
    <3>1. Cardinality(K) <= Cardinality(K0)
      BY <2>2, <1>7, <1>13, PartsCounted
    <3>2. list \ after \subseteq Items
      BY <1>1
    <3>3. Cardinality(list \ after) \in Nat
      BY <3>2, PartsFinite
    <3> QED BY <3>1, <3>3, <1>3, <1>4, <1>7
  <2> QED BY <2>1, <2>2
\* Where nothing comes, nothing stands before the reader again.
<1>16. ASSUME i \notin after \/ (front = {} /\ i \in list)
       PROVE  A \subseteq A0
  <2> SUFFICES ASSUME NEW j \in A
               PROVE  j \in A0
    OBVIOUS
  <2>1. j \in after /\ j \in rd.seen /\ Place(after, rank2, j) > s
    BY <1>5
  <2>2. CASE i \notin after
    <3>1. j \in list \ {i} /\ Before(after, rank2, i, j) # 1
      BY <2>1, <2>2, <1>8, <1>12
    <3>2. Place(list, rank, j) > s
      BY <3>1, <2>1, <1>11
    <3> QED BY <3>1, <3>2, <2>1, <1>5
  <2>3. CASE i \in after
    <3>1. front = {} /\ after = list /\ \A k \in list : rank2[k] = rank[k]
      BY <2>3, <1>16, <1>8
    <3>2. UpTo(after, rank2, j) = UpTo(list, rank, j)
      BY <3>1, <2>1 DEF UpTo
    <3> QED BY <3>1, <3>2, <2>1, <1>5, PlaceIs
  <2> QED BY <2>2, <2>3
<1>17. ASSUME NEW j \in A \ A0, NEW k \in A \ A0
       PROVE  j = k
  <2>1. \A x \in A \ A0 : x # i => /\ x \in list /\ Place(list, rank, x) = s
                                  /\ x \in after /\ Place(after, rank2, x) = s + 1
                                  /\ i \in after /\ rank2[i] <= rank2[x]
    <3> SUFFICES ASSUME NEW x \in A \ A0, x # i
                 PROVE  /\ x \in list /\ Place(list, rank, x) = s
                        /\ x \in after /\ Place(after, rank2, x) = s + 1
                        /\ i \in after /\ rank2[i] <= rank2[x]
      OBVIOUS
    <3>1. /\ x \in list \ {i} /\ x \in after /\ Place(after, rank2, x) > s
          /\ ~(Place(list, rank, x) > s)
      BY <1>5, <1>8
    <3> QED BY <3>1, <1>11, <1>12
  <2>2. \A x \in A \ A0 : x # i => i \notin A \ A0
    <3> SUFFICES ASSUME NEW x \in A \ A0, x # i, i \in A \ A0
                 PROVE  FALSE
      OBVIOUS
    <3>1. /\ i \in after /\ x \in after /\ Place(after, rank2, i) > s
          /\ rank2[i] <= rank2[x] /\ Place(after, rank2, x) = s + 1
      BY <2>1, <1>5
    <3>2. Place(after, rank2, i) <= Place(after, rank2, x)
      BY <3>1, <1>1, PlaceOrder
    <3>3. Place(after, rank2, i) = Place(after, rank2, x)
      BY <3>1, <3>2, <1>2, <1>9
    <3> QED BY <3>1, <3>3, <1>10
  <2>3. CASE j = i \/ k = i
    BY <2>2, <2>3
  <2>4. CASE j # i /\ k # i
    BY <2>1, <2>4, <1>10
  <2> QED BY <2>3, <2>4
<1>18. rd.again + Cardinality(A) <= r2.came
  <2> DEFINE c == (front \cap after) \cup (after \ list)
  <2>1. c \subseteq Items
    BY <1>1
  <2>2. Cardinality(c) \in Nat
    BY <2>1, PartsFinite
  <2>3. CASE i \notin after \/ (front = {} /\ i \in list)
    <3>1. Cardinality(A) <= Cardinality(A0)
      BY <2>3, <1>7, <1>16, PartsCounted
    <3> QED BY <3>1, <2>2, <1>3, <1>4, <1>7
  <2>4. CASE ~(i \notin after \/ (front = {} /\ i \in list))
    <3>1. c = {i}
      BY <2>4, <1>8
    <3>2. Cardinality(c) = 1
      BY <3>1, FS_Singleton
    <3>3. Cardinality(A) <= Cardinality(A0) + 1
      BY <1>7, <1>17, OneMore
    <3> HIDE DEF c
    <3> QED BY <3>2, <3>3, <1>3, <1>4, <1>7 DEF c
  <2> QED BY <2>3, <2>4
<1> QED
  BY <1>3, <1>6, <1>15, <1>18 DEF Amid, K, A

\* The reader while item i of its list moves.
LEMMA ReaderMoves ==
  ASSUME NEW list, NEW rank, NEW after, NEW rank2, NEW i, NEW front,
         OneMoves(list, rank, after, rank2, i, front),
         ReaderInv(reader, list, rank), ListMoves(list, after, front)
  PROVE  ReaderInv(reader', after, rank2)
<1>1. Readers(reader) /\ Covers(reader) /\ list \subseteq Items /\ after \subseteq Items
  BY DEF ReaderInv, OneMoves, Ranked
<1>2. CASE reader.page = 0 \/ reader.over
  <2>1. reader' = reader
    BY <1>2 DEF ListMoves
  <2> QED BY <2>1, <1>2 DEF ReaderInv
<1>3. CASE ~(reader.page = 0 \/ reader.over)
  <2> DEFINE r2 == Sees(reader, list, after, front)
  <2>1. reader' = r2
    BY <1>3 DEF ListMoves, Sees
  <2>2. reader.page # 0 /\ ~reader.over /\ Amid(reader, list, rank)
    BY <1>3 DEF ReaderInv
  <2>3. Amid(r2, after, rank2)
    BY <1>1, <2>2, ReaderSees
  <2>4. Readers(r2) /\ r2.page = reader.page /\ r2.over = reader.over /\ r2.again = reader.again
    <3>1. Readers(r2)
      BY <1>1, SeesFields
    <3>2. r2.page = reader.page /\ r2.over = reader.over /\ r2.again = reader.again
      BY <1>1 DEF Sees, Readers
    <3> QED BY <3>1, <3>2
  <2> HIDE DEF r2
  <2>5. Covers(r2)
    <3>1. r2.again \in Nat /\ r2.came \in Nat
      BY <2>4, ReaderParts
    <3>2. Repeated(r2, after, rank2) \subseteq Items
      BY <1>1 DEF Repeated
    <3>3. Cardinality(Repeated(r2, after, rank2)) \in Nat
      BY <3>2, PartsFinite
    <3>4. r2.again <= r2.came
      BY <3>1, <3>3, <2>3 DEF Amid
    <3> QED BY <3>4, <2>2, <2>4 DEF Covers
  <2>6. ReaderInv(r2, after, rank2)
    BY <2>2, <2>3, <2>4, <2>5 DEF ReaderInv
  <2> QED BY <2>1, <2>6
<1> QED
  BY <1>2, <1>3

\* The reader while its list stays.
LEMMA ReaderRests ==
  ASSUME NEW list, NEW rank, NEW rank2, ReaderInv(reader, list, rank), UNCHANGED reader,
         \A i \in list : rank2[i] = rank[i]
  PROVE  ReaderInv(reader', list, rank2)
<1>1. \A i \in list : UpTo(list, rank2, i) = UpTo(list, rank, i)
  BY DEF UpTo
<1>2. \A i \in list : Place(list, rank2, i) = Place(list, rank, i)
  BY <1>1, PlaceIs
<1>3. reader.page # 0 /\ ~reader.over => Amid(reader, list, rank2)
  <2> SUFFICES ASSUME reader.page # 0 /\ ~reader.over
               PROVE  Amid(reader, list, rank2)
    OBVIOUS
  <2>1. Amid(reader, list, rank)
    BY DEF ReaderInv
  <2>2. Skipped(reader, list, rank2) = Skipped(reader, list, rank)
    BY <1>2, <2>1 DEF Skipped, Amid
  <2>3. Repeated(reader, list, rank2) = Repeated(reader, list, rank)
    BY <1>2 DEF Repeated
  <2> QED BY <2>1, <2>2, <2>3 DEF Amid
<1> QED
  BY <1>3 DEF ReaderInv

\* A page is read.
LEMMA ReaderPages ==
  ASSUME NEW list, NEW rank, Ranked(list, rank), NEW last,
         NEW f \in Filters({"POST", "DOCUMENT"},
                     {"GENERATING", "READY", "FAILED", "DRAFT", "SCHEDULED", "PUBLISHED"}),
         ReaderInv(reader, list, rank), Telling(reader.page, list, last),
         ReadPage(f, list, rank, last)
  PROVE  ReaderInv(reader', list, rank) /\ reader'.filter = f
<1> DEFINE r2 == Reads(reader, f, PageOf(list, rank, reader.page + 1), list, last)
<1>1. reader' = r2 /\ ~reader.over
  BY DEF ReadPage, Reads
<1>2. ReaderInv(r2, list, rank)
  BY <1>1, ReaderReads
<1>3. r2.filter = f
  BY DEF Reads, ReaderInv, Readers
<1> QED
  BY <1>1, <1>2, <1>3

LEMMA ReaderTyped ==
  ASSUME NEW list, NEW rank, ReaderInv(reader, list, rank)
  PROVE  PagesCover /\ (month \in 1..MaxMonths => PagingTypeOK)
BY DEF ReaderInv, Covers, Readers, PagesCover, Missed, PagingTypeOK

LEMMA MovesFilter ==
  ASSUME NEW before, NEW after, NEW front, Readers(reader), ListMoves(before, after, front)
  PROVE  reader'.filter = reader.filter
BY DEF ListMoves, Readers

\* A client that has read nothing may ask for any list.
LEMMA ReaderAsks ==
  ASSUME NEW list, NEW other, NEW rank, NEW last, NEW f, ReaderInv(reader, list, rank),
         ReadPage(f, other, rank, last), f = reader.filter => other = list
  PROVE  ReaderInv(reader, other, rank)
<1>1. CASE reader.page = 0
  <2>1. reader = Idle
    BY <1>1 DEF ReaderInv
  <2> QED BY <2>1, IdleReader
<1>2. CASE reader.page # 0
  BY <1>2 DEF ReadPage
<1> QED
  BY <1>1, <1>2

LEMMA FiltersAsked ==
  ASSUME NEW types, NEW statuses, types \subseteq {"POST", "DOCUMENT"},
         statuses \subseteq {"GENERATING", "READY", "FAILED", "DRAFT", "SCHEDULED", "PUBLISHED"}
  PROVE  Filters(types, statuses) \subseteq
           Filters({"POST", "DOCUMENT"},
             {"GENERATING", "READY", "FAILED", "DRAFT", "SCHEDULED", "PUBLISHED"})
BY DEF Filters

-----------------------------------------------------------------------------
(* The feed *)

\* Posts are created in the order of their numbers, so that a new one is the newest.
FeedInv ==
  /\ FeedTypeOK
  /\ month \in 1..MaxMonths
  /\ \A i \in Items : feed[i].status # "NONE" => feed[i].created
  /\ \A i, j \in Items : i < j /\ feed[j].created => feed[i].created
  /\ ReaderInv(reader, GetPosts(reader.filter, feed), NewestFirst)

LEMMA FeedRanked ==
  ASSUME NEW f, NEW posts
  PROVE  Ranked(GetPosts(f, posts), NewestFirst)
<1>1. \A i \in Items : NewestFirst[i] = MaxItems + 1 - i /\ i \in Nat /\ MaxItems \in Nat
                       /\ i <= MaxItems
  BY ItemsFinite DEF NewestFirst, Items
<1>2. \A i \in Items : NewestFirst[i] \in Nat
  BY <1>1
<1>3. \A i, j \in Items : NewestFirst[i] = NewestFirst[j] => i = j
  BY <1>1
<1>4. GetPosts(f, posts) \subseteq Items
  BY DEF GetPosts
<1> QED
  BY <1>2, <1>3, <1>4 DEF Ranked

\* One post is written; nothing newer is there when it comes to the front.
LEMMA FeedMoves ==
  ASSUME FeedTypeOK, NEW i \in Items, NEW front, front \in {{}, {i}}, NEW f,
         NEW posts, \A j \in Items \ {i} : posts[j] = feed[j],
         front = {i} => \A j \in Items : i < j => posts[j].status = "NONE"
  PROVE  OneMoves(GetPosts(f, feed), NewestFirst, GetPosts(f, posts), NewestFirst, i, front)
<1>1. Ranked(GetPosts(f, feed), NewestFirst) /\ Ranked(GetPosts(f, posts), NewestFirst)
  BY FeedRanked
<1>2. GetPosts(f, feed) \ {i} = GetPosts(f, posts) \ {i}
  BY DEF GetPosts, InFeed
<1>3. i \in front => \A j \in GetPosts(f, posts) : NewestFirst[i] <= NewestFirst[j]
  <2> SUFFICES ASSUME i \in front, NEW j \in GetPosts(f, posts)
               PROVE  NewestFirst[i] <= NewestFirst[j]
    OBVIOUS
  <2>1. j \in Items /\ ~(i < j)
    BY DEF GetPosts, InFeed
  <2>2. /\ NewestFirst[i] = MaxItems + 1 - i /\ NewestFirst[j] = MaxItems + 1 - j
        /\ i \in Nat /\ j \in Nat /\ MaxItems \in Nat
    BY <2>1, ItemsFinite DEF NewestFirst
  <2> QED BY <2>1, <2>2
<1> QED
  BY <1>1, <1>2, <1>3 DEF OneMoves

LEMMA FeedInit_Inv ==
  PagingInit /\ FeedInit => FeedInv
<1> SUFFICES ASSUME PagingInit, FeedInit
             PROVE  FeedInv
  OBVIOUS
<1>1. 1 \in 1..MaxMonths
  BY PagingAssumption
<1>2. FeedTypeOK
  BY <1>1, FeedAssumption DEF FeedInit, FeedTypeOK, FeedStatus
<1>3. ReaderInv(reader, GetPosts(reader.filter, feed), NewestFirst)
  BY IdleReader DEF PagingInit
<1>4. \A i \in Items : feed[i].status = "NONE" /\ ~feed[i].created
  BY DEF FeedInit
<1> QED
  BY <1>1, <1>2, <1>3, <1>4 DEF FeedInv, PagingInit

LEMMA WritePost_Inv ==
  ASSUME FeedInv, NEW i \in Items, NEW status \in FeedStatus, NEW front \in {{}, {i}},
         WritePost(i, status, front), \A j \in Items : j < i => feed[j].created,
         front = {i} => ~feed[i].created
  PROVE  FeedInv'
<1> DEFINE doc == [status |-> status, created |-> TRUE, stamp |-> month]
<1>1. feed' = [feed EXCEPT ![i] = doc] /\ month' = month /\ FeedCall
  BY DEF WritePost
<1>2. /\ feed \in [Items -> [status : FeedStatus, created : BOOLEAN, stamp : 1..MaxMonths]]
      /\ feedCalls \in 0..MaxFeedCalls /\ month \in 1..MaxMonths
  BY DEF FeedInv, FeedTypeOK
<1>3. feed' \in [Items -> [status : FeedStatus, created : BOOLEAN, stamp : 1..MaxMonths]]
  BY <1>1, <1>2
<1>4. feedCalls' \in 0..MaxFeedCalls
  BY <1>1, <1>2, FeedAssumption DEF FeedCall
<1>5. feed'[i] = doc /\ \A j \in Items \ {i} : feed'[j] = feed[j]
  BY <1>1, <1>2
<1>6. doc.created
  OBVIOUS
<1> HIDE DEF doc
<1>7. \A j \in Items : feed'[j].status # "NONE" => feed'[j].created
  BY <1>5, <1>6 DEF FeedInv
<1>8. \A j, k \in Items : j < k /\ feed'[k].created => feed'[j].created
  BY <1>5, <1>6 DEF FeedInv
<1>9. front = {i} => \A j \in Items : i < j => feed'[j].status = "NONE"
  <2> SUFFICES ASSUME front = {i}, NEW j \in Items, i < j
               PROVE  feed'[j].status = "NONE"
    OBVIOUS
  <2>1. j # i
    BY ItemsFinite
  <2>2. ~feed[j].created
    BY DEF FeedInv
  <2> QED BY <2>1, <2>2, <1>5 DEF FeedInv
<1> DEFINE f == reader.filter
           list == GetPosts(f, feed)
           after == GetPosts(f, feed')
<1>10. OneMoves(list, NewestFirst, after, NewestFirst, i, front)
  BY <1>5, <1>9, FeedMoves DEF FeedInv
<1>11. ReaderInv(reader, list, NewestFirst) /\ ListMoves(list, after, front) /\ Readers(reader)
  BY DEF FeedInv, WritePost, ReaderInv
<1> HIDE DEF f, list, after
<1>12. ReaderInv(reader', after, NewestFirst)
  BY <1>10, <1>11, ReaderMoves
<1>13. reader'.filter = f
  BY <1>11, MovesFilter DEF f
<1>14. after = GetPosts(reader'.filter, feed')
  BY <1>13 DEF after
<1> QED
  BY <1>1, <1>2, <1>3, <1>4, <1>7, <1>8, <1>12, <1>14 DEF FeedInv, FeedTypeOK

LEMMA ReadPosts_Inv ==
  ASSUME FeedInv, NEW f \in Filters({}, FeedStatus \ {"NONE"}), ReadPosts(f)
  PROVE  FeedInv'
<1> DEFINE list == GetPosts(f, feed)
           last == ByLength(list, NewestFirst)
<1>1. /\ ReadPage(f, list, NewestFirst, last) /\ feed' = feed /\ feedCalls' = feedCalls
      /\ month' = month
  BY DEF ReadPosts, feedVars, ReadPage
<1>2. f \in Filters({"POST", "DOCUMENT"},
              {"GENERATING", "READY", "FAILED", "DRAFT", "SCHEDULED", "PUBLISHED"})
  <2>1. {} \subseteq {"POST", "DOCUMENT"}
    OBVIOUS
  <2>2. FeedStatus \ {"NONE"} \subseteq
          {"GENERATING", "READY", "FAILED", "DRAFT", "SCHEDULED", "PUBLISHED"}
    BY DEF FeedStatus
  <2> QED BY <2>1, <2>2, FiltersAsked
<1>3. ReaderInv(reader, GetPosts(reader.filter, feed), NewestFirst)
  BY DEF FeedInv
<1>4. Ranked(list, NewestFirst)
  BY FeedRanked
<1>5. f = reader.filter => list = GetPosts(reader.filter, feed)
  OBVIOUS
<1> HIDE DEF list
<1>6. Readers(reader)
  BY <1>3 DEF ReaderInv
<1>7. Telling(reader.page, list, last)
  BY <1>4, <1>6, LengthTells
<1> HIDE DEF last
<1>8. ReaderInv(reader, list, NewestFirst)
  BY <1>1, <1>3, <1>5, ReaderAsks
<1>9. ReaderInv(reader', list, NewestFirst) /\ reader'.filter = f
  BY <1>1, <1>2, <1>4, <1>7, <1>8, ReaderPages
<1>10. list = GetPosts(reader'.filter, feed')
  BY <1>1, <1>9 DEF list
<1> QED
  BY <1>1, <1>9, <1>10 DEF FeedInv, FeedTypeOK

LEMMA FeedRests_Inv ==
  ASSUME FeedInv, UNCHANGED <<feedVars, reader>>, month' \in 1..MaxMonths
  PROVE  FeedInv'
BY DEF FeedInv, FeedTypeOK, feedVars

LEMMA FeedNext_Inv ==
  ASSUME FeedInv, FeedNext
  PROVE  FeedInv'
<1>1. \A i \in Items : feed[i].status # "NONE" => \A j \in Items : j < i => feed[j].created
  BY DEF FeedInv
<1>2. ASSUME NEW i \in Items, NewPost(i)
      PROVE  FeedInv'
  BY <1>2, WritePost_Inv DEF NewPost, FeedStatus
<1>3. ASSUME NEW i \in Items, DeletePost(i)
      PROVE  FeedInv'
  <2>1. {} # {i}
    OBVIOUS
  <2> QED BY <1>1, <1>3, <2>1, WritePost_Inv DEF DeletePost, FeedStatus
<1>4. ASSUME NEW i \in Items, NEW status \in FeedStatus, ChangePost(i, status)
      PROVE  FeedInv'
  <2>1. {} # {i}
    OBVIOUS
  <2>2. feed[i].status # "NONE"
    BY <1>4 DEF ChangePost, MayBecome
  <2>3. WritePost(i, status, {})
    BY <1>4 DEF ChangePost
  <2> QED BY <1>1, <2>1, <2>2, <2>3, WritePost_Inv
<1>5. ASSUME NEW f \in Filters({}, FeedStatus \ {"NONE"}), ReadPosts(f)
      PROVE  FeedInv'
  BY <1>5, ReadPosts_Inv
<1>6. ASSUME MonthEnds, UNCHANGED <<reader, feedVars>>
      PROVE  FeedInv'
  <2>1. month' \in 1..MaxMonths
    BY <1>6, PagingAssumption DEF MonthEnds, FeedInv
  <2> QED BY <1>6, <2>1, FeedRests_Inv
<1> QED
  BY <1>2, <1>3, <1>4, <1>5, <1>6 DEF FeedNext

\* createPost, editPost, the publisher and deletePost keep the invariant, whichever
\* of them comes between two pages of GET /posts.
THEOREM FeedInvariance == FeedSpec => []FeedInv
<1>1. FeedInv /\ UNCHANGED <<feedVars, pagingVars>> => FeedInv'
  <2> SUFFICES ASSUME FeedInv, UNCHANGED <<feedVars, pagingVars>>
               PROVE  FeedInv'
    OBVIOUS
  <2>1. month' \in 1..MaxMonths
    BY DEF FeedInv, pagingVars
  <2> QED BY <2>1, FeedRests_Inv DEF pagingVars
<1>2. FeedInv /\ [FeedNext]_<<feedVars, pagingVars>> => FeedInv'
  BY <1>1, FeedNext_Inv
<1> QED
  BY FeedInit_Inv, <1>2, PTL DEF FeedSpec

\* The posts and the client that reads them are well typed.
THEOREM FeedTyped == FeedSpec => [](FeedTypeOK /\ PagingTypeOK)
<1>1. FeedInv => FeedTypeOK /\ PagingTypeOK
  BY ReaderTyped DEF FeedInv
<1> QED
  BY <1>1, FeedInvariance, PTL

\* getPosts: a client that reads the posts page by page misses no more of those
\* that stood still than left the list, and sees no more again than came in.
THEOREM FeedPagesCover == FeedSpec => []PagesCover
<1>1. FeedInv => PagesCover
  BY ReaderTyped DEF FeedInv
<1> QED
  BY <1>1, FeedInvariance, PTL

-----------------------------------------------------------------------------
(* The shelf *)

\* The places on the shelf are 1 to the number of artifacts on it.
OnIt(sh) == {j \in Items : sh[j] # 0}
ShelfInv(sh) ==
  /\ sh \in [Items -> Nat]
  /\ \A i, j \in Items : sh[i] = sh[j] /\ sh[i] # 0 => i = j
  /\ \A i \in Items : sh[i] <= Cardinality(OnIt(sh))

LEMMA ShelfType ==
  ASSUME NEW sh, ShelfInv(sh)
  PROVE  sh \in [Items -> 0..MaxItems]
<1>1. OnIt(sh) \subseteq Items
  BY DEF OnIt
<1>2. Cardinality(OnIt(sh)) \in Nat /\ Cardinality(OnIt(sh)) <= MaxItems /\ MaxItems \in Nat
  BY <1>1, PartsFinite, ItemsFinite
<1>3. \A i \in Items : sh[i] \in Nat /\ sh[i] <= Cardinality(OnIt(sh))
  BY DEF ShelfInv
<1>4. \A i \in Items : sh[i] \in 0..MaxItems
  BY <1>2, <1>3
<1> QED
  BY <1>4 DEF ShelfInv

LEMMA ToFrontIs ==
  ASSUME ShelfInv(shelf), NEW i \in Items, NEW j \in Items
  PROVE  /\ j = i => ToFront(i, j) = 1
         /\ j # i /\ shelf[j] # 0 /\ (shelf[i] = 0 \/ shelf[j] < shelf[i]) =>
              ToFront(i, j) = shelf[j] + 1
         /\ j # i /\ (shelf[j] = 0 \/ (shelf[i] # 0 /\ shelf[j] > shelf[i])) =>
              ToFront(i, j) = shelf[j]
         /\ ToFront(i, j) \in Nat
         /\ shelf[i] \in Nat /\ shelf[j] \in Nat
         /\ j # i /\ shelf[j] # 0 => shelf[j] # shelf[i]
         /\ ToFront(i, j) # 0 <=> j = i \/ shelf[j] # 0
<1>1. shelf[i] \in Nat /\ shelf[j] \in Nat
  BY DEF ShelfInv
<1>2. j # i /\ shelf[j] # 0 => shelf[j] # shelf[i]
  BY DEF ShelfInv
<1> QED
  BY <1>1, <1>2 DEF ToFront

\* The order of the others stays; nothing but i comes first.
LEMMA ToFrontOrder ==
  ASSUME ShelfInv(shelf), NEW i \in Items
  PROVE  /\ \A j, k \in Items \ {i} : shelf[j] # 0 /\ shelf[k] # 0 =>
              (shelf[j] <= shelf[k] <=> ToFront(i, j) <= ToFront(i, k))
         /\ \A j \in Items : ToFront(i, j) # 0 => ToFront(i, i) <= ToFront(i, j)
<1>1. ASSUME NEW j \in Items \ {i}, NEW k \in Items \ {i}, shelf[j] # 0, shelf[k] # 0
      PROVE  shelf[j] <= shelf[k] <=> ToFront(i, j) <= ToFront(i, k)
  BY <1>1, ToFrontIs
<1>2. ASSUME NEW j \in Items, ToFront(i, j) # 0
      PROVE  ToFront(i, i) <= ToFront(i, j)
  <2>1. ToFront(i, i) = 1 /\ ToFront(i, j) \in Nat
    BY ToFrontIs
  <2> QED BY <2>1, <1>2
<1> QED
  BY <1>1, <1>2

LEMMA ToFrontShelf ==
  ASSUME ShelfInv(shelf), NEW i \in Items
  PROVE  /\ ShelfInv([j \in Items |-> ToFront(i, j)])
         /\ \A j \in Items : [k \in Items |-> ToFront(i, k)][j] # 0 <=> j = i \/ shelf[j] # 0
<1> DEFINE sh == [j \in Items |-> ToFront(i, j)]
<1>1. \A j \in Items : sh[j] = ToFront(i, j) /\ sh[j] \in Nat
  BY ToFrontIs
<1>2. sh \in [Items -> Nat]
  BY <1>1
<1>3. \A j \in Items : sh[j] # 0 <=> j = i \/ shelf[j] # 0
  BY <1>1, ToFrontIs
<1> HIDE DEF sh
<1>4. ASSUME NEW j \in Items, NEW k \in Items, sh[j] = sh[k], sh[j] # 0
      PROVE  j = k
  <2>1. CASE j # i /\ k # i
    <3>1. shelf[j] # 0 /\ shelf[k] # 0
      BY <1>3, <1>4, <2>1
    <3>2. (shelf[j] <= shelf[k] <=> sh[j] <= sh[k]) /\ (shelf[k] <= shelf[j] <=> sh[k] <= sh[j])
      BY <1>1, <2>1, <3>1, ToFrontOrder
    <3>3. shelf[j] \in Nat /\ shelf[k] \in Nat /\ sh[j] \in Nat
      BY <1>1 DEF ShelfInv
    <3>4. shelf[j] = shelf[k]
      BY <3>2, <3>3, <1>4
    <3> QED BY <3>1, <3>4 DEF ShelfInv
  <2>2. ASSUME NEW x \in Items, x # i, sh[x] # 0
        PROVE  sh[x] # 1
    BY <1>1, <1>3, <2>2, ToFrontIs
  <2>3. sh[i] = 1
    BY <1>1, ToFrontIs
  <2> QED
    BY <1>4, <2>1, <2>2, <2>3
<1>5. OnIt(sh) = OnIt(shelf) \cup {i}
  BY <1>3 DEF OnIt
<1>6. OnIt(shelf) \subseteq Items /\ OnIt(sh) \subseteq Items
  BY DEF OnIt
<1>7. /\ Cardinality(OnIt(shelf)) \in Nat /\ Cardinality(OnIt(sh)) \in Nat
      /\ Cardinality(OnIt(sh)) =
           IF shelf[i] = 0 THEN Cardinality(OnIt(shelf)) + 1 ELSE Cardinality(OnIt(shelf))
  <2>1. i \in OnIt(shelf) <=> shelf[i] # 0
    BY DEF OnIt
  <2> QED BY <2>1, <1>5, <1>6, PartsFinite, FS_AddElement
<1>8. Cardinality(OnIt(sh)) # 0
  <2>1. i \in OnIt(sh)
    BY <1>5
  <2> QED BY <2>1, <1>6, PartsFinite, FS_EmptySet
<1>9. ASSUME NEW j \in Items
      PROVE  sh[j] <= Cardinality(OnIt(sh))
  <2>1. shelf[j] <= Cardinality(OnIt(shelf)) /\ shelf[i] <= Cardinality(OnIt(shelf))
    BY DEF ShelfInv
  <2> QED BY <2>1, <1>1, <1>7, <1>8, ToFrontIs
<1> QED
  BY <1>2, <1>3, <1>4, <1>9 DEF ShelfInv, sh

-----------------------------------------------------------------------------
(* The list of artifacts *)

\* What an artifact can be.
Documents ==
  [type : ShelfTypes, current : 0..MaxRevisions, deleted : BOOLEAN,
   pinned : 0..MaxRevisions, stamp : 1..MaxMonths,
   versions : [Revisions -> [status : ShelfStatus, slides : Texts, key : BOOLEAN]]]

\* What is created has a place.
Shelved(arts, sh) ==
  /\ arts \in [Items -> Documents]
  /\ ShelfInv(sh)
  /\ \A i \in Items : arts[i].current # 0 <=> sh[i] # 0

\* The list a client reads, and the client.
ListInv ==
  /\ Shelved(artifacts, shelf)
  /\ month \in 1..MaxMonths
  /\ ReaderInv(reader, ListArtifacts(reader.filter, artifacts), shelf)

LEMMA LibraryRanked ==
  ASSUME NEW f, NEW arts, NEW sh, Shelved(arts, sh)
  PROVE  Ranked(ListArtifacts(f, arts), sh)
<1>1. ListArtifacts(f, arts) \subseteq Items
  BY DEF ListArtifacts
<1>2. \A i \in ListArtifacts(f, arts) : arts[i].current # 0
  BY DEF ListArtifacts, Listed
<1> QED
  BY <1>1, <1>2 DEF Ranked, Shelved, ShelfInv

LEMMA StampedDocument ==
  ASSUME NEW doc \in Documents, NEW m \in 1..MaxMonths
  PROVE  /\ [doc EXCEPT !.stamp = m] \in Documents
         /\ [doc EXCEPT !.stamp = m].type = doc.type
         /\ [doc EXCEPT !.stamp = m].current = doc.current
         /\ [doc EXCEPT !.stamp = m].deleted = doc.deleted
         /\ [doc EXCEPT !.stamp = m].versions = doc.versions
BY DEF Documents

LEMMA Write_List ==
  ASSUME ListInv, NEW i \in Items, NEW doc \in Documents, doc.current # 0, Write(i, doc)
  PROVE  /\ ListInv'
         /\ artifacts' \in [Items -> Documents]
         /\ artifacts'[i].type = doc.type /\ artifacts'[i].versions = doc.versions
         /\ artifacts'[i].current = doc.current
         /\ \A j \in Items \ {i} : artifacts'[j] = artifacts[j]
<1> DEFINE d2 == [doc EXCEPT !.stamp = month]
           sh == [j \in Items |-> ToFront(i, j)]
<1>1. artifacts' = [artifacts EXCEPT ![i] = d2] /\ shelf' = sh /\ month' = month
  BY DEF Write
<1>2. artifacts \in [Items -> Documents] /\ month \in 1..MaxMonths /\ ShelfInv(shelf)
  BY DEF ListInv, Shelved
<1>3. /\ d2 \in Documents /\ d2.type = doc.type /\ d2.current = doc.current
      /\ d2.versions = doc.versions
  BY <1>2, StampedDocument
<1> HIDE DEF d2
<1>4. /\ artifacts' \in [Items -> Documents] /\ artifacts'[i] = d2
      /\ \A j \in Items \ {i} : artifacts'[j] = artifacts[j]
  BY <1>1, <1>2, <1>3
<1>5. ShelfInv(sh) /\ \A j \in Items : sh[j] # 0 <=> j = i \/ shelf[j] # 0
  BY <1>2, ToFrontShelf
<1>6. /\ \A j, k \in Items \ {i} : shelf[j] # 0 /\ shelf[k] # 0 =>
              (shelf[j] <= shelf[k] <=> sh[j] <= sh[k])
      /\ \A j \in Items : sh[j] # 0 => sh[i] <= sh[j]
  <2>1. \A j \in Items : sh[j] = ToFront(i, j)
    OBVIOUS
  <2> HIDE DEF sh
  <2> QED BY <2>1, <1>2, ToFrontOrder
<1> HIDE DEF sh
<1>7. Shelved(artifacts', sh)
  BY <1>3, <1>4, <1>5 DEF Shelved, ListInv
<1> DEFINE f == reader.filter
           list == ListArtifacts(f, artifacts)
           after == ListArtifacts(f, artifacts')
<1>8. OneMoves(list, shelf, after, sh, i, {i})
  <2>1. Ranked(list, shelf) /\ Ranked(after, sh)
    BY <1>7, LibraryRanked DEF ListInv
  <2>2. list \ {i} = after \ {i}
    BY <1>4 DEF ListArtifacts, Listed
  <2>3. \A j \in list \ {i} : j \in Items \ {i} /\ shelf[j] # 0
    BY DEF ListArtifacts, Listed, ListInv, Shelved
  <2>4. \A j \in after : j \in Items /\ sh[j] # 0
    BY <1>7 DEF ListArtifacts, Listed, Shelved
  <2> HIDE DEF list, after
  <2> QED BY <1>6, <2>1, <2>2, <2>3, <2>4 DEF OneMoves
<1>9. ReaderInv(reader, list, shelf) /\ ListMoves(list, after, {i}) /\ Readers(reader)
  BY DEF ListInv, Write, ReaderInv
<1> HIDE DEF f, list, after
<1>10. ReaderInv(reader', after, sh)
  BY <1>8, <1>9, ReaderMoves
<1>11. reader'.filter = f
  BY <1>9, MovesFilter DEF f
<1>12. after = ListArtifacts(reader'.filter, artifacts')
  BY <1>11 DEF after
<1> QED
  BY <1>1, <1>2, <1>3, <1>4, <1>7, <1>10, <1>12 DEF ListInv

\* What a list shows is not touched.
LEMMA Rest_List ==
  ASSUME ListInv, UNCHANGED <<shelf, reader>>, month' \in 1..MaxMonths,
         artifacts' \in [Items -> Documents],
         \A i \in Items : /\ artifacts'[i].type = artifacts[i].type
                          /\ artifacts'[i].current = artifacts[i].current
                          /\ artifacts'[i].deleted = artifacts[i].deleted
                          /\ artifacts'[i].stamp = artifacts[i].stamp
                          /\ artifacts'[i].versions = artifacts[i].versions
  PROVE  ListInv'
<1>1. ListArtifacts(reader.filter, artifacts') = ListArtifacts(reader.filter, artifacts)
  BY DEF ListArtifacts, Listed
<1>2. Shelved(artifacts', shelf)
  BY DEF ListInv, Shelved
<1> QED
  BY <1>1, <1>2 DEF ListInv

LEMMA ReadArtifacts_List ==
  ASSUME ListInv, NEW f \in Filters(ShelfTypes, ShelfStatus \ {"NONE"}), ReadArtifacts(f)
  PROVE  ListInv'
<1> DEFINE list == ListArtifacts(f, artifacts)
           last == ByCount(list)
<1>1. ReadPage(f, list, shelf, last) /\ artifacts' = artifacts /\ shelf' = shelf /\ month' = month
  BY DEF ReadArtifacts, libraryVars, ReadPage
<1>2. f \in Filters({"POST", "DOCUMENT"},
              {"GENERATING", "READY", "FAILED", "DRAFT", "SCHEDULED", "PUBLISHED"})
  <2>1. ShelfTypes \subseteq {"POST", "DOCUMENT"}
    BY DEF ShelfTypes
  <2>2. ShelfStatus \ {"NONE"} \subseteq
          {"GENERATING", "READY", "FAILED", "DRAFT", "SCHEDULED", "PUBLISHED"}
    BY DEF ShelfStatus
  <2> QED BY <2>1, <2>2, FiltersAsked
<1>3. ReaderInv(reader, ListArtifacts(reader.filter, artifacts), shelf)
  BY DEF ListInv
<1>4. Ranked(list, shelf)
  BY LibraryRanked DEF ListInv
<1>5. f = reader.filter => list = ListArtifacts(reader.filter, artifacts)
  OBVIOUS
<1> HIDE DEF list
<1>6. Readers(reader)
  BY <1>3 DEF ReaderInv
<1>7. Telling(reader.page, list, last)
  BY <1>4, <1>6, CountTells
<1> HIDE DEF last
<1>8. ReaderInv(reader, list, shelf)
  BY <1>1, <1>3, <1>5, ReaderAsks
<1>9. ReaderInv(reader', list, shelf) /\ reader'.filter = f
  BY <1>1, <1>2, <1>4, <1>7, <1>8, ReaderPages
<1>10. list = ListArtifacts(reader'.filter, artifacts')
  BY <1>1, <1>9 DEF list
<1> QED
  BY <1>1, <1>9, <1>10 DEF ListInv

-----------------------------------------------------------------------------
(* The decks *)

\* Where an attempt can be.
Stages == {"none", "generating", "rendered", "written", "over"}

\* What a version, its PDF and its attempts have to do with one another.
VersionInv(type, version, pdf, tries) ==
  /\ type = "DOCUMENT" /\ (\E n \in Tries : tries[n] \in {"rendered", "written"}) => pdf # 0
  /\ type = "DOCUMENT" /\ version.status = "READY" =>
       version.key /\ version.slides # 0 /\ pdf # 0
  /\ (\A n \in Tries : n > 1 => tries[n] = "none") =>
       pdf \in {0, 1} /\ version.slides \in {0, 1, Edited}

\* Nothing is tried for an artifact that is not created.
Decks(arts, shown, tries) ==
  /\ arts \in [Items -> Documents]
  /\ shown \in [Items -> [Revisions -> Texts]]
  /\ tries \in [Items -> [Revisions -> [Tries -> Stages]]]
  /\ \A i \in Items : arts[i].current = 0 =>
       \A v \in Revisions, n \in Tries : tries[i][v][n] = "none"
  /\ \A i \in Items, v \in Revisions :
       VersionInv(arts[i].type, arts[i].versions[v], shown[i][v], tries[i][v])

DeckInv == Decks(artifacts, pdfs, attempts)

\* The inductive invariant: DeckShown and PagesCover have nothing in common but the
\* documents.
LibInv == ListInv /\ DeckInv

\* One version of one artifact, at most.
OnlyAt(new, old, i, v) ==
  /\ \A j \in Items \ {i} : new[j] = old[j]
  /\ \A u \in Revisions \ {v} : new[i][u] = old[i][u]

LEMMA OnlySame ==
  ASSUME NEW f, NEW i, NEW v
  PROVE  OnlyAt(f, f, i, v)
BY DEF OnlyAt

LEMMA Bounds ==
  /\ MaxTries \in Nat \ {0} /\ MaxRevisions \in Nat \ {0}
  /\ Tries \subseteq Nat \ {0} /\ Tries \subseteq Texts /\ 1 \in Tries /\ Edited \in Texts
  /\ 0 \in Texts /\ 0 \notin Tries /\ Edited \notin Tries /\ Edited # 0 /\ 1 \in Revisions
  /\ Revisions \subseteq Nat \ {0}
  /\ \A n \in Tries : n + 1 \in Tries => n + 1 > 1 /\ n + 1 # n
BY LibraryAssumption DEF Tries, Texts, Edited, Revisions

\* A step is about one version.
LEMMA OneVersion ==
  ASSUME DeckInv, NEW i \in Items, NEW v \in Revisions,
         NEW arts \in [Items -> Documents], NEW shown \in [Items -> [Revisions -> Texts]],
         NEW tries \in [Items -> [Revisions -> [Tries -> Stages]]],
         \A j \in Items \ {i} : arts[j] = artifacts[j],
         OnlyAt(shown, pdfs, i, v), OnlyAt(tries, attempts, i, v),
         arts[i].current # 0,
         \A u \in Revisions \ {v} :
           VersionInv(arts[i].type, arts[i].versions[u], pdfs[i][u], attempts[i][u]),
         VersionInv(arts[i].type, arts[i].versions[v], shown[i][v], tries[i][v])
  PROVE  Decks(arts, shown, tries)
<1>1. ASSUME NEW j \in Items, arts[j].current = 0
      PROVE  \A u \in Revisions, n \in Tries : tries[j][u][n] = "none"
  <2>1. j # i
    BY <1>1
  <2>2. arts[j] = artifacts[j] /\ tries[j] = attempts[j]
    BY <2>1 DEF OnlyAt
  <2> QED BY <1>1, <2>2 DEF DeckInv, Decks
<1>2. ASSUME NEW j \in Items, NEW u \in Revisions
      PROVE  VersionInv(arts[j].type, arts[j].versions[u], shown[j][u], tries[j][u])
  <2>1. CASE j # i
    BY <2>1 DEF DeckInv, Decks, OnlyAt
  <2>2. CASE j = i /\ u # v
    BY <2>2 DEF OnlyAt
  <2>3. CASE j = i /\ u = v
    BY <2>3
  <2> QED BY <2>1, <2>2, <2>3
<1> QED
  BY <1>1, <1>2 DEF Decks

LEMMA MovesIs ==
  ASSUME DeckInv, NEW i \in Items, NEW v \in Revisions, NEW n \in Tries, NEW at \in Stages,
         Moves(i, v, n, at)
  PROVE  /\ attempts' \in [Items -> [Revisions -> [Tries -> Stages]]]
         /\ OnlyAt(attempts', attempts, i, v)
         /\ \A k \in Tries \ {n} : attempts'[i][v][k] = attempts[i][v][k]
         /\ attempts'[i][v][n] = at
BY DEF DeckInv, Decks, Moves, OnlyAt

\* What a version can be, and those of a new artifact.
RevisionSet == [status : ShelfStatus, slides : Texts, key : BOOLEAN]

\* A version gets a status, and keeps its slides and its key.
LEMMA WithStatus ==
  ASSUME NEW version \in RevisionSet, NEW status \in ShelfStatus
  PROVE  /\ [version EXCEPT !.status = status] \in RevisionSet
         /\ [version EXCEPT !.status = status].status = status
         /\ [version EXCEPT !.status = status].slides = version.slides
         /\ [version EXCEPT !.status = status].key = version.key
BY DEF RevisionSet

FirstVersions == [[v \in Revisions |-> NoRevision] EXCEPT ![1].status = "GENERATING"]

LEMMA FirstVersionsType ==
  /\ FirstVersions \in [Revisions -> RevisionSet]
  /\ \A u \in Revisions : FirstVersions[u].slides = 0 /\ FirstVersions[u].status # "READY"
<1> DEFINE w == [v \in Revisions |-> NoRevision]
           first == [NoRevision EXCEPT !.status = "GENERATING"]
<1>1. NoRevision \in RevisionSet /\ NoRevision.slides = 0 /\ NoRevision.status = "NONE"
  BY Bounds DEF NoRevision, RevisionSet, ShelfStatus
<1>2. first \in RevisionSet /\ first.slides = 0 /\ first.status = "GENERATING"
  BY <1>1, WithStatus DEF ShelfStatus
<1>3. w \in [Revisions -> RevisionSet] /\ \A u \in Revisions : w[u] = NoRevision
  BY <1>1
<1>4. FirstVersions = [w EXCEPT ![1] = [w[1] EXCEPT !.status = "GENERATING"]]
  BY DEF FirstVersions
<1>5. [w[1] EXCEPT !.status = "GENERATING"] = first
  BY Bounds
<1> HIDE DEF w, first
<1>6. FirstVersions = [w EXCEPT ![1] = first]
  BY <1>4, <1>5
<1> QED
  BY <1>1, <1>2, <1>3, <1>6, Bounds

\* The documents the steps write.
Newborn(type) ==
  [NoArtifact EXCEPT !.type = type, !.current = 1, !.versions[1].status = "GENERATING"]

LEMMA NewbornDocument ==
  ASSUME NEW type \in ShelfTypes
  PROVE  /\ Newborn(type) \in Documents
         /\ Newborn(type).type = type /\ Newborn(type).current # 0
         /\ Newborn(type).versions = FirstVersions
<1> DEFINE w == [NoArtifact.versions EXCEPT ![1].status = "GENERATING"]
<1>1. 1 \in 0..MaxRevisions /\ 0 \in 0..MaxRevisions /\ 1 \in 1..MaxMonths
  BY Bounds, PagingAssumption
<1>2. w = FirstVersions
  BY DEF NoArtifact, FirstVersions
<1>3. FirstVersions \in [Revisions -> [status : ShelfStatus, slides : Texts, key : BOOLEAN]]
  BY FirstVersionsType DEF RevisionSet
<1>4. NoArtifact \in Documents
  <2>1. NoRevision \in [status : ShelfStatus, slides : Texts, key : BOOLEAN]
    BY Bounds DEF NoRevision, ShelfStatus
  <2> QED BY <2>1, <1>1 DEF NoArtifact, Documents, ShelfTypes
<1>5. Newborn(type) = [NoArtifact EXCEPT !.type = type, !.current = 1, !.versions = w]
  BY DEF Newborn
<1>6. ASSUME NEW d \in Documents
      PROVE  /\ [d EXCEPT !.type = type, !.current = 1, !.versions = FirstVersions] \in Documents
             /\ [d EXCEPT !.type = type, !.current = 1, !.versions = FirstVersions].type = type
             /\ [d EXCEPT !.type = type, !.current = 1, !.versions = FirstVersions].current = 1
             /\ [d EXCEPT !.type = type, !.current = 1, !.versions = FirstVersions].versions
                  = FirstVersions
  BY <1>1, <1>3 DEF Documents
<1> HIDE DEF w
<1>7. Newborn(type) = [NoArtifact EXCEPT !.type = type, !.current = 1, !.versions = FirstVersions]
  BY <1>2, <1>5
<1>8. Newborn(type) \in Documents /\ Newborn(type).type = type /\ Newborn(type).current = 1
      /\ Newborn(type).versions = FirstVersions
  BY <1>4, <1>6, <1>7, Zenon
<1> QED
  BY <1>8

\* A document but for one of its versions.
Revises(doc, d, v, version) ==
  /\ doc \in Documents
  /\ doc.type = d.type
  /\ doc.versions[v] = version
  /\ \A u \in Revisions \ {v} : doc.versions[u] = d.versions[u]

LEMMA RevisedDocument ==
  ASSUME NEW d \in Documents, NEW v \in Revisions, NEW version \in RevisionSet, NEW doc,
         \/ doc = [d EXCEPT !.versions[v] = version]
         \/ doc = [d EXCEPT !.current = v, !.versions[v] = version]
  PROVE  Revises(doc, d, v, version) /\ doc.current \in {d.current, v}
<1> DEFINE x == [d.versions EXCEPT ![v] = version]
<1>1. d.versions \in [Revisions -> RevisionSet] /\ v \in 0..MaxRevisions
  BY DEF Documents, RevisionSet, Revisions
<1>2. /\ x \in [Revisions -> RevisionSet] /\ x[v] = version
      /\ \A u \in Revisions \ {v} : x[u] = d.versions[u]
  BY <1>1
<1>3. \/ doc = [d EXCEPT !.versions = x]
      \/ doc = [d EXCEPT !.current = v, !.versions = x]
  BY DEF Documents
<1> HIDE DEF x
<1>4. ASSUME doc = [d EXCEPT !.current = v, !.versions = x]
      PROVE  /\ doc \in Documents /\ doc.type = d.type /\ doc.current = v
             /\ doc.versions = x
  BY <1>1, <1>2, <1>4 DEF Documents, RevisionSet
<1>5. ASSUME doc = [d EXCEPT !.versions = x]
      PROVE  /\ doc \in Documents /\ doc.type = d.type /\ doc.current = d.current
             /\ doc.versions = x
  BY <1>1, <1>2, <1>5 DEF Documents, RevisionSet
<1>6. /\ doc \in Documents /\ doc.type = d.type /\ doc.current \in {d.current, v}
      /\ doc.versions = x
  BY <1>3, <1>4, <1>5
<1> QED
  BY <1>2, <1>6 DEF Revises

\* What the steps need to know of one artifact.
LEMMA DeckFacts ==
  ASSUME LibInv, NEW i \in Items
  PROVE  /\ ListInv /\ DeckInv /\ artifacts[i] \in Documents /\ artifacts[i].type \in ShelfTypes
         /\ artifacts[i].versions \in [Revisions -> RevisionSet]
         /\ pdfs \in [Items -> [Revisions -> Texts]]
         /\ attempts \in [Items -> [Revisions -> [Tries -> Stages]]]
         /\ \A u \in Revisions :
              VersionInv(artifacts[i].type, artifacts[i].versions[u], pdfs[i][u], attempts[i][u])
         /\ \A v \in Revisions, n \in Tries : attempts[i][v][n] # "none" => artifacts[i].current # 0
<1>1. artifacts[i] \in Documents /\ artifacts \in [Items -> Documents]
  BY DEF LibInv, DeckInv, Decks
<1>2. artifacts[i].type \in ShelfTypes /\ artifacts[i].versions \in [Revisions -> RevisionSet]
  BY <1>1 DEF Documents, RevisionSet
<1> QED
  BY <1>1, <1>2 DEF LibInv, DeckInv, Decks

LEMMA Create_Inv ==
  ASSUME LibInv, NEW i \in Items, NEW type \in ShelfTypes, Create(i, type)
  PROVE  LibInv'
<1> DEFINE doc == Newborn(type)
<1>1. /\ doc \in Documents /\ doc.type = type /\ doc.current # 0 /\ doc.versions = FirstVersions
  BY NewbornDocument
<1>2. artifacts[i].current = 0 /\ Write(i, doc) /\ Moves(i, 1, 1, "generating") /\ pdfs' = pdfs
  BY DEF Create, Created, Newborn, Moves
<1> HIDE DEF doc
<1>3. /\ ListInv' /\ artifacts' \in [Items -> Documents]
      /\ artifacts'[i].type = type /\ artifacts'[i].versions = FirstVersions
      /\ artifacts'[i].current # 0
      /\ \A j \in Items \ {i} : artifacts'[j] = artifacts[j]
  BY <1>1, <1>2, DeckFacts, Write_List
<1>4. 1 \in Revisions /\ 1 \in Tries /\ "generating" \in Stages
  BY Bounds DEF Stages
<1>5. /\ attempts' \in [Items -> [Revisions -> [Tries -> Stages]]]
      /\ OnlyAt(attempts', attempts, i, 1)
      /\ \A k \in Tries \ {1} : attempts'[i][1][k] = attempts[i][1][k]
      /\ attempts'[i][1][1] = "generating"
  BY <1>2, <1>4, DeckFacts, MovesIs
<1>6. \A u \in Revisions, n \in Tries : attempts[i][u][n] = "none"
  BY <1>2, DeckFacts
<1>7. \A u \in Revisions : pdfs[i][u] \in {0, 1}
  BY <1>6, DeckFacts DEF VersionInv
<1>8. \A u \in Revisions : FirstVersions[u].slides = 0 /\ FirstVersions[u].status # "READY"
  BY FirstVersionsType
<1>9. \A u \in Revisions : VersionInv(type, FirstVersions[u], pdfs[i][u], attempts[i][u])
  BY <1>6, <1>7, <1>8 DEF VersionInv
<1>10. VersionInv(type, FirstVersions[1], pdfs[i][1], attempts'[i][1])
  BY <1>4, <1>5, <1>6, <1>7, <1>8 DEF VersionInv
<1>11. pdfs \in [Items -> [Revisions -> Texts]] /\ DeckInv
  BY DeckFacts
<1>12. Decks(artifacts', pdfs, attempts')
  <2>1. OnlyAt(pdfs, pdfs, i, 1)
    BY OnlySame
  <2> QED BY <2>1, <1>3, <1>4, <1>5, <1>9, <1>10, <1>11, OneVersion
<1> QED
  BY <1>2, <1>3, <1>12 DEF LibInv, DeckInv

\* A version is written, and its attempts are what they become.
LEMMA Revise_Inv ==
  ASSUME LibInv, NEW i \in Items, NEW v \in Revisions, NEW doc, NEW version,
         Revises(doc, artifacts[i], v, version), doc.current # 0, Write(i, doc),
         pdfs' = pdfs, attempts' \in [Items -> [Revisions -> [Tries -> Stages]]],
         OnlyAt(attempts', attempts, i, v),
         VersionInv(artifacts[i].type, version, pdfs[i][v], attempts'[i][v])
  PROVE  LibInv'
<1>1. ListInv /\ DeckInv /\ pdfs \in [Items -> [Revisions -> Texts]]
  BY DeckFacts
<1>2. /\ doc \in Documents /\ doc.type = artifacts[i].type /\ doc.versions[v] = version
      /\ \A u \in Revisions \ {v} : doc.versions[u] = artifacts[i].versions[u]
  BY DEF Revises
<1>3. /\ ListInv' /\ artifacts' \in [Items -> Documents]
      /\ artifacts'[i].type = doc.type /\ artifacts'[i].versions = doc.versions
      /\ artifacts'[i].current = doc.current
      /\ \A j \in Items \ {i} : artifacts'[j] = artifacts[j]
  BY <1>1, <1>2, Write_List
<1>4. \A u \in Revisions \ {v} :
        VersionInv(artifacts'[i].type, artifacts'[i].versions[u], pdfs[i][u], attempts[i][u])
  BY <1>2, <1>3, DeckFacts
<1>5. VersionInv(artifacts'[i].type, artifacts'[i].versions[v], pdfs[i][v], attempts'[i][v])
  BY <1>2, <1>3
<1>6. artifacts'[i].current # 0
  BY <1>2, <1>3
<1>7. Decks(artifacts', pdfs, attempts')
  <2>1. OnlyAt(pdfs, pdfs, i, v)
    BY OnlySame
  <2> QED BY <2>1, <1>1, <1>3, <1>4, <1>5, <1>6, OneVersion
<1> QED
  BY <1>3, <1>7 DEF LibInv, DeckInv

LEMMA Refine_Inv ==
  ASSUME LibInv, NEW i \in Items, Refine(i)
  PROVE  LibInv'
<1> DEFINE v == artifacts[i].current + 1
           status == IF HasPrior(i, v) THEN "GENERATING" ELSE "FAILED"
           at == IF HasPrior(i, v) THEN "generating" ELSE "over"
           version == [artifacts[i].versions[v] EXCEPT !.status = status]
           doc == [artifacts[i] EXCEPT !.current = v, !.versions[v].status = status]
<1>1. /\ v \in Revisions /\ Write(i, doc) /\ Moves(i, v, 1, at) /\ pdfs' = pdfs
      /\ artifacts[i].current # 0
  BY DEF Refine, Moves, OnShelf, Created
<1>2. status \in ShelfStatus /\ status # "READY" /\ at \in Stages \ {"rendered", "written"}
  BY DEF ShelfStatus, Stages
<1>3. doc = [artifacts[i] EXCEPT !.current = v, !.versions[v] = version]
  OBVIOUS
<1> HIDE DEF doc, at, status
<1>4. artifacts[i] \in Documents /\ artifacts[i].versions[v] \in RevisionSet /\ DeckInv
  BY <1>1, DeckFacts
<1>5. version \in RevisionSet /\ version.status = status
      /\ version.slides = artifacts[i].versions[v].slides
  BY <1>2, <1>4, WithStatus
<1> HIDE DEF version, v
<1>6. Revises(doc, artifacts[i], v, version) /\ doc.current \in {artifacts[i].current, v}
  BY <1>1, <1>3, <1>4, <1>5, RevisedDocument
<1>7. 1 \in Tries /\ v # 0
  BY <1>1, Bounds
<1>8. /\ attempts' \in [Items -> [Revisions -> [Tries -> Stages]]]
      /\ OnlyAt(attempts', attempts, i, v)
      /\ \A k \in Tries \ {1} : attempts'[i][v][k] = attempts[i][v][k]
      /\ attempts'[i][v][1] = at
  BY <1>1, <1>2, <1>4, <1>7, MovesIs
<1>9. VersionInv(artifacts[i].type, artifacts[i].versions[v], pdfs[i][v], attempts[i][v])
  BY <1>1, DeckFacts
<1>10. VersionInv(artifacts[i].type, version, pdfs[i][v], attempts'[i][v])
  BY <1>2, <1>5, <1>7, <1>8, <1>9, Bounds DEF VersionInv
<1> QED
  BY <1>1, <1>6, <1>7, <1>8, <1>10, Revise_Inv

LEMMA Edit_Inv ==
  ASSUME LibInv, NEW i \in Items, NEW slides \in BOOLEAN, Edit(i, slides)
  PROVE  LibInv'
<1> DEFINE v == artifacts[i].current
           old == artifacts[i].versions[v]
           version == Merge(old, slides)
           doc == [artifacts[i] EXCEPT !.versions[v] = version]
<1>1. /\ Write(i, doc) /\ pdfs' = pdfs /\ attempts' = attempts /\ v # 0
  BY DEF Edit, Shown, OnShelf, Created
<1>2. artifacts[i] \in Documents /\ DeckInv
  BY DeckFacts
<1>3. v \in Revisions
  BY <1>1, <1>2, LibraryAssumption DEF Documents, Revisions
<1> HIDE DEF v
<1>4. old \in RevisionSet
  BY <1>3, DeckFacts
<1> HIDE DEF old
<1>5. /\ version \in RevisionSet /\ version.status = old.status /\ version.key = old.key
      /\ version.slides \in {old.slides, Edited} /\ Edited # 0
  BY <1>4, Bounds DEF Merge, RevisionSet
<1>6. VersionInv(artifacts[i].type, old, pdfs[i][v], attempts[i][v])
  BY <1>3, DeckFacts DEF old
<1>7. VersionInv(artifacts[i].type, version, pdfs[i][v], attempts[i][v])
  BY <1>5, <1>6 DEF VersionInv
<1> HIDE DEF version
<1>8. Revises(doc, artifacts[i], v, version) /\ doc.current \in {artifacts[i].current, v}
  BY <1>2, <1>3, <1>5, RevisedDocument
<1> HIDE DEF doc
<1>9. attempts' \in [Items -> [Revisions -> [Tries -> Stages]]]
  BY <1>1, DeckFacts
<1>10. doc.current # 0
  BY <1>1, <1>8 DEF v
<1> QED
  <2>1. OnlyAt(attempts', attempts, i, v)
    BY <1>1, OnlySame
  <2> QED BY <2>1, <1>1, <1>3, <1>7, <1>8, <1>9, <1>10, Revise_Inv

\* A step that writes nothing about a version.
LEMMA Mark_Inv ==
  ASSUME LibInv, NEW i \in Items, NEW doc, doc \in Documents, doc.type = artifacts[i].type,
         doc.versions = artifacts[i].versions, doc.current # 0, Write(i, doc),
         UNCHANGED <<pdfs, attempts>>
  PROVE  LibInv'
<1>1. 1 \in Revisions
  BY Bounds
<1>2. Revises(doc, artifacts[i], 1, artifacts[i].versions[1])
  BY DEF Revises
<1>3. attempts' \in [Items -> [Revisions -> [Tries -> Stages]]]
  BY DeckFacts
<1>4. VersionInv(artifacts[i].type, artifacts[i].versions[1], pdfs[i][1], attempts'[i][1])
  BY <1>1, DeckFacts
<1>5. OnlyAt(attempts', attempts, i, 1)
  BY OnlySame
<1> QED
  BY <1>1, <1>2, <1>3, <1>4, <1>5, Revise_Inv

LEMMA Pin_Inv ==
  ASSUME LibInv, NEW i \in Items, Pin(i) \/ Delete(i)
  PROVE  LibInv'
<1> DEFINE pin == [artifacts[i] EXCEPT !.pinned = artifacts[i].current]
           del == [artifacts[i] EXCEPT !.deleted = TRUE]
<1>1. /\ Write(i, pin) \/ Write(i, del)
      /\ UNCHANGED <<pdfs, attempts>> /\ artifacts[i].current # 0
  BY DEF Pin, Delete, OnShelf, Created
<1>2. artifacts[i] \in Documents
  BY DeckFacts
<1>3. /\ pin \in Documents /\ pin.type = artifacts[i].type
      /\ pin.versions = artifacts[i].versions /\ pin.current = artifacts[i].current
  BY <1>2 DEF Documents
<1>4. /\ del \in Documents /\ del.type = artifacts[i].type
      /\ del.versions = artifacts[i].versions /\ del.current = artifacts[i].current
  BY <1>2 DEF Documents
<1> HIDE DEF pin, del
<1> QED
  BY <1>1, <1>3, <1>4, Mark_Inv

LEMMA Unpin_Inv ==
  ASSUME LibInv, NEW i \in Items, Unpin(i)
  PROVE  LibInv'
<1>1. artifacts \in [Items -> Documents] /\ artifacts[i] \in Documents /\ ListInv /\ DeckInv
  BY DeckFacts DEF ListInv, Shelved
<1> DEFINE doc == [artifacts[i] EXCEPT !.pinned = 0]
<1>2. /\ artifacts' = [artifacts EXCEPT ![i] = doc]
      /\ UNCHANGED <<shelf, pdfs, attempts, reader, month>>
  BY DEF Unpin, pagingVars
<1>3. /\ doc \in Documents /\ doc.type = artifacts[i].type /\ doc.current = artifacts[i].current
      /\ doc.deleted = artifacts[i].deleted /\ doc.stamp = artifacts[i].stamp
      /\ doc.versions = artifacts[i].versions
  <2>1. 0 \in 0..MaxRevisions
    BY LibraryAssumption
  <2> QED BY <1>1, <2>1 DEF Documents
<1> HIDE DEF doc
<1>4. artifacts' \in [Items -> Documents]
  BY <1>1, <1>2, <1>3
<1>5. \A j \in Items : /\ artifacts'[j].type = artifacts[j].type
                       /\ artifacts'[j].current = artifacts[j].current
                       /\ artifacts'[j].deleted = artifacts[j].deleted
                       /\ artifacts'[j].stamp = artifacts[j].stamp
                       /\ artifacts'[j].versions = artifacts[j].versions
  BY <1>1, <1>2, <1>3
<1>6. month' \in 1..MaxMonths
  BY <1>1, <1>2 DEF ListInv
<1>7. ListInv'
  BY <1>1, <1>2, <1>4, <1>5, <1>6, Rest_List
<1>8. Decks(artifacts', pdfs, attempts)
  BY <1>1, <1>4, <1>5 DEF DeckInv, Decks
<1> QED
  BY <1>2, <1>7, <1>8 DEF LibInv, DeckInv

-----------------------------------------------------------------------------
(* Attempts *)

\* A step of an attempt that does not write the document.
LEMMA Attempt_Inv ==
  ASSUME LibInv, NEW i \in Items, NEW v \in Revisions,
         UNCHANGED <<artifacts, shelf, pagingVars>>, artifacts[i].current # 0,
         pdfs' \in [Items -> [Revisions -> Texts]],
         attempts' \in [Items -> [Revisions -> [Tries -> Stages]]],
         OnlyAt(pdfs', pdfs, i, v), OnlyAt(attempts', attempts, i, v),
         VersionInv(artifacts[i].type, artifacts[i].versions[v], pdfs'[i][v], attempts'[i][v])
  PROVE  LibInv'
<1>1. /\ artifacts \in [Items -> Documents] /\ ListInv /\ DeckInv
  BY DeckFacts DEF ListInv, Shelved
<1>2. ListInv'
  <2>1. month' \in 1..MaxMonths /\ UNCHANGED <<shelf, reader>> /\ artifacts' = artifacts
    BY <1>1 DEF ListInv, pagingVars
  <2> QED BY <1>1, <2>1, Rest_List
<1>3. \A u \in Revisions \ {v} :
        VersionInv(artifacts[i].type, artifacts[i].versions[u], pdfs[i][u], attempts[i][u])
  BY DeckFacts
<1>4. Decks(artifacts, pdfs', attempts')
  BY <1>1, <1>3, OneVersion
<1> QED
  BY <1>2, <1>4 DEF LibInv, DeckInv

LEMMA RenderDeck_Inv ==
  ASSUME LibInv, NEW i \in Items, NEW v \in Revisions, NEW n \in Tries, RenderDeck(i, v, n)
  PROVE  LibInv'
<1>1. /\ attempts[i][v][n] = "generating" /\ Moves(i, v, n, "rendered")
      /\ pdfs' = [pdfs EXCEPT ![i][v] = n] /\ UNCHANGED <<artifacts, shelf, pagingVars>>
  BY DEF RenderDeck, At, PdfKey
<1>2. artifacts[i].current # 0 /\ DeckInv /\ pdfs \in [Items -> [Revisions -> Texts]]
  BY <1>1, DeckFacts
<1>3. n \in Texts /\ n # 0 /\ n \in Nat /\ "rendered" \in Stages
  BY Bounds DEF Stages
<1>4. /\ attempts' \in [Items -> [Revisions -> [Tries -> Stages]]]
      /\ OnlyAt(attempts', attempts, i, v)
      /\ \A k \in Tries \ {n} : attempts'[i][v][k] = attempts[i][v][k]
      /\ attempts'[i][v][n] = "rendered"
  BY <1>1, <1>2, <1>3, MovesIs
<1>5. /\ pdfs' \in [Items -> [Revisions -> Texts]]
      /\ OnlyAt(pdfs', pdfs, i, v)
      /\ pdfs'[i][v] = n
  BY <1>1, <1>2, <1>3 DEF OnlyAt
<1>6. VersionInv(artifacts[i].type, artifacts[i].versions[v], pdfs[i][v], attempts[i][v])
  BY DeckFacts
<1>7. VersionInv(artifacts[i].type, artifacts[i].versions[v], n, attempts'[i][v])
  <2>1. (\A k \in Tries : k > 1 => attempts'[i][v][k] = "none") =>
          n = 1 /\ (\A k \in Tries : k > 1 => attempts[i][v][k] = "none")
    <3>1. n > 1 \/ n = 1
      BY <1>3
    <3> QED BY <3>1, <1>4
  <2> QED BY <2>1, <1>3, <1>6 DEF VersionInv
<1> QED
  BY <1>1, <1>2, <1>4, <1>5, <1>7, Attempt_Inv

LEMMA Persist_Inv ==
  ASSUME LibInv, NEW i \in Items, NEW v \in Revisions, NEW n \in Tries, Persist(i, v, n)
  PROVE  LibInv'
<1> DEFINE type == artifacts[i].type
           version == FoldRender(type, n)
           doc == [artifacts[i] EXCEPT !.versions[v] = version]
<1>1. /\ attempts[i][v][n] = IF type = "DOCUMENT" THEN "rendered" ELSE "generating"
      /\ Write(i, doc) /\ Moves(i, v, n, "written") /\ pdfs' = pdfs
  BY DEF Persist, At
<1>2. n \in Texts /\ n # 0 /\ n \in Nat /\ "written" \in Stages
  BY Bounds DEF Stages
<1>3. /\ version \in RevisionSet /\ version.status = "READY" /\ version.slides = n
      /\ version.key <=> type = "DOCUMENT"
  BY <1>2 DEF FoldRender, RevisionSet, ShelfStatus
<1> HIDE DEF version
<1>4. artifacts[i].current # 0 /\ DeckInv /\ artifacts[i] \in Documents
  BY <1>1, DeckFacts
<1>10. doc = [artifacts[i] EXCEPT !.versions[v] = version]
  OBVIOUS
<1> HIDE DEF doc
<1>5. Revises(doc, artifacts[i], v, version) /\ doc.current \in {artifacts[i].current, v}
  BY <1>3, <1>4, <1>10, RevisedDocument
<1>6. doc.current # 0
  BY <1>4, <1>5, Bounds
<1>7. /\ attempts' \in [Items -> [Revisions -> [Tries -> Stages]]]
      /\ OnlyAt(attempts', attempts, i, v)
      /\ \A k \in Tries \ {n} : attempts'[i][v][k] = attempts[i][v][k]
      /\ attempts'[i][v][n] = "written"
  BY <1>1, <1>2, <1>4, MovesIs
<1>8. VersionInv(type, artifacts[i].versions[v], pdfs[i][v], attempts[i][v])
  BY DeckFacts
<1> HIDE DEF type
<1>9. VersionInv(type, version, pdfs[i][v], attempts'[i][v])
  <2>1. (\A k \in Tries : k > 1 => attempts'[i][v][k] = "none") =>
          n = 1 /\ (\A k \in Tries : k > 1 => attempts[i][v][k] = "none")
    <3>1. n > 1 \/ n = 1
      BY <1>2
    <3> QED BY <3>1, <1>7
  <2>2. type = "DOCUMENT" => pdfs[i][v] # 0
    BY <1>1, <1>8 DEF VersionInv
  <2> QED BY <2>1, <2>2, <1>2, <1>3, <1>8 DEF VersionInv
<1> QED
  BY <1>1, <1>5, <1>6, <1>7, <1>9, Revise_Inv DEF type

\* The same, with the PDF untouched too.
LEMMA AttemptOnly_Inv ==
  ASSUME LibInv, NEW i \in Items, NEW v \in Revisions,
         UNCHANGED <<artifacts, shelf, pagingVars>>, artifacts[i].current # 0, pdfs' = pdfs,
         attempts' \in [Items -> [Revisions -> [Tries -> Stages]]],
         OnlyAt(attempts', attempts, i, v),
         VersionInv(artifacts[i].type, artifacts[i].versions[v], pdfs[i][v], attempts'[i][v])
  PROVE  LibInv'
<1>1. /\ pdfs' \in [Items -> [Revisions -> Texts]]
      /\ OnlyAt(pdfs', pdfs, i, v)
  BY DeckFacts, OnlySame
<1>2. VersionInv(artifacts[i].type, artifacts[i].versions[v], pdfs'[i][v], attempts'[i][v])
  OBVIOUS
<1> QED
  BY <1>1, <1>2, Attempt_Inv

LEMMA RunEnds_Inv ==
  ASSUME LibInv, NEW i \in Items, NEW v \in Revisions, NEW n \in Tries, RunEnds(i, v, n)
  PROVE  LibInv'
<1>1. /\ attempts[i][v][n] = "written" /\ Moves(i, v, n, "over") /\ pdfs' = pdfs
      /\ UNCHANGED <<artifacts, shelf, pagingVars>>
  BY DEF RunEnds, At
<1>2. artifacts[i].current # 0 /\ DeckInv /\ pdfs \in [Items -> [Revisions -> Texts]]
  BY <1>1, DeckFacts
<1>3. "over" \in Stages
  BY DEF Stages
<1>4. /\ attempts' \in [Items -> [Revisions -> [Tries -> Stages]]]
      /\ OnlyAt(attempts', attempts, i, v)
      /\ \A k \in Tries \ {n} : attempts'[i][v][k] = attempts[i][v][k]
      /\ attempts'[i][v][n] = "over"
  BY <1>1, <1>2, <1>3, MovesIs
<1>5. VersionInv(artifacts[i].type, artifacts[i].versions[v], pdfs[i][v], attempts[i][v])
  BY DeckFacts
<1>6. VersionInv(artifacts[i].type, artifacts[i].versions[v], pdfs[i][v], attempts'[i][v])
  <2>1. (\A k \in Tries : k > 1 => attempts'[i][v][k] = "none") =>
          (\A k \in Tries : k > 1 => attempts[i][v][k] = "none")
    BY <1>4
  <2>2. (\E k \in Tries : attempts'[i][v][k] \in {"rendered", "written"}) =>
          (\E k \in Tries : attempts[i][v][k] \in {"rendered", "written"})
    BY <1>1, <1>4
  <2> QED BY <2>1, <2>2, <1>5 DEF VersionInv
<1> QED
  BY <1>1, <1>2, <1>4, <1>6, AttemptOnly_Inv

LEMMA Retry_Inv ==
  ASSUME LibInv, NEW i \in Items, NEW v \in Revisions, NEW n \in Tries, Retry(i, v, n)
  PROVE  LibInv'
<1>1. PICK at \in {"over", attempts[i][v][n]} :
        attempts' = [attempts EXCEPT ![i][v] =
                       [attempts[i][v] EXCEPT ![n] = at, ![n + 1] = "generating"]]
  BY DEF Retry
<1>2. /\ n + 1 \in Tries /\ attempts[i][v][n] # "none" /\ pdfs' = pdfs
      /\ UNCHANGED <<artifacts, shelf, pagingVars>>
  BY DEF Retry, Underway
<1>3. /\ artifacts[i].current # 0 /\ DeckInv /\ pdfs \in [Items -> [Revisions -> Texts]]
      /\ attempts \in [Items -> [Revisions -> [Tries -> Stages]]]
  BY <1>2, DeckFacts
<1>4. n + 1 > 1 /\ n + 1 # n
  BY <1>2, Bounds
<1> DEFINE m == n + 1
           tries == [attempts[i][v] EXCEPT ![n] = at, ![m] = "generating"]
<1>5. /\ tries \in [Tries -> Stages] /\ tries[n] = at /\ tries[m] = "generating"
      /\ \A k \in Tries \ {n, m} : tries[k] = attempts[i][v][k]
  <2> HIDE DEF m
  <2>1. attempts[i][v] \in [Tries -> Stages] /\ at \in Stages /\ "generating" \in Stages
        /\ m \in Tries /\ m # n
    BY <1>1, <1>2, <1>3, <1>4 DEF m, Stages
  <2> QED BY <2>1
<1>6. attempts' = [attempts EXCEPT ![i][v] = tries]
  BY <1>1
<1> HIDE DEF tries
<1>7. /\ attempts' \in [Items -> [Revisions -> [Tries -> Stages]]]
      /\ OnlyAt(attempts', attempts, i, v)
      /\ attempts'[i][v] = tries
  BY <1>3, <1>5, <1>6 DEF OnlyAt
<1>8. VersionInv(artifacts[i].type, artifacts[i].versions[v], pdfs[i][v], attempts[i][v])
  BY DeckFacts
<1>9. VersionInv(artifacts[i].type, artifacts[i].versions[v], pdfs[i][v], tries)
  <2>1. ~(\A k \in Tries : k > 1 => tries[k] = "none")
    BY <1>2, <1>4, <1>5
  <2>2. (\E k \in Tries : tries[k] \in {"rendered", "written"}) =>
          (\E k \in Tries : attempts[i][v][k] \in {"rendered", "written"})
    BY <1>1, <1>5
  <2> QED BY <2>1, <2>2, <1>8 DEF VersionInv
<1> QED
  BY <1>2, <1>3, <1>7, <1>9, AttemptOnly_Inv

LEMMA Fail_Inv ==
  ASSUME LibInv, NEW i \in Items, NEW v \in Revisions, NEW n \in Tries, Fail(i, v, n)
  PROVE  LibInv'
<1> DEFINE old == artifacts[i].versions[v]
           version == [old EXCEPT !.status = "FAILED"]
           doc == [artifacts[i] EXCEPT !.versions[v].status = "FAILED"]
<1>1. /\ attempts[i][v][n] # "none" /\ Moves(i, v, n, "over") /\ pdfs' = pdfs
      /\ UNCHANGED <<artifacts, shelf, pagingVars>> \/ Write(i, doc)
  BY DEF Fail, Underway
<1>2. /\ artifacts[i].current # 0 /\ DeckInv /\ pdfs \in [Items -> [Revisions -> Texts]]
      /\ artifacts[i] \in Documents /\ old \in RevisionSet
  BY <1>1, DeckFacts
<1>3. "over" \in Stages /\ "FAILED" \in ShelfStatus /\ "FAILED" # "READY"
  BY DEF Stages, ShelfStatus
<1>4. /\ attempts' \in [Items -> [Revisions -> [Tries -> Stages]]]
      /\ OnlyAt(attempts', attempts, i, v)
      /\ \A k \in Tries \ {n} : attempts'[i][v][k] = attempts[i][v][k]
      /\ attempts'[i][v][n] = "over"
  <2> HIDE DEF doc
  <2> QED BY <1>1, <1>2, <1>3, MovesIs
<1>5. doc = [artifacts[i] EXCEPT !.versions[v] = version]
  OBVIOUS
<1> HIDE DEF doc, old
<1>6. VersionInv(artifacts[i].type, old, pdfs[i][v], attempts[i][v])
  BY DeckFacts DEF old
<1>7. version \in RevisionSet /\ version.status = "FAILED" /\ version.slides = old.slides
  BY <1>2, <1>3, WithStatus
<1> HIDE DEF version
<1>8. /\ VersionInv(artifacts[i].type, old, pdfs[i][v], attempts'[i][v])
      /\ VersionInv(artifacts[i].type, version, pdfs[i][v], attempts'[i][v])
  <2>1. (\A k \in Tries : k > 1 => attempts'[i][v][k] = "none") =>
          (\A k \in Tries : k > 1 => attempts[i][v][k] = "none")
    BY <1>4
  <2>2. (\E k \in Tries : attempts'[i][v][k] \in {"rendered", "written"}) =>
          (\E k \in Tries : attempts[i][v][k] \in {"rendered", "written"})
    BY <1>4
  <2> QED BY <2>1, <2>2, <1>3, <1>6, <1>7 DEF VersionInv
<1>9. CASE UNCHANGED <<artifacts, shelf, pagingVars>>
  BY <1>1, <1>2, <1>4, <1>8, <1>9, AttemptOnly_Inv DEF old
<1>10. CASE Write(i, doc)
  <2>1. Revises(doc, artifacts[i], v, version) /\ doc.current \in {artifacts[i].current, v}
    BY <1>2, <1>5, <1>7, RevisedDocument
  <2>2. doc.current # 0
    BY <2>1, <1>2, Bounds
  <2> QED BY <2>1, <2>2, <1>1, <1>4, <1>8, <1>10, Revise_Inv
<1> QED
  BY <1>1, <1>9, <1>10

-----------------------------------------------------------------------------
(* The library *)

LEMMA LibraryInit_Inv ==
  PagingInit /\ LibraryInit => LibInv
<1> SUFFICES ASSUME PagingInit, LibraryInit
             PROVE  LibInv
  OBVIOUS
<1>1. /\ 1 \in 1..MaxMonths /\ 0 \in 0..MaxRevisions /\ month = 1 /\ reader = Idle
  BY PagingAssumption, LibraryAssumption DEF PagingInit
<1>2. NoRevision \in RevisionSet /\ NoRevision.status = "NONE" /\ NoRevision.slides = 0
  BY Bounds DEF NoRevision, RevisionSet, ShelfStatus
<1>3. /\ NoArtifact \in Documents /\ NoArtifact.current = 0
      /\ \A v \in Revisions : NoArtifact.versions[v] = NoRevision
  BY <1>1, <1>2 DEF NoArtifact, Documents, ShelfTypes, RevisionSet
<1>4. /\ artifacts \in [Items -> Documents] /\ \A i \in Items : artifacts[i] = NoArtifact
  BY <1>3 DEF LibraryInit
<1>5. ShelfInv(shelf) /\ \A i \in Items : shelf[i] = 0
  <2>1. shelf \in [Items -> Nat] /\ \A i \in Items : shelf[i] = 0
    BY DEF LibraryInit
  <2>2. OnIt(shelf) = {}
    BY <2>1 DEF OnIt
  <2>3. Cardinality({}) = 0
    BY FS_EmptySet
  <2> QED BY <2>1, <2>2, <2>3 DEF ShelfInv
<1>6. ListInv
  BY <1>1, <1>3, <1>4, <1>5, IdleReader DEF ListInv, Shelved
<1>7. pdfs \in [Items -> [Revisions -> Texts]] /\ \A i \in Items, v \in Revisions : pdfs[i][v] = 0
  BY Bounds DEF LibraryInit
<1>8. /\ attempts \in [Items -> [Revisions -> [Tries -> Stages]]]
      /\ \A i \in Items, v \in Revisions, n \in Tries : attempts[i][v][n] = "none"
  BY DEF LibraryInit, Stages
<1>9. \A i \in Items, v \in Revisions :
        VersionInv(artifacts[i].type, artifacts[i].versions[v], pdfs[i][v], attempts[i][v])
  BY <1>2, <1>3, <1>4, <1>7, <1>8 DEF VersionInv
<1> QED
  BY <1>4, <1>6, <1>7, <1>8, <1>9 DEF LibInv, DeckInv, Decks

LEMMA ReadArtifacts_Inv ==
  ASSUME LibInv, NEW f \in Filters(ShelfTypes, ShelfStatus \ {"NONE"}), ReadArtifacts(f)
  PROVE  LibInv'
<1>1. ListInv'
  BY ReadArtifacts_List DEF LibInv
<1>2. UNCHANGED <<artifacts, pdfs, attempts>>
  BY DEF ReadArtifacts, libraryVars
<1> QED
  BY <1>1, <1>2 DEF LibInv, DeckInv

LEMMA LibraryRests_Inv ==
  ASSUME LibInv, UNCHANGED <<reader, libraryVars>>, month' \in 1..MaxMonths
  PROVE  LibInv'
<1>1. UNCHANGED <<artifacts, shelf, pdfs, attempts, reader>>
  BY DEF libraryVars
<1>2. ListInv'
  BY <1>1, Rest_List DEF LibInv, ListInv, Shelved
<1> QED
  BY <1>1, <1>2 DEF LibInv, DeckInv

LEMMA LibraryNext_Inv ==
  ASSUME LibInv, LibraryNext
  PROVE  LibInv'
<1>1. ASSUME NEW i \in Items, NEW v \in Revisions, NEW n \in Tries,
             \/ RenderDeck(i, v, n) \/ Persist(i, v, n)
             \/ RunEnds(i, v, n) \/ Retry(i, v, n) \/ Fail(i, v, n)
      PROVE  LibInv'
  BY <1>1, RenderDeck_Inv, Persist_Inv, RunEnds_Inv, Retry_Inv, Fail_Inv
<1>2. ASSUME NEW i \in Items,
             \/ Refine(i) \/ Pin(i) \/ Unpin(i) \/ Delete(i)
             \/ \E slides \in BOOLEAN : Edit(i, slides)
             \/ \E type \in ShelfTypes : Create(i, type)
      PROVE  LibInv'
  BY <1>2, Create_Inv, Refine_Inv, Pin_Inv, Unpin_Inv, Edit_Inv
<1>3. ASSUME NEW f \in Filters(ShelfTypes, ShelfStatus \ {"NONE"}), ReadArtifacts(f)
      PROVE  LibInv'
  BY <1>3, ReadArtifacts_Inv
<1>4. ASSUME MonthEnds, UNCHANGED <<reader, libraryVars>>
      PROVE  LibInv'
  <2>1. month' \in 1..MaxMonths
    BY <1>4, PagingAssumption DEF MonthEnds, LibInv, ListInv
  <2> QED BY <1>4, <2>1, LibraryRests_Inv
<1> QED
  BY <1>1, <1>2, <1>3, <1>4 DEF LibraryNext

\* What users, attempts of runs and months do between two pages of GET /artifacts,
\* and attempts among themselves, keeps the invariant.
THEOREM LibraryInvariance == LibrarySpec => []LibInv
<1>1. LibInv /\ UNCHANGED <<libraryVars, pagingVars>> => LibInv'
  <2> SUFFICES ASSUME LibInv, UNCHANGED <<libraryVars, pagingVars>>
               PROVE  LibInv'
    OBVIOUS
  <2>1. month' \in 1..MaxMonths /\ UNCHANGED <<reader, libraryVars>>
    BY DEF LibInv, ListInv, pagingVars
  <2> QED BY <2>1, LibraryRests_Inv
<1>2. LibInv /\ [LibraryNext]_<<libraryVars, pagingVars>> => LibInv'
  BY <1>1, LibraryNext_Inv
<1> QED
  BY LibraryInit_Inv, <1>2, PTL DEF LibrarySpec

LEMMA LibraryTypes ==
  ASSUME LibInv
  PROVE  LibraryTypeOK /\ PagingTypeOK
<1>1. artifacts \in [Items -> Documents] /\ pdfs \in [Items -> [Revisions -> Texts]]
  BY DEF LibInv, DeckInv, Decks
<1>2. shelf \in [Items -> 0..MaxItems]
  BY ShelfType DEF LibInv, ListInv, Shelved
<1>3. PagingTypeOK
  BY ReaderTyped DEF LibInv, ListInv
<1> QED
  BY <1>1, <1>2, <1>3 DEF LibraryTypeOK, Documents

LEMMA LibraryShown ==
  ASSUME DeckInv
  PROVE  DeckShown
<1> SUFFICES ASSUME NEW i \in Items, NEW v \in Revisions, artifacts[i].type = "DOCUMENT",
                    artifacts[i].versions[v].status = "READY"
             PROVE  /\ Detail(i, v).pdf # 0
                    /\ OneAttempt(i, v) => Detail(i, v).slides \in {Edited, Detail(i, v).pdf}
  BY DEF DeckShown
<1>1. VersionInv(artifacts[i].type, artifacts[i].versions[v], pdfs[i][v], attempts[i][v])
  BY DEF DeckInv, Decks
<1>2. /\ artifacts[i].versions[v].key /\ artifacts[i].versions[v].slides # 0 /\ pdfs[i][v] # 0
      /\ (\A n \in Tries : n > 1 => attempts[i][v][n] = "none") =>
            pdfs[i][v] \in {0, 1} /\ artifacts[i].versions[v].slides \in {0, 1, Edited}
  BY <1>1 DEF VersionInv
<1>3. Detail(i, v).pdf = pdfs[i][v] /\ Detail(i, v).slides = artifacts[i].versions[v].slides
  BY <1>2 DEF Detail, Pdf, PdfKey
<1> QED
  BY <1>2, <1>3 DEF OneAttempt, At

\* The documents, their places by the last update, the stored PDFs and the client
\* that lists them are well typed.
THEOREM LibraryTyped == LibrarySpec => [](LibraryTypeOK /\ PagingTypeOK)
BY LibraryTypes, LibraryInvariance, PTL

\* persist, editArtifact, refine, failVersion: a READY document has a PDF, whatever
\* was edited, refined or tried again; it shows the slides of its version unless
\* they were edited or several attempts rendered them.
THEOREM DecksShown == LibrarySpec => []DeckShown
<1>1. LibInv => DeckShown
  BY LibraryShown DEF LibInv
<1> QED
  BY <1>1, LibraryInvariance, PTL

\* listArtifacts: every write brings an artifact to the front of the list that a
\* client is reading, and hides nothing but itself.
THEOREM LibraryPagesCover == LibrarySpec => []PagesCover
<1>1. LibInv => PagesCover
  BY ReaderTyped DEF LibInv, ListInv
<1> QED
  BY <1>1, LibraryInvariance, PTL

-----------------------------------------------------------------------------
(* What a client reads *)

\* What rests is as it began, and needs no more than its type and its decks.
ClientInv ==
  /\ part # "feed" => LibInv /\ FeedTypeOK
  /\ part = "feed" => FeedInv /\ LibraryTypeOK /\ DeckInv

LEMMA ClientInit_Inv ==
  Init => ClientInv
<1> SUFFICES ASSUME Init
             PROVE  ClientInv
  OBVIOUS
<1>1. LibInv /\ FeedInv
  BY LibraryInit_Inv, FeedInit_Inv DEF Init
<1> QED
  BY <1>1, LibraryTypes DEF ClientInv, FeedInv, LibInv

LEMMA ClientNext_Inv ==
  ASSUME ClientInv, [Next]_vars
  PROVE  ClientInv'
<1>0. part' = part
  BY DEF Next, vars
<1>1. CASE part # "feed"
  <2>1. UNCHANGED feedVars
    BY <1>1 DEF Next, vars
  <2>2. FeedTypeOK'
    BY <2>1, <1>1 DEF ClientInv, FeedTypeOK, feedVars
  <2>3. LibraryNext \/ UNCHANGED <<libraryVars, pagingVars>>
    BY <1>1 DEF Next, vars
  <2>4. CASE LibraryNext
    BY <2>4, <2>2, <1>0, <1>1, LibraryNext_Inv DEF ClientInv
  <2>5. CASE UNCHANGED <<libraryVars, pagingVars>>
    <3>1. month' \in 1..MaxMonths /\ UNCHANGED <<reader, libraryVars>>
      BY <2>5, <1>1 DEF ClientInv, LibInv, ListInv, pagingVars
    <3> QED BY <3>1, <2>2, <1>0, <1>1, LibraryRests_Inv DEF ClientInv
  <2> QED BY <2>3, <2>4, <2>5
<1>2. CASE part = "feed"
  <2>1. UNCHANGED libraryVars
    BY <1>2 DEF Next, vars
  <2>2. LibraryTypeOK' /\ DeckInv'
    <3>1. UNCHANGED <<artifacts, shelf, pdfs, attempts>>
      BY <2>1 DEF libraryVars
    <3> QED BY <3>1, <1>2 DEF ClientInv, LibraryTypeOK, DeckInv
  <2>3. FeedNext \/ UNCHANGED <<feedVars, pagingVars>>
    BY <1>2 DEF Next, vars
  <2>4. CASE FeedNext
    BY <2>4, <2>2, <1>0, <1>2, FeedNext_Inv DEF ClientInv
  <2>5. CASE UNCHANGED <<feedVars, pagingVars>>
    <3>1. month' \in 1..MaxMonths /\ UNCHANGED <<feedVars, reader>>
      BY <2>5, <1>2 DEF ClientInv, FeedInv, pagingVars
    <3> QED BY <3>1, <2>2, <1>0, <1>2, FeedRests_Inv DEF ClientInv
  <2> QED BY <2>3, <2>4, <2>5
<1> QED
  BY <1>1, <1>2

\* In each of the three settings the invariant of what moves is kept, and what
\* rests stays as it began.
THEOREM ClientInvariance == Spec => []ClientInv
BY ClientInit_Inv, ClientNext_Inv, PTL DEF Spec

\* Every reachable state of a setting is well typed.
THEOREM ClientTyped == Spec => []TypeOK
<1>1. FeedInv => PagingTypeOK /\ FeedTypeOK
  BY ReaderTyped DEF FeedInv
<1>2. ClientInv => TypeOK
  BY <1>1, LibraryTypes DEF ClientInv, TypeOK
<1> QED
  BY <1>2, ClientInvariance, PTL

\* Pages cover and decks are shown in all settings.
THEOREM ClientReads == Spec => [](DeckShown /\ PagesCover)
<1>1. LibInv => DeckInv /\ PagesCover
  BY ReaderTyped DEF LibInv, ListInv
<1>2. FeedInv => PagesCover
  BY ReaderTyped DEF FeedInv
<1>3. ClientInv => DeckShown /\ PagesCover
  BY <1>1, <1>2, LibraryShown DEF ClientInv
<1> QED
  BY <1>3, ClientInvariance, PTL
=============================================================================
