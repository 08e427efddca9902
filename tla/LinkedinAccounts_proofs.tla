------------------------ MODULE LinkedinAccounts_proofs ------------------------
(***************************************************************************)
(* What LinkedinAccounts promises holds for any numbers of users, members,   *)
(* pages and requests and for every cap and number of refresh attempts: who  *)
(* owns a member, how far the cap is overshot, which pages are active, and   *)
(* what the stored metadata says.                                            *)
(***************************************************************************)
EXTENDS LinkedinAccounts, FiniteSetTheorems, SequenceTheorems, TLAPS

CallbackPhases == {"matching", "saving", "inserting", "sharing"}
PagePhases     == {"copying", "checking", "storing"}
AskPhases      == {"idle", "deactivating"} \cup CallbackPhases \cup PagePhases
AccountIds     == Users \X (Nat \cup Orgs)

AskRecords ==
  [at : AskPhases, u : Users \cup {Nobody}, m : Members \cup {Nobody}, t : Nat,
   ids : SUBSET (AccountIds \cup Orgs), o : Orgs \cup {Nobody}]
JobRecords == [st : {"none", "waiting", "active", "failed"}, tries : 0..RefreshAttempts]
RefreshRecords == [at : {"asking", "marking"}, id : AvatarIds, doc : PersonDoc, token : Nat]

AccountsTypeInv ==
  /\ person \in [Users -> Seq(PersonDoc)]
  /\ org \in [Users -> [Orgs -> OrgDoc]]
  /\ asks \in [Requests -> AskRecords]
  /\ avatarJob \in [AvatarIds -> JobRecords]
  /\ refresher \in RefreshRecords \cup {Still}
  /\ overlapped \in BOOLEAN
  /\ accountCalls \in Nat

\* What a request has in hand at each of its awaits.
Placed(c) ==
  LET a == asks[c] IN
  /\ a.at = "idle" => a = Quiet
  /\ a.at # "idle" => a.u \in Users
  /\ a.at \in CallbackPhases => a.m \in Members
  /\ a.at \in PagePhases => a.ids \subseteq Orgs
  /\ a.at \in {"checking", "storing"} => a.m \in Members
  /\ a.at = "storing" => a.o \in Orgs
  /\ a.at \in {"sharing", "checking", "storing"} => person[a.u] # <<>>
PlaceInv == \A c \in Requests : Placed(c)

\* Tokens are the serial numbers of callbacks that were made.
TokenInv ==
  /\ refused \subseteq 1..accountCalls
  /\ \A c \in Requests : asks[c].t <= accountCalls
  /\ \A u \in Users : \A i \in DOMAIN person[u] : person[u][i].token <= accountCalls

\* Pages are those of a user who has, or once had, a person.
KnownInv ==
  \A u \in Users, o \in Orgs :
    /\ org[u][o].active => org[u][o].known
    /\ org[u][o].known => person[u] # <<>>

\* There are jobs of documents only, and the one in work is the refresher's.
JobInv ==
  /\ \A id \in AvatarIds :
       /\ avatarJob[id].st # "none" => id[2] \in DOMAIN person[id[1]]
       /\ avatarJob[id].st \in {"waiting", "active"} => avatarJob[id].tries < RefreshAttempts
  /\ refresher.at # "rest" => avatarJob[refresher.id].st = "active"

\* A user has a document for each request that inserted one, and only requests
\* that found none will insert another.
Inserting(u) == {c \in Requests : asks[c].at = "inserting" /\ asks[c].u = u}
LengthInv == \A u \in Users :
               Len(person[u]) + Cardinality(Inserting(u)) <= Cardinality(Requests)

\* The accounts under the cap, and the requests that will add one: each of those
\* found room when it looked.
Counted(u) == ActiveAccounts(u) \ reactivated
Joining(u) == {c \in Requests :
                 /\ asks[c].u = u
                 /\ \/ asks[c].at = "inserting"
                    \/ asks[c].at = "storing" /\ ~org[u][asks[c].o].known}
Extra == IF overlapped THEN Cardinality(Requests) - 1 ELSE 0
CapInv == \A u \in Users : Cardinality(Counted(u)) + Cardinality(Joining(u)) <= Cap + Extra

AloneInv == ~overlapped =>
              \A c, d \in Requests : asks[c].at # "idle" /\ asks[d].at # "idle" => c = d

\* A callback on its way is of a member nobody else has, or of a user whose
\* metadata are out of date; one about to insert still finds no document.
OwnerInv ==
  ~overlapped =>
    \A c \in Requests :
      LET a == asks[c] IN
      /\ a.at \in {"matching", "saving", "inserting"} =>
           \/ <<a.u, 1>> \in stale
           \/ \A v \in Users \ {a.u} : \A j \in DOMAIN person[v] :
                <<v, j>> \in stale \/ person[v][j].member # a.m
      /\ a.at = "inserting" => person[a.u] = <<>>

\* Whoever stores pages of a user has the user's person active, and whoever
\* takes a person down takes every active page with it.
HasPerson(u) == \E i \in DOMAIN person[u] : person[u][i].active
TakesDown(c) ==
  LET a == asks[c] IN
  a.at = "deactivating" =>
    /\ a.ids \subseteq PersonIds(a.u) \cup OrgIds(a.u)
    /\ a.u \notin torn /\ a.ids \cap PersonIds(a.u) # {} =>
         \A o \in Orgs : org[a.u][o].active => <<a.u, o>> \in a.ids
PageInv ==
  /\ PagesFollowPerson
  /\ \A c \in Requests :
       /\ asks[c].at \in {"checking", "storing"} /\ asks[c].u \notin torn => HasPerson(asks[c].u)
       /\ TakesDown(c)

\* The copy a refresh works on is that of the document, unless it is stale.
CopyInv ==
  refresher.at # "rest" /\ refresher.id \notin stale =>
    LET d == person[refresher.id[1]][refresher.id[2]] IN
    /\ refresher.doc.metaMember = d.metaMember
    /\ refresher.doc.gone = d.gone
    /\ d.active => d.token = refresher.token

IInv == /\ AccountsTypeInv /\ PlaceInv /\ TokenInv /\ KnownInv /\ JobInv /\ LengthInv /\ CapInv
        /\ AloneInv /\ OneOwner /\ OwnerInv /\ PageInv /\ MetadataIsCurrent /\ CopyInv


-----------------------------------------------------------------------------
(* The documents of a step *)

\* One document of a user is rewritten.
LEMMA DocRewritten ==
  ASSUME NEW p \in [Users -> Seq(PersonDoc)], NEW u \in Users, NEW i \in DOMAIN p[u],
         NEW d \in PersonDoc, NEW q, q = [p EXCEPT ![u][i] = d]
  PROVE  /\ q \in [Users -> Seq(PersonDoc)]
         /\ \A v \in Users : Len(q[v]) = Len(p[v]) /\ DOMAIN q[v] = DOMAIN p[v]
         /\ \A v \in Users : v # u => q[v] = p[v]
         /\ \A j \in DOMAIN p[u] : q[u][j] = IF j = i THEN d ELSE p[u][j]
<1> DEFINE s == [p[u] EXCEPT ![i] = d]
<1>1. p[u] \in Seq(PersonDoc) /\ i \in 1..Len(p[u]) /\ DOMAIN p[u] = 1..Len(p[u])
  BY LenProperties
<1>2. s \in Seq(PersonDoc) /\ Len(s) = Len(p[u])
      /\ \A j \in 1..Len(p[u]) : s[j] = IF j = i THEN d ELSE p[u][j]
  BY <1>1, ExceptSeq
<1>3. DOMAIN s = DOMAIN p[u]
  BY <1>1
<1>4. q = [p EXCEPT ![u] = s]
  OBVIOUS
<1> HIDE DEF s
<1> QED
  BY <1>1, <1>2, <1>3, <1>4

\* The documents of a user keep their number and their places.
LEMMA DocsMapped ==
  ASSUME NEW p \in [Users -> Seq(PersonDoc)], NEW u \in Users,
         NEW f \in [DOMAIN p[u] -> PersonDoc], NEW q, q = [p EXCEPT ![u] = f]
  PROVE  /\ q \in [Users -> Seq(PersonDoc)]
         /\ \A v \in Users : Len(q[v]) = Len(p[v]) /\ DOMAIN q[v] = DOMAIN p[v]
         /\ \A v \in Users : v # u => q[v] = p[v]
         /\ q[u] = f
<1>1. p[u] \in Seq(PersonDoc) /\ DOMAIN p[u] = 1..Len(p[u]) /\ Len(p[u]) \in Nat
  BY LenProperties
<1>2. f \in Seq(PersonDoc) /\ Len(f) = Len(p[u]) /\ DOMAIN f = DOMAIN p[u]
  BY <1>1
<1> QED
  BY <1>1, <1>2

LEMMA DocAppended ==
  ASSUME NEW p \in [Users -> Seq(PersonDoc)], NEW u \in Users, NEW d \in PersonDoc,
         NEW q, q = [p EXCEPT ![u] = Append(p[u], d)]
  PROVE  /\ q \in [Users -> Seq(PersonDoc)]
         /\ Len(q[u]) = Len(p[u]) + 1
         /\ DOMAIN q[u] = DOMAIN p[u] \cup {Len(p[u]) + 1}
         /\ \A v \in Users : v # u => q[v] = p[v]
         /\ \A j \in DOMAIN p[u] : q[u][j] = p[u][j]
         /\ q[u][Len(p[u]) + 1] = d
<1> DEFINE s == Append(p[u], d)
<1>1. p[u] \in Seq(PersonDoc) /\ DOMAIN p[u] = 1..Len(p[u]) /\ Len(p[u]) \in Nat
  BY LenProperties
<1>2. /\ s \in Seq(PersonDoc) /\ Len(s) = Len(p[u]) + 1
      /\ \A j \in 1..Len(p[u]) : s[j] = p[u][j]
      /\ s[Len(p[u]) + 1] = d
  BY <1>1, AppendProperties
<1>3. DOMAIN s = 1..Len(p[u]) + 1
  BY <1>2, LenProperties
<1>4. q = [p EXCEPT ![u] = s]
  OBVIOUS
<1> HIDE DEF s
<1> QED
  BY <1>1, <1>2, <1>3, <1>4


-----------------------------------------------------------------------------
(* The steps *)

Calls(c) ==
  \/ \E u \in Users, m \in Members : LinkedinCallback(c, u, m)
  \/ CallbackMatches(c) \/ CallbackSaves(c) \/ CallbackInserts(c) \/ CallbackShares(c)
  \/ \E u \in Users, os \in SUBSET Orgs : ConnectLinkedinOrganizations(c, u, os)
  \/ ConnectCopies(c) \/ ConnectStores(c)
  \/ \E o \in Orgs : ConnectChecks(c, o)
  \/ \E u \in Users : \E id \in PersonIds(u) \cup OrgIds(u) :
       DisconnectConnectedAccount(c, u, id)
  \/ Deactivate(c) \/ RequestEnds(c)

Aside ==
  \/ \E t \in 1..accountCalls \ refused : TokenRefused(t)
  \/ \E u \in Users : GetConnectedAccounts(u) \/ \E i \in DOMAIN person[u] : AvatarAges(u, i)
  \/ \E id \in AvatarIds : RefreshStarts(id)
  \/ RefreshWrites \/ RefreshRefused \/ RefreshMarks \/ RefreshFails \/ RefreshDies

LEMMA Cases ==
  ASSUME [AccountsNext]_accountVars
  PROVE  (\E c \in Requests : Calls(c)) \/ Aside \/ UNCHANGED accountVars
BY Zenon DEF AccountsNext, Calls, Aside

LEMMA AsideKeeps ==
  ASSUME Aside
  PROVE  /\ UNCHANGED <<org, asks, overlapped, reactivated, torn, stale, accountCalls>>
         /\ refused' \subseteq refused \cup 1..accountCalls
BY DEF Aside, TokenRefused, GetConnectedAccounts, AvatarAges, RefreshStarts, RefreshWrites,
   RefreshRefused, RefreshMarks, RefreshFails, RefreshDies, RequestsAside, accountHistory

LEMMA CallsKeep ==
  ASSUME AccountsTypeInv, NEW c \in Requests, Calls(c)
  PROVE  /\ UNCHANGED <<avatarJob, refresher, refused>>
         /\ \A d \in Requests \ {c} : asks'[d] = asks[d]
         /\ accountCalls' \in {accountCalls, accountCalls + 1}
         /\ accountCalls' # accountCalls => asks[c] = Quiet
<1>0. asks \in [Requests -> AskRecords]
  BY DEF AccountsTypeInv
<1> QED
  BY <1>0, Zenon DEF Calls, LinkedinCallback, CallbackMatches, CallbackSaves, CallbackInserts,
     CallbackShares, ConnectLinkedinOrganizations, ConnectCopies, ConnectStores, ConnectChecks,
     DisconnectConnectedAccount, Deactivate, RequestEnds, Begin, Go, End, accountHistory

\* What a step may make of document i of user u.
DocMoves(u, i) ==
  LET d == person[u][i]  e == person'[u][i] IN
  \/ e = d
  \/ \E c \in Requests : /\ CallbackSaves(c) /\ asks[c].u = u /\ i = 1
                         /\ e = SavedPerson(d, asks[c].m, asks[c].t)
                         /\ Allowed(u, 1, asks[c].m)
                         /\ reactivated' = reactivated \cup ({<<u, 1>>} \ ActiveAccounts(u))
                         /\ stale' = Rewritten({<<u, 1>>})
  \/ \E c \in Requests : /\ Deactivate(c) /\ asks[c].u = u /\ <<u, i>> \in asks[c].ids
                         /\ e = [d EXCEPT !.active = FALSE, !.token = 0, !.gone = TRUE]
  \/ Aside /\ e = [d EXCEPT !.avatar = "due"]
  \/ RefreshWrites /\ refresher.id = <<u, i>>
       /\ e = [d EXCEPT !.avatar = "fresh", !.mark = 0, !.metaMember = refresher.doc.metaMember,
                        !.gone = refresher.doc.gone]
  \/ RefreshMarks /\ refresher.id = <<u, i>>
       /\ e = [d EXCEPT !.avatar = "none", !.mark = refresher.token,
                        !.metaMember = refresher.doc.metaMember, !.gone = refresher.doc.gone]

\* Nothing is ever deleted; an inserted document is the last one of its user.
PersonMoves ==
  \A u \in Users :
    /\ \A i \in DOMAIN person[u] : DocMoves(u, i)
    /\ \/ DOMAIN person'[u] = DOMAIN person[u] /\ Len(person'[u]) = Len(person[u])
       \/ \E c \in Requests :
            /\ CallbackInserts(c) /\ asks[c].u = u
            /\ Allowed(u, 0, asks[c].m)
            /\ Len(person'[u]) = Len(person[u]) + 1
            /\ DOMAIN person'[u] = DOMAIN person[u] \cup {Len(person[u]) + 1}
            /\ person'[u][Len(person[u]) + 1] = SavedPerson([mark |-> 0], asks[c].m, asks[c].t)

\* The same, field by field.
Alike(d, e) == e.member = d.member /\ e.token = d.token /\ e.active = d.active
DocEffects(u, i) ==
  LET d == person[u][i]  e == person'[u][i] IN
  \/ Alike(d, e) /\ e.metaMember = d.metaMember /\ e.gone = d.gone /\ e.mark = d.mark
  \/ \E c \in Requests :
       /\ CallbackSaves(c) /\ asks[c].u = u /\ i = 1 /\ Allowed(u, 1, asks[c].m)
       /\ reactivated' = reactivated \cup ({<<u, 1>>} \ ActiveAccounts(u))
       /\ stale' = Rewritten({<<u, 1>>})
       /\ e.member = asks[c].m /\ e.token = asks[c].t /\ e.active = TRUE
       /\ e.metaMember = e.member /\ e.gone = FALSE /\ e.mark = 0
  \/ \E c \in Requests :
       /\ Deactivate(c) /\ asks[c].u = u /\ <<u, i>> \in asks[c].ids
       /\ e.member = d.member /\ e.token = 0 /\ e.active = FALSE
       /\ e.metaMember = d.metaMember /\ e.gone = TRUE
  \/ /\ RefreshWrites \/ RefreshMarks
     /\ refresher.id = <<u, i>>
     /\ Alike(d, e) /\ e.metaMember = refresher.doc.metaMember /\ e.gone = refresher.doc.gone
     /\ e.mark \in {0, refresher.token}

LEMMA PersonStays ==
  ASSUME UNCHANGED person
  PROVE  PersonMoves
BY DEF PersonMoves, DocMoves

LEMMA SavedTyped ==
  ASSUME NEW d, d.mark \in Nat, NEW m \in Members, NEW t \in Nat
  PROVE  SavedPerson(d, m, t) \in PersonDoc
BY DEF SavedPerson, PersonDoc

LEMMA RefreshTyped ==
  ASSUME NEW d \in PersonDoc, NEW copy \in PersonDoc, NEW k \in Nat,
         NEW a \in {"none", "fresh"}
  PROVE  [d EXCEPT !.avatar = a, !.mark = k, !.metaMember = copy.metaMember, !.gone = copy.gone]
           \in PersonDoc
<1>1. copy.metaMember \in Members /\ copy.gone \in BOOLEAN
  BY DEF PersonDoc
<1> QED
  BY <1>1 DEF PersonDoc

LEMMA DocTyped ==
  ASSUME NEW d \in PersonDoc
  PROVE  /\ [d EXCEPT !.active = FALSE, !.token = 0, !.gone = TRUE] \in PersonDoc
         /\ [d EXCEPT !.avatar = "due"] \in PersonDoc
BY DEF PersonDoc

LEMMA DocFields ==
  ASSUME NEW u, NEW i, DocMoves(u, i), person[u][i] \in PersonDoc
  PROVE  DocEffects(u, i)
<1> DEFINE d == person[u][i]
           e == person'[u][i]
<1>1. CASE e = d
  BY <1>1 DEF DocEffects, Alike
<1>2. ASSUME NEW c \in Requests, CallbackSaves(c), asks[c].u = u, i = 1, Allowed(u, 1, asks[c].m),
             reactivated' = reactivated \cup ({<<u, 1>>} \ ActiveAccounts(u)),
             stale' = Rewritten({<<u, 1>>}), e = SavedPerson(d, asks[c].m, asks[c].t)
      PROVE  DocEffects(u, i)
  <2>1. /\ e.member = asks[c].m /\ e.token = asks[c].t /\ e.active = TRUE
        /\ e.metaMember = e.member /\ e.gone = FALSE /\ e.mark = 0
    BY <1>2 DEF SavedPerson
  <2> QED
    BY <1>2, <2>1 DEF DocEffects
<1>3. ASSUME NEW c \in Requests, Deactivate(c), asks[c].u = u, <<u, i>> \in asks[c].ids,
             e = [d EXCEPT !.active = FALSE, !.token = 0, !.gone = TRUE]
      PROVE  DocEffects(u, i)
  <2>1. /\ e.member = d.member /\ e.token = 0 /\ e.active = FALSE
        /\ e.metaMember = d.metaMember /\ e.gone = TRUE
    BY <1>3 DEF PersonDoc
  <2> QED
    BY <1>3, <2>1 DEF DocEffects
<1>4. CASE e = [d EXCEPT !.avatar = "due"]
  BY <1>4 DEF DocEffects, Alike, PersonDoc
<1>5. ASSUME RefreshWrites, refresher.id = <<u, i>>,
             e = [d EXCEPT !.avatar = "fresh", !.mark = 0, !.metaMember = refresher.doc.metaMember,
                           !.gone = refresher.doc.gone]
      PROVE  DocEffects(u, i)
  BY <1>5 DEF DocEffects, Alike, PersonDoc
<1>6. ASSUME RefreshMarks, refresher.id = <<u, i>>,
             e = [d EXCEPT !.avatar = "none", !.mark = refresher.token,
                           !.metaMember = refresher.doc.metaMember, !.gone = refresher.doc.gone]
      PROVE  DocEffects(u, i)
  BY <1>6 DEF DocEffects, Alike, PersonDoc
<1> QED
  BY <1>1, <1>2, <1>3, <1>4, <1>5, <1>6 DEF DocMoves

LEMMA PersonStep ==
  ASSUME AccountsTypeInv, PlaceInv, JobInv, [AccountsNext]_accountVars
  PROVE  PersonMoves /\ person' \in [Users -> Seq(PersonDoc)]
<1>0. /\ person \in [Users -> Seq(PersonDoc)] /\ asks \in [Requests -> AskRecords]
      /\ \A u \in Users : person[u] \in Seq(PersonDoc) /\ DOMAIN person[u] = 1..Len(person[u])
                          /\ \A i \in DOMAIN person[u] : person[u][i] \in PersonDoc
  BY LenProperties, ElementOfSeq DEF AccountsTypeInv
<1> DEFINE Goal == PersonMoves /\ person' \in [Users -> Seq(PersonDoc)]
<1>1. ASSUME NEW c \in Requests, CallbackSaves(c) PROVE Goal
  <2> DEFINE u == asks[c].u
             d == SavedPerson(person[u][1], asks[c].m, asks[c].t)
  <2>1. u \in Users /\ asks[c].m \in Members /\ asks[c].t \in Nat
    BY <1>0, <1>1 DEF CallbackSaves, PlaceInv, Placed, CallbackPhases, AskRecords
  <2>2. CASE UNCHANGED person
    BY <1>0, <2>2, PersonStays
  <2>3. CASE /\ person[u] # <<>> /\ Allowed(u, 1, asks[c].m)
             /\ person' = [person EXCEPT ![u][1] = d]
             /\ reactivated' = reactivated \cup ({<<u, 1>>} \ ActiveAccounts(u))
             /\ stale' = Rewritten({<<u, 1>>})
    <3>1. 1 \in DOMAIN person[u]
      BY <1>0, <2>1, <2>3, EmptySeq, LenProperties
    <3>2. person[u][1] \in PersonDoc /\ person[u][1].mark \in Nat
      BY <1>0, <2>1, <3>1 DEF PersonDoc
    <3>3. d \in PersonDoc
      BY <2>1, <3>2, SavedTyped
    <3> HIDE DEF d
    <3>4. /\ person' \in [Users -> Seq(PersonDoc)]
          /\ \A v \in Users : Len(person'[v]) = Len(person[v]) /\ DOMAIN person'[v] = DOMAIN person[v]
          /\ \A v \in Users : v # u => person'[v] = person[v]
          /\ \A j \in DOMAIN person[u] : person'[u][j] = IF j = 1 THEN d ELSE person[u][j]
      BY <1>0, <2>1, <2>3, <3>1, <3>3, DocRewritten
    <3>5. ASSUME NEW v \in Users, NEW i \in DOMAIN person[v] PROVE DocMoves(v, i)
      <4>1. CASE v = u /\ i = 1
        BY <1>1, <2>3, <3>4, <4>1 DEF d, DocMoves
      <4>2. CASE ~(v = u /\ i = 1)
        BY <3>4, <4>2 DEF DocMoves
      <4> QED
        BY <4>1, <4>2
    <3> QED
      BY <3>4, <3>5 DEF PersonMoves
  <2> QED
    BY <1>1, <2>2, <2>3 DEF CallbackSaves
<1>2. ASSUME NEW c \in Requests, CallbackInserts(c) PROVE Goal
  <2> DEFINE u == asks[c].u
             d == SavedPerson([mark |-> 0], asks[c].m, asks[c].t)
  <2>1. u \in Users /\ asks[c].m \in Members /\ asks[c].t \in Nat
    BY <1>0, <1>2 DEF CallbackInserts, PlaceInv, Placed, CallbackPhases, AskRecords
  <2>2. CASE UNCHANGED person
    BY <1>0, <2>2, PersonStays
  <2>3. CASE Allowed(u, 0, asks[c].m) /\ person' = [person EXCEPT ![u] = Append(person[u], d)]
    <3>1. d \in PersonDoc
      BY <2>1, SavedTyped
    <3> HIDE DEF d
    <3>2. /\ person' \in [Users -> Seq(PersonDoc)]
          /\ Len(person'[u]) = Len(person[u]) + 1
          /\ DOMAIN person'[u] = DOMAIN person[u] \cup {Len(person[u]) + 1}
          /\ \A v \in Users : v # u => person'[v] = person[v]
          /\ \A j \in DOMAIN person[u] : person'[u][j] = person[u][j]
          /\ person'[u][Len(person[u]) + 1] = d
      BY <1>0, <2>1, <2>3, <3>1, DocAppended
    <3>3. ASSUME NEW v \in Users, NEW i \in DOMAIN person[v] PROVE DocMoves(v, i)
      BY <3>2 DEF DocMoves
    <3> QED
      BY <1>2, <2>3, <3>2, <3>3 DEF PersonMoves, d
  <2> QED
    BY <1>2, <2>2, <2>3 DEF CallbackInserts
<1>3. ASSUME NEW c \in Requests, Deactivate(c) PROVE Goal
  <2> DEFINE u == asks[c].u
             e(i) == [person[u][i] EXCEPT !.active = FALSE, !.token = 0, !.gone = TRUE]
             f == [i \in DOMAIN person[u] |-> IF <<u, i>> \in asks[c].ids THEN e(i) ELSE person[u][i]]
  <2>1. u \in Users
    BY <1>3 DEF Deactivate, PlaceInv, Placed
  <2>2. \A i \in DOMAIN person[u] : e(i) \in PersonDoc
    BY <1>0, <2>1, DocTyped
  <2>3. person' = [person EXCEPT ![u] = f]
    BY <1>3 DEF Deactivate
  <2> HIDE DEF e
  <2>4. f \in [DOMAIN person[u] -> PersonDoc]
    BY <1>0, <2>1, <2>2
  <2>5. \A i \in DOMAIN person[u] : f[i] = IF <<u, i>> \in asks[c].ids THEN e(i) ELSE person[u][i]
    OBVIOUS
  <2> HIDE DEF f
  <2>6. /\ person' \in [Users -> Seq(PersonDoc)]
        /\ \A v \in Users : Len(person'[v]) = Len(person[v]) /\ DOMAIN person'[v] = DOMAIN person[v]
        /\ \A v \in Users : v # u => person'[v] = person[v]
        /\ person'[u] = f
    BY <1>0, <2>1, <2>3, <2>4, DocsMapped
  <2>7. ASSUME NEW v \in Users, NEW i \in DOMAIN person[v] PROVE DocMoves(v, i)
    <3>1. CASE v = u /\ <<u, i>> \in asks[c].ids
      BY <1>3, <2>5, <2>6, <3>1 DEF e, DocMoves
    <3>2. CASE ~(v = u /\ <<u, i>> \in asks[c].ids)
      BY <2>5, <2>6, <3>2 DEF DocMoves
    <3> QED
      BY <3>1, <3>2
  <2> QED
    BY <2>6, <2>7 DEF PersonMoves
\* One document is rewritten by what runs beside the requests.
<1>4. ASSUME NEW u \in Users, NEW i \in DOMAIN person[u], NEW d \in PersonDoc,
             person' = [person EXCEPT ![u][i] = d], person'[u][i] = d => DocMoves(u, i)
      PROVE  Goal
  <2>1. /\ person' \in [Users -> Seq(PersonDoc)]
        /\ \A v \in Users : Len(person'[v]) = Len(person[v]) /\ DOMAIN person'[v] = DOMAIN person[v]
        /\ \A v \in Users : v # u => person'[v] = person[v]
        /\ \A j \in DOMAIN person[u] : person'[u][j] = IF j = i THEN d ELSE person[u][j]
    BY <1>0, <1>4, DocRewritten
  <2>2. ASSUME NEW v \in Users, NEW j \in DOMAIN person[v] PROVE DocMoves(v, j)
    <3>1. CASE v = u /\ j = i
      BY <1>4, <2>1, <3>1
    <3>2. CASE ~(v = u /\ j = i)
      BY <2>1, <3>2 DEF DocMoves
    <3> QED
      BY <3>1, <3>2
  <2> QED
    BY <2>1, <2>2 DEF PersonMoves
<1>5. ASSUME NEW u \in Users, NEW i \in DOMAIN person[u], AvatarAges(u, i) PROVE Goal
  <2> DEFINE d == [person[u][i] EXCEPT !.avatar = "due"]
  <2>1. d \in PersonDoc
    BY <1>0, DocTyped
  <2>2. person' = [person EXCEPT ![u][i] = d]
    BY <1>5 DEF AvatarAges
  <2>3. Aside
    BY <1>5 DEF Aside
  <2>4. person'[u][i] = d => DocMoves(u, i)
    BY <2>3 DEF DocMoves
  <2> HIDE DEF d
  <2> QED
    BY <1>4, <2>1, <2>2, <2>4
<1>6. ASSUME refresher.at # "rest"
      PROVE  \E u \in Users : \E i \in DOMAIN person[u] :
               /\ refresher.id = <<u, i>> /\ refresher.id[1] = u /\ refresher.id[2] = i
               /\ refresher.doc \in PersonDoc /\ refresher.token \in Nat
  <2>1. refresher \in RefreshRecords
    BY <1>6 DEF AccountsTypeInv, Still
  <2>2. refresher.id \in AvatarIds /\ refresher.doc \in PersonDoc /\ refresher.token \in Nat
    BY <2>1 DEF RefreshRecords
  <2>3. avatarJob[refresher.id].st = "active"
    BY <1>6 DEF JobInv
  <2>4. refresher.id[2] \in DOMAIN person[refresher.id[1]]
    BY <2>2, <2>3 DEF JobInv
  <2>5. refresher.id = <<refresher.id[1], refresher.id[2]>> /\ refresher.id[1] \in Users
    BY <2>2 DEF AvatarIds
  <2> QED
    BY <2>2, <2>4, <2>5
<1>7. ASSUME RefreshWrites PROVE Goal
  <2>1. refresher.at # "rest"
    BY <1>7 DEF RefreshWrites
  <2>2. PICK u \in Users : \E i \in DOMAIN person[u] :
          /\ refresher.id = <<u, i>> /\ refresher.id[1] = u /\ refresher.id[2] = i
          /\ refresher.doc \in PersonDoc /\ refresher.token \in Nat
    BY <1>6, <2>1
  <2>3. PICK i \in DOMAIN person[u] :
          /\ refresher.id = <<u, i>> /\ refresher.id[1] = u /\ refresher.id[2] = i
          /\ refresher.doc \in PersonDoc /\ refresher.token \in Nat
    BY <2>2
  <2> DEFINE d == [person[u][i] EXCEPT !.avatar = "fresh", !.mark = 0,
                     !.metaMember = refresher.doc.metaMember, !.gone = refresher.doc.gone]
  <2>4. d \in PersonDoc
    BY <1>0, <2>3, RefreshTyped
  <2>5. person' = [person EXCEPT ![u][i] = d]
    BY <1>7, <2>3 DEF RefreshWrites
  <2>6. person'[u][i] = d => DocMoves(u, i)
    BY <1>7, <2>3 DEF DocMoves
  <2> HIDE DEF d
  <2> QED
    BY <1>4, <2>4, <2>5, <2>6
<1>8. ASSUME RefreshMarks PROVE Goal
  <2>1. refresher.at # "rest"
    BY <1>8 DEF RefreshMarks
  <2>2. PICK u \in Users : \E i \in DOMAIN person[u] :
          /\ refresher.id = <<u, i>> /\ refresher.id[1] = u /\ refresher.id[2] = i
          /\ refresher.doc \in PersonDoc /\ refresher.token \in Nat
    BY <1>6, <2>1
  <2>3. PICK i \in DOMAIN person[u] :
          /\ refresher.id = <<u, i>> /\ refresher.id[1] = u /\ refresher.id[2] = i
          /\ refresher.doc \in PersonDoc /\ refresher.token \in Nat
    BY <2>2
  <2> DEFINE d == [person[u][i] EXCEPT !.avatar = "none", !.mark = refresher.token,
                     !.metaMember = refresher.doc.metaMember, !.gone = refresher.doc.gone]
  <2>4. d \in PersonDoc
    BY <1>0, <2>3, RefreshTyped
  <2>5. person' = [person EXCEPT ![u][i] = d]
    BY <1>8, <2>3 DEF RefreshMarks
  <2>6. person'[u][i] = d => DocMoves(u, i)
    BY <1>8, <2>3 DEF DocMoves
  <2> HIDE DEF d
  <2> QED
    BY <1>4, <2>4, <2>5, <2>6
<1>9. ASSUME NEW c \in Requests, Calls(c) PROVE Goal
  <2>1. UNCHANGED person \/ CallbackSaves(c) \/ CallbackInserts(c) \/ Deactivate(c)
    BY <1>9, Zenon DEF Calls, LinkedinCallback, CallbackMatches, CallbackShares,
       ConnectLinkedinOrganizations, ConnectCopies, ConnectStores, ConnectChecks,
       DisconnectConnectedAccount, RequestEnds, Begin
  <2> QED
    BY <1>0, <1>1, <1>2, <1>3, <2>1, PersonStays
<1>10. ASSUME Aside PROVE Goal
  <2>1. \/ UNCHANGED person
        \/ \E u \in Users : \E i \in DOMAIN person[u] : AvatarAges(u, i)
        \/ RefreshWrites \/ RefreshMarks
    BY <1>10, Zenon DEF Aside, TokenRefused, GetConnectedAccounts, RefreshStarts, RefreshRefused,
       RefreshFails, RefreshDies
  <2> QED
    BY <1>0, <1>5, <1>7, <1>8, <2>1, PersonStays
<1>11. CASE UNCHANGED accountVars
  BY <1>0, <1>11, PersonStays DEF accountVars
<1> QED
  BY <1>9, <1>10, <1>11, Cases


LEMMA NeverEmptied ==
  ASSUME PersonMoves, person \in [Users -> Seq(PersonDoc)],
         person' \in [Users -> Seq(PersonDoc)], NEW u \in Users
  PROVE  /\ Len(person'[u]) >= Len(person[u]) /\ DOMAIN person[u] \subseteq DOMAIN person'[u]
         /\ person[u] # <<>> => person'[u] # <<>>
<1>1. person[u] \in Seq(PersonDoc) /\ person'[u] \in Seq(PersonDoc)
  OBVIOUS
<1>2. Len(person[u]) \in Nat /\ Len(person'[u]) \in Nat
  BY <1>1, LenProperties
<1>3. Len(person'[u]) >= Len(person[u]) /\ DOMAIN person[u] \subseteq DOMAIN person'[u]
  BY <1>2 DEF PersonMoves
<1>4. (person[u] = <<>> <=> Len(person[u]) = 0) /\ (person'[u] = <<>> <=> Len(person'[u]) = 0)
  BY <1>1, EmptySeq
<1> QED
  BY <1>2, <1>3, <1>4


-----------------------------------------------------------------------------
(* Requests *)

\* What a call leaves its request doing.
Turns(c) ==
  LET a == asks[c]  b == asks'[c] IN
  \/ b = Quiet
  \/ \E u \in Users, m \in Members :
       /\ LinkedinCallback(c, u, m) /\ a = Quiet
       /\ b = [at |-> "matching", u |-> u, m |-> m, t |-> accountCalls + 1, ids |-> {}, o |-> Nobody]
  \/ \E u \in Users, os \in SUBSET Orgs :
       /\ ConnectLinkedinOrganizations(c, u, os) /\ a = Quiet
       /\ b = [at |-> "copying", u |-> u, m |-> Nobody, t |-> 0, ids |-> os, o |-> Nobody]
  \/ \E u \in Users : \E id \in PersonIds(u) \cup OrgIds(u) :
       /\ DisconnectConnectedAccount(c, u, id) /\ a = Quiet
       /\ b = [at |-> "deactivating", u |-> u, m |-> Nobody, t |-> 0, ids |-> Cascade(u, id),
               o |-> Nobody]
  \/ CallbackMatches(c) /\ b = [a EXCEPT !.at = "saving"]
  \/ CallbackSaves(c) /\ person[a.u] = <<>> /\ b = [a EXCEPT !.at = "inserting"]
  \/ /\ CallbackSaves(c) \/ CallbackInserts(c)
     /\ b = [a EXCEPT !.at = "sharing"]
     /\ a.u \in Users => person'[a.u] # <<>>
  \/ ConnectCopies(c) /\ Usable(a.u)
       /\ b = [a EXCEPT !.at = "checking", !.t = person[a.u][1].token,
                        !.m = person[a.u][1].metaMember]
  \/ \E o \in Orgs : /\ ConnectChecks(c, o) /\ o \in a.ids /\ (org[a.u][o].known \/ HasCapacity(a.u))
                     /\ b = [a EXCEPT !.at = "storing", !.o = o]
  \/ ConnectStores(c) /\ b = [a EXCEPT !.at = "checking", !.ids = a.ids \ {a.o}]

LEMMA CallTurns ==
  ASSUME AccountsTypeInv, PlaceInv, PersonMoves, person' \in [Users -> Seq(PersonDoc)],
         NEW c \in Requests, Calls(c)
  PROVE  Turns(c)
<1>0. asks \in [Requests -> AskRecords] /\ person \in [Users -> Seq(PersonDoc)]
  BY DEF AccountsTypeInv
<1>1. ASSUME NEW b, asks' = [asks EXCEPT ![c] = b] PROVE asks'[c] = b
  BY <1>0, <1>1
<1>2. ASSUME End(c) PROVE Turns(c)
  BY <1>1, <1>2 DEF End, Turns
<1>3. ASSUME NEW at, Go(c, at) PROVE asks'[c] = [asks[c] EXCEPT !.at = at]
  BY <1>0, <1>3 DEF Go
<1>4. ASSUME NEW u \in Users, NEW m \in Members, LinkedinCallback(c, u, m) PROVE Turns(c)
  BY <1>1, <1>4 DEF LinkedinCallback, Begin, Turns
<1>5. ASSUME NEW u \in Users, NEW os \in SUBSET Orgs, ConnectLinkedinOrganizations(c, u, os)
      PROVE  Turns(c)
  BY <1>1, <1>5 DEF ConnectLinkedinOrganizations, Begin, Turns
<1>6. ASSUME NEW u \in Users, NEW id \in PersonIds(u) \cup OrgIds(u),
             DisconnectConnectedAccount(c, u, id)
      PROVE  Turns(c)
  BY <1>1, <1>6 DEF DisconnectConnectedAccount, Begin, Turns
<1>7. ASSUME CallbackMatches(c) PROVE Turns(c)
  BY <1>2, <1>3, <1>7 DEF CallbackMatches, Turns
<1>8. ASSUME CallbackSaves(c) PROVE Turns(c)
  <2>1. CASE End(c)
    BY <1>2, <2>1
  <2>2. CASE person[asks[c].u] = <<>> /\ Go(c, "inserting")
    BY <1>3, <1>8, <2>2 DEF Turns
  <2>3. CASE person[asks[c].u] # <<>> /\ Go(c, "sharing")
    <3>1. asks[c].u \in Users => person'[asks[c].u] # <<>>
      <4> SUFFICES ASSUME asks[c].u \in Users PROVE person'[asks[c].u] # <<>>
        OBVIOUS
      <4> QED
        BY <1>0, <2>3, NeverEmptied
    <3> QED
      BY <1>3, <1>8, <2>3, <3>1 DEF Turns
  <2> QED
    BY <1>8, <2>1, <2>2, <2>3 DEF CallbackSaves
<1>9. ASSUME CallbackInserts(c) PROVE Turns(c)
  <2>1. CASE End(c)
    BY <1>2, <2>1
  <2>2. CASE Go(c, "sharing") /\ person' = [person EXCEPT ![asks[c].u] =
                 Append(@, SavedPerson([mark |-> 0], asks[c].m, asks[c].t))]
    <3>1. asks[c].u \in Users => person'[asks[c].u] # <<>>
      BY <1>0, <2>2, AppendProperties DEF PlaceInv, Placed
    <3> QED
      BY <1>3, <1>9, <2>2, <3>1 DEF Turns
  <2> QED
    BY <1>9, <2>1, <2>2 DEF CallbackInserts
<1>10. ASSUME ConnectCopies(c) PROVE Turns(c)
  BY <1>1, <1>2, <1>10 DEF ConnectCopies, Turns
<1>11. ASSUME NEW o \in Orgs, ConnectChecks(c, o) PROVE Turns(c)
  BY <1>1, <1>2, <1>11 DEF ConnectChecks, Turns
<1>12. ASSUME ConnectStores(c) PROVE Turns(c)
  BY <1>1, <1>2, <1>12 DEF ConnectStores, Turns
<1>13. ASSUME CallbackShares(c) \/ Deactivate(c) \/ RequestEnds(c) PROVE Turns(c)
  BY <1>2, <1>13 DEF CallbackShares, Deactivate, RequestEnds
<1> QED
  BY <1>4, <1>5, <1>6, <1>7, <1>8, <1>9, <1>10, <1>11, <1>12, <1>13, Zenon DEF Calls


\* What a step may make of a page.
OrgMoves(u, o) ==
  LET d == org[u][o]  e == org'[u][o] IN
  \/ e = d
  \/ \E c \in Requests :
       /\ asks[c].u = u
       /\ \/ CallbackShares(c) /\ d.known /\ e = [d EXCEPT !.token = asks[c].t, !.by = asks[c].m]
          \/ ConnectStores(c) /\ asks[c].o = o
               /\ e = [known |-> TRUE, active |-> TRUE, token |-> asks[c].t, by |-> asks[c].m]
          \/ Deactivate(c) /\ <<u, o>> \in asks[c].ids /\ e = [d EXCEPT !.active = FALSE, !.token = 0]

\* The same, field by field.
OrgEffects(u, o) ==
  LET d == org[u][o]  e == org'[u][o] IN
  \/ e.known = d.known /\ e.active = d.active
  \/ \E c \in Requests : /\ ConnectStores(c) /\ asks[c].u = u /\ asks[c].o = o
                         /\ e.known = TRUE /\ e.active = TRUE
  \/ \E c \in Requests : /\ Deactivate(c) /\ asks[c].u = u /\ <<u, o>> \in asks[c].ids
                         /\ e.known = d.known /\ e.active = FALSE

LEMMA OrgFields ==
  ASSUME NEW u, NEW o, OrgMoves(u, o), org[u][o] \in OrgDoc
  PROVE  OrgEffects(u, o)
<1> DEFINE d == org[u][o]
           e == org'[u][o]
<1>1. CASE e = d
  BY <1>1 DEF OrgEffects
<1>2. ASSUME NEW t, NEW m, e = [d EXCEPT !.token = t, !.by = m]
      PROVE  OrgEffects(u, o)
  BY <1>2 DEF OrgEffects, OrgDoc
<1>3. ASSUME NEW c \in Requests, ConnectStores(c), asks[c].u = u, asks[c].o = o,
             e = [known |-> TRUE, active |-> TRUE, token |-> asks[c].t, by |-> asks[c].m]
      PROVE  OrgEffects(u, o)
  <2>1. e.known = TRUE /\ e.active = TRUE
    BY <1>3
  <2> QED
    BY <1>3, <2>1 DEF OrgEffects
<1>4. ASSUME NEW c \in Requests, Deactivate(c), asks[c].u = u, <<u, o>> \in asks[c].ids,
             e = [d EXCEPT !.active = FALSE, !.token = 0]
      PROVE  OrgEffects(u, o)
  <2>1. e.known = d.known /\ e.active = FALSE
    BY <1>4 DEF OrgDoc
  <2> QED
    BY <1>4, <2>1 DEF OrgEffects
<1> QED
  BY <1>1, <1>2, <1>3, <1>4 DEF OrgMoves

LEMMA PageTyped ==
  ASSUME NEW d \in OrgDoc
  PROVE  /\ \A t \in Nat, m \in Members : [d EXCEPT !.token = t, !.by = m] \in OrgDoc
         /\ [d EXCEPT !.active = FALSE, !.token = 0] \in OrgDoc
BY DEF OrgDoc

LEMMA OrgStep ==
  ASSUME AccountsTypeInv, PlaceInv, [AccountsNext]_accountVars
  PROVE  /\ \A u \in Users, o \in Orgs : OrgMoves(u, o)
         /\ org' \in [Users -> [Orgs -> OrgDoc]]
<1>0. /\ org \in [Users -> [Orgs -> OrgDoc]] /\ asks \in [Requests -> AskRecords]
      /\ \A u \in Users, o \in Orgs : org[u][o] \in OrgDoc
  BY DEF AccountsTypeInv
<1> DEFINE Goal == /\ \A u \in Users, o \in Orgs : OrgMoves(u, o)
                   /\ org' \in [Users -> [Orgs -> OrgDoc]]
<1>1. ASSUME UNCHANGED org PROVE Goal
  BY <1>0, <1>1 DEF OrgMoves
<1>2. ASSUME NEW u \in Users, NEW f \in [Orgs -> OrgDoc], org' = [org EXCEPT ![u] = f],
             \A o \in Orgs : org'[u][o] = f[o] => OrgMoves(u, o)
      PROVE  Goal
  <2>1. org'[u] = f /\ \A v \in Users \ {u} : org'[v] = org[v]
    BY <1>0, <1>2
  <2>2. org' \in [Users -> [Orgs -> OrgDoc]]
    BY <1>0, <1>2
  <2>3. ASSUME NEW v \in Users \ {u}, NEW o \in Orgs PROVE OrgMoves(v, o)
    BY <2>1 DEF OrgMoves
  <2> QED
    BY <1>2, <2>1, <2>2, <2>3
<1>3. ASSUME NEW c \in Requests, CallbackShares(c) PROVE Goal
  <2> DEFINE u == asks[c].u
             e(o) == [org[u][o] EXCEPT !.token = asks[c].t, !.by = asks[c].m]
             f == [o \in Orgs |-> IF org[u][o].known THEN e(o) ELSE org[u][o]]
  <2>1. u \in Users /\ asks[c].m \in Members /\ asks[c].t \in Nat
    BY <1>0, <1>3 DEF CallbackShares, PlaceInv, Placed, CallbackPhases, AskRecords
  <2>2. \A o \in Orgs : e(o) \in OrgDoc
    BY <1>0, <2>1, PageTyped
  <2>3. org' = [org EXCEPT ![u] = f]
    BY <1>0, <1>3, <2>1 DEF CallbackShares
  <2>4. \A o \in Orgs : OrgMoves(u, o) \/ org'[u][o] # f[o]
    BY <1>3 DEF OrgMoves
  <2> HIDE DEF e
  <2>5. f \in [Orgs -> OrgDoc]
    BY <1>0, <2>1, <2>2
  <2> HIDE DEF f
  <2> QED
    BY <1>2, <2>1, <2>3, <2>4, <2>5
<1>4. ASSUME NEW c \in Requests, ConnectStores(c) PROVE Goal
  <2> DEFINE u == asks[c].u
             e == [known |-> TRUE, active |-> TRUE, token |-> asks[c].t, by |-> asks[c].m]
             f == [org[u] EXCEPT ![asks[c].o] = e]
  <2>1. u \in Users /\ asks[c].m \in Members /\ asks[c].t \in Nat /\ asks[c].o \in Orgs
    BY <1>0, <1>4 DEF ConnectStores, PlaceInv, Placed, PagePhases, AskRecords
  <2>2. e \in OrgDoc
    BY <2>1 DEF OrgDoc
  <2>3. org' = [org EXCEPT ![u] = f]
    BY <1>4 DEF ConnectStores
  <2>4. \A o \in Orgs : f[o] = IF o = asks[c].o THEN e ELSE org[u][o]
    BY <1>0, <2>1
  <2>5. f \in [Orgs -> OrgDoc]
    BY <1>0, <2>1, <2>2
  <2> HIDE DEF f
  <2>6. \A o \in Orgs : OrgMoves(u, o) \/ org'[u][o] # f[o]
    BY <1>4, <2>4 DEF OrgMoves
  <2> QED
    BY <1>2, <2>1, <2>3, <2>5, <2>6
<1>5. ASSUME NEW c \in Requests, Deactivate(c) PROVE Goal
  <2> DEFINE u == asks[c].u
             e(o) == [org[u][o] EXCEPT !.active = FALSE, !.token = 0]
             f == [o \in Orgs |-> IF <<u, o>> \in asks[c].ids THEN e(o) ELSE org[u][o]]
  <2>1. u \in Users
    BY <1>5 DEF Deactivate, PlaceInv, Placed
  <2>2. \A o \in Orgs : e(o) \in OrgDoc
    BY <1>0, <2>1, PageTyped
  <2>3. org' = [org EXCEPT ![u] = f]
    BY <1>0, <1>5, <2>1 DEF Deactivate
  <2>4. \A o \in Orgs : OrgMoves(u, o) \/ org'[u][o] # f[o]
    BY <1>5 DEF OrgMoves
  <2> HIDE DEF e
  <2>5. f \in [Orgs -> OrgDoc]
    BY <1>0, <2>1, <2>2
  <2> HIDE DEF f
  <2> QED
    BY <1>2, <2>1, <2>3, <2>4, <2>5
<1>6. ASSUME NEW c \in Requests, Calls(c) PROVE Goal
  <2>1. UNCHANGED org \/ CallbackShares(c) \/ ConnectStores(c) \/ Deactivate(c)
    BY <1>6, Zenon DEF Calls, LinkedinCallback, CallbackMatches, CallbackSaves, CallbackInserts,
       ConnectLinkedinOrganizations, ConnectCopies, ConnectChecks, DisconnectConnectedAccount,
       RequestEnds, Begin
  <2> QED
    BY <1>1, <1>3, <1>4, <1>5, <1>6, <2>1
<1>7. ASSUME Aside \/ UNCHANGED accountVars PROVE Goal
  BY <1>1, <1>7, AsideKeeps DEF accountVars
<1> QED
  BY <1>6, <1>7, Cases

\* The same, field by field.
TurnFields(c) ==
  LET a == asks[c]  b == asks'[c] IN
  \/ b = Quiet
  \/ /\ a = Quiet
     /\ \/ \E u \in Users, m \in Members :
             LinkedinCallback(c, u, m) /\ b.at = "matching" /\ b.u = u /\ b.m = m
        \/ \E u \in Users, os \in SUBSET Orgs :
             ConnectLinkedinOrganizations(c, u, os) /\ b.at = "copying" /\ b.u = u
        \/ \E u \in Users : \E id \in PersonIds(u) \cup OrgIds(u) :
             /\ DisconnectConnectedAccount(c, u, id)
             /\ b.at = "deactivating" /\ b.u = u /\ b.ids = Cascade(u, id)
  \/ /\ b.u = a.u /\ b.m = a.m
     /\ \/ CallbackMatches(c) /\ b.at = "saving"
        \/ CallbackSaves(c) /\ person[a.u] = <<>> /\ b.at = "inserting"
        \/ (CallbackSaves(c) \/ CallbackInserts(c)) /\ b.at = "sharing"
        \/ \E o \in Orgs : /\ ConnectChecks(c, o) /\ (org[a.u][o].known \/ HasCapacity(a.u))
                           /\ b.at = "storing" /\ b.o = o
        \/ ConnectStores(c) /\ b.at = "checking"
  \/ ConnectCopies(c) /\ Usable(a.u) /\ b.u = a.u /\ b.at = "checking"

LEMMA FieldsOfTurn ==
  ASSUME NEW c \in Requests, Turns(c), asks[c] \in AskRecords
  PROVE  TurnFields(c)
<1> DEFINE a == asks[c]
           b == asks'[c]
<1>1. ASSUME NEW at, b = [a EXCEPT !.at = at]
      PROVE  b.at = at /\ b.u = a.u /\ b.m = a.m
  BY <1>1 DEF AskRecords
<1>2. ASSUME CallbackMatches(c) /\ b = [a EXCEPT !.at = "saving"] PROVE TurnFields(c)
  BY <1>1, <1>2 DEF TurnFields
<1>3. ASSUME CallbackSaves(c) /\ person[a.u] = <<>> /\ b = [a EXCEPT !.at = "inserting"]
      PROVE  TurnFields(c)
  BY <1>1, <1>3 DEF TurnFields
<1>4. ASSUME CallbackSaves(c) \/ CallbackInserts(c), b = [a EXCEPT !.at = "sharing"]
      PROVE  TurnFields(c)
  BY <1>1, <1>4 DEF TurnFields
<1>5. ASSUME ConnectCopies(c), Usable(a.u),
             b = [a EXCEPT !.at = "checking", !.t = person[a.u][1].token,
                           !.m = person[a.u][1].metaMember]
      PROVE  TurnFields(c)
  <2>1. b.u = a.u /\ b.at = "checking"
    BY <1>5 DEF AskRecords
  <2> QED
    BY <1>5, <2>1 DEF TurnFields
<1>6. ASSUME NEW o \in Orgs, ConnectChecks(c, o), org[a.u][o].known \/ HasCapacity(a.u),
             b = [a EXCEPT !.at = "storing", !.o = o]
      PROVE  TurnFields(c)
  <2>1. b.u = a.u /\ b.m = a.m /\ b.at = "storing" /\ b.o = o
    BY <1>6 DEF AskRecords
  <2> QED
    BY <1>6, <2>1 DEF TurnFields
<1>7. ASSUME ConnectStores(c), b = [a EXCEPT !.at = "checking", !.ids = a.ids \ {a.o}]
      PROVE  TurnFields(c)
  <2>1. b.u = a.u /\ b.m = a.m /\ b.at = "checking"
    BY <1>7 DEF AskRecords
  <2> QED
    BY <1>7, <2>1 DEF TurnFields
<1>8. CASE b = Quiet
  BY <1>8 DEF TurnFields
<1>9. ASSUME NEW u \in Users, NEW m \in Members, LinkedinCallback(c, u, m), a = Quiet,
             b = [at |-> "matching", u |-> u, m |-> m, t |-> accountCalls + 1, ids |-> {},
                  o |-> Nobody]
      PROVE  TurnFields(c)
  <2>1. b.at = "matching" /\ b.u = u /\ b.m = m
    BY <1>9
  <2> QED
    BY <1>9, <2>1 DEF TurnFields
<1>10. ASSUME NEW u \in Users, NEW os \in SUBSET Orgs, ConnectLinkedinOrganizations(c, u, os),
              a = Quiet,
              b = [at |-> "copying", u |-> u, m |-> Nobody, t |-> 0, ids |-> os, o |-> Nobody]
       PROVE  TurnFields(c)
  <2>1. b.at = "copying" /\ b.u = u
    BY <1>10
  <2> QED
    BY <1>10, <2>1 DEF TurnFields
<1>11. ASSUME NEW u \in Users, NEW id \in PersonIds(u) \cup OrgIds(u),
              DisconnectConnectedAccount(c, u, id), a = Quiet,
              b = [at |-> "deactivating", u |-> u, m |-> Nobody, t |-> 0, ids |-> Cascade(u, id),
                   o |-> Nobody]
       PROVE  TurnFields(c)
  <2>1. b.at = "deactivating" /\ b.u = u /\ b.ids = Cascade(u, id)
    BY <1>11
  <2> QED
    BY <1>11, <2>1 DEF TurnFields
<1> QED
  BY <1>2, <1>3, <1>4, <1>5, <1>6, <1>7, <1>8, <1>9, <1>10, <1>11, Zenon DEF Turns

LEMMA AsksStep ==
  ASSUME AccountsTypeInv, PlaceInv, PersonMoves, person' \in [Users -> Seq(PersonDoc)],
         org' \in [Users -> [Orgs -> OrgDoc]], [AccountsNext]_accountVars
  PROVE  asks' \in [Requests -> AskRecords]
<1>0. /\ asks \in [Requests -> AskRecords] /\ person \in [Users -> Seq(PersonDoc)]
      /\ org \in [Users -> [Orgs -> OrgDoc]] /\ accountCalls \in Nat
  BY DEF AccountsTypeInv
<1>1. CASE Aside \/ UNCHANGED accountVars
  BY <1>0, <1>1, AsideKeeps DEF accountVars
<1>2. ASSUME NEW c \in Requests, Calls(c) PROVE asks' \in [Requests -> AskRecords]
  <2>1. Turns(c)
    BY <1>2, CallTurns
  <2>2. \E b : asks' = [asks EXCEPT ![c] = b]
    BY <1>2, Zenon DEF Calls, LinkedinCallback, CallbackMatches, CallbackSaves, CallbackInserts,
       CallbackShares, ConnectLinkedinOrganizations, ConnectCopies, ConnectStores, ConnectChecks,
       DisconnectConnectedAccount, Deactivate, RequestEnds, Begin, Go, End
  <2>3. asks' = [asks EXCEPT ![c] = asks'[c]]
    BY <1>0, <2>2
  <2>4. SUFFICES asks'[c] \in AskRecords
    BY <1>0, <2>3
  <2>5. asks[c] \in AskRecords
    BY <1>0
  <2>6. Quiet \in AskRecords
    BY DEF Quiet, AskRecords, AskPhases
  <2>7. ASSUME NEW u \in Users, NEW m \in Members
        PROVE  [at |-> "matching", u |-> u, m |-> m, t |-> accountCalls + 1, ids |-> {},
                o |-> Nobody] \in AskRecords
    BY <1>0 DEF AskRecords, AskPhases, CallbackPhases
  <2>8. ASSUME NEW u \in Users, NEW os \in SUBSET Orgs
        PROVE  [at |-> "copying", u |-> u, m |-> Nobody, t |-> 0, ids |-> os, o |-> Nobody]
                 \in AskRecords
    BY DEF AskRecords, AskPhases, PagePhases
  <2>9. ASSUME NEW u \in Users, NEW id \in PersonIds(u) \cup OrgIds(u)
        PROVE  [at |-> "deactivating", u |-> u, m |-> Nobody, t |-> 0, ids |-> Cascade(u, id),
                o |-> Nobody] \in AskRecords
    <3>1. PersonIds(u) \subseteq AccountIds
      BY <1>0, LenProperties DEF PersonIds, AccountIds
    <3>2. OrgIds(u) \subseteq AccountIds
      BY DEF OrgIds, AccountIds
    <3>3. Cascade(u, id) \subseteq AccountIds
      BY <3>1, <3>2 DEF Cascade
    <3> QED
      BY <3>3 DEF AskRecords, AskPhases
  <2>10. ASSUME NEW at \in AskPhases PROVE [asks[c] EXCEPT !.at = at] \in AskRecords
    BY <2>5 DEF AskRecords
  <2>11. ASSUME ConnectCopies(c), Usable(asks[c].u)
         PROVE  [asks[c] EXCEPT !.at = "checking", !.t = person[asks[c].u][1].token,
                                !.m = person[asks[c].u][1].metaMember] \in AskRecords
    <3>1. asks[c].u \in Users
      BY <2>11 DEF ConnectCopies, PlaceInv, Placed
    <3>2. person[asks[c].u] \in Seq(PersonDoc) /\ person[asks[c].u] # <<>>
      BY <1>0, <2>11, <3>1 DEF Usable
    <3>3. person[asks[c].u][1] \in PersonDoc
      BY <3>2, EmptySeq, LenProperties, ElementOfSeq
    <3>4. person[asks[c].u][1].token \in Nat /\ person[asks[c].u][1].metaMember \in Members
      BY <3>3 DEF PersonDoc
    <3> QED
      BY <2>5, <3>4 DEF AskRecords, AskPhases, PagePhases
  <2>12. ASSUME NEW o \in Orgs PROVE [asks[c] EXCEPT !.at = "storing", !.o = o] \in AskRecords
    BY <2>5 DEF AskRecords, AskPhases, PagePhases
  <2>13. [asks[c] EXCEPT !.at = "checking", !.ids = asks[c].ids \ {asks[c].o}] \in AskRecords
    BY <2>5 DEF AskRecords, AskPhases, PagePhases
  <2>14. {"saving", "inserting", "sharing"} \subseteq AskPhases
    BY DEF AskPhases, CallbackPhases
  <2> QED
    BY <2>1, <2>6, <2>7, <2>8, <2>9, <2>10, <2>11, <2>12, <2>13, <2>14, ZenonT(60) DEF Turns
<1> QED
  BY <1>1, <1>2, Cases


-----------------------------------------------------------------------------
(* Refresh jobs *)

LEMMA JobStep ==
  ASSUME AccountsTypeInv, JobInv, PersonMoves, person' \in [Users -> Seq(PersonDoc)],
         [AccountsNext]_accountVars
  PROVE  /\ avatarJob' \in [AvatarIds -> JobRecords]
         /\ refresher' \in RefreshRecords \cup {Still}
         /\ JobInv'
<1>0. /\ avatarJob \in [AvatarIds -> JobRecords] /\ refresher \in RefreshRecords \cup {Still}
      /\ person \in [Users -> Seq(PersonDoc)]
      /\ RefreshAttempts \in Nat \ {0}
  BY AccountsAssumption DEF AccountsTypeInv
<1> DEFINE Fit(id, j) == /\ j \in JobRecords
                         /\ j.st # "none" => id[2] \in DOMAIN person[id[1]]
                         /\ j.st \in {"waiting", "active"} => j.tries < RefreshAttempts
           Work(r, jobs) == /\ r \in RefreshRecords \cup {Still}
                            /\ r.at # "rest" => jobs[r.id].st = "active"
           Goal == /\ avatarJob' \in [AvatarIds -> JobRecords]
                   /\ refresher' \in RefreshRecords \cup {Still}
                   /\ JobInv'
<1>1. \A id \in AvatarIds : id[1] \in Users
  BY DEF AvatarIds
<1>2. \A id \in AvatarIds : DOMAIN person[id[1]] \subseteq DOMAIN person'[id[1]]
  BY <1>0, <1>1, NeverEmptied
<1>3. \A id \in AvatarIds : Fit(id, avatarJob[id])
  BY <1>0 DEF JobInv
<1>4. Work(refresher, avatarJob)
  BY <1>0 DEF JobInv
<1>5. ASSUME NEW jobs \in [AvatarIds -> JobRecords], avatarJob' = jobs,
             \A id \in AvatarIds : Fit(id, jobs[id]), Work(refresher', jobs)
      PROVE  Goal
  BY <1>2, <1>5 DEF JobInv
<1>6. ASSUME NEW id \in AvatarIds, NEW j \in JobRecords, Fit(id, j),
             avatarJob' = [avatarJob EXCEPT ![id] = j],
             \/ refresher' = Still
             \/ /\ refresher' \in RefreshRecords /\ refresher'.id = id
                /\ j.st = "active"
      PROVE  Goal
  <2> DEFINE jobs == [avatarJob EXCEPT ![id] = j]
  <2>1. jobs \in [AvatarIds -> JobRecords] /\ jobs[id] = j
    BY <1>0
  <2>2. \A i \in AvatarIds : Fit(i, jobs[i])
    BY <1>0, <1>3, <1>6
  <2>3. Work(refresher', jobs)
    BY <1>6, <2>1 DEF Still
  <2> QED
    BY <1>5, <1>6, <2>1, <2>2, <2>3
<1>7. NoRefresh \in JobRecords /\ \A id \in AvatarIds : Fit(id, NoRefresh)
  BY <1>0 DEF NoRefresh, JobRecords
<1>8. ASSUME refresher.at # "rest"
      PROVE  refresher \in RefreshRecords /\ refresher.id \in AvatarIds
             /\ avatarJob[refresher.id].st = "active"
  <2>1. refresher \in RefreshRecords
    BY <1>0, <1>8 DEF Still
  <2> QED
    BY <1>8, <2>1 DEF RefreshRecords, JobInv
<1>9. ASSUME RefreshWrites \/ RefreshMarks PROVE Goal
  <2>1. refresher.at # "rest" /\ JobEnds(refresher.id)
    BY <1>9 DEF RefreshWrites, RefreshMarks
  <2> QED
    BY <1>6, <1>7, <1>8, <2>1 DEF JobEnds
<1>10. ASSUME NEW id \in AvatarIds, RefreshStarts(id) PROVE Goal
  <2>1. CASE JobEnds(id)
    BY <1>6, <1>7, <2>1 DEF JobEnds
  <2>2. CASE /\ avatarJob' = [avatarJob EXCEPT ![id].st = "active"]
             /\ refresher' = [at |-> "asking", id |-> id, doc |-> person[id[1]][id[2]],
                              token |-> person[id[1]][id[2]].token]
    <3> DEFINE j == [avatarJob[id] EXCEPT !.st = "active"]
    <3>1. avatarJob[id].st = "waiting"
      BY <1>10 DEF RefreshStarts
    <3>2. id[2] \in DOMAIN person[id[1]] /\ avatarJob[id].tries < RefreshAttempts
      BY <1>3, <3>1
    <3>3. person[id[1]] \in Seq(PersonDoc)
      BY <1>0, <1>1
    <3>4. person[id[1]][id[2]] \in PersonDoc
      BY <3>2, <3>3, LenProperties, ElementOfSeq
    <3>5. refresher' \in RefreshRecords /\ refresher'.id = id
      BY <2>2, <3>4 DEF RefreshRecords, PersonDoc
    <3>6. j \in JobRecords /\ j.st = "active" /\ Fit(id, j)
      BY <1>3, <3>2 DEF JobRecords
    <3>7. avatarJob' = [avatarJob EXCEPT ![id] = j]
      BY <2>2
    <3> HIDE DEF j
    <3> QED
      BY <1>6, <3>5, <3>6, <3>7
  <2> QED
    BY <1>10, <2>1, <2>2 DEF RefreshStarts
<1>11. ASSUME RefreshFails PROVE Goal
  <2> DEFINE id == refresher.id
             j == [st |-> IF avatarJob[id].tries + 1 < RefreshAttempts THEN "waiting" ELSE "failed",
                   tries |-> avatarJob[id].tries + 1]
  <2>1. refresher.at # "rest" /\ refresher' = Still
    BY <1>11 DEF RefreshFails
  <2>2. id \in AvatarIds /\ avatarJob[id].st = "active"
    BY <1>8, <2>1
  <2>3. avatarJob[id] \in JobRecords /\ avatarJob[id].tries < RefreshAttempts
        /\ id[2] \in DOMAIN person[id[1]]
    BY <1>3, <2>2
  <2>4. avatarJob[id].tries \in Nat
    BY <2>3 DEF JobRecords
  <2>5. j \in JobRecords /\ Fit(id, j)
    BY <1>0, <2>3, <2>4 DEF JobRecords
  <2>6. avatarJob' = [avatarJob EXCEPT ![id] = j]
    BY <1>11 DEF RefreshFails
  <2> HIDE DEF j
  <2> QED
    BY <1>6, <2>1, <2>2, <2>5, <2>6
<1>12. ASSUME RefreshDies PROVE Goal
  <2> DEFINE id == refresher.id
             j == [avatarJob[id] EXCEPT !.st = "waiting"]
  <2>1. refresher.at # "rest" /\ refresher' = Still
    BY <1>12 DEF RefreshDies
  <2>2. id \in AvatarIds /\ avatarJob[id].st = "active"
    BY <1>8, <2>1
  <2>3. j \in JobRecords /\ Fit(id, j)
    BY <1>3, <2>2 DEF JobRecords
  <2>4. avatarJob' = [avatarJob EXCEPT ![id] = j]
    BY <1>12 DEF RefreshDies
  <2> HIDE DEF j
  <2> QED
    BY <1>6, <2>1, <2>2, <2>3, <2>4
<1>13. ASSUME RefreshRefused PROVE Goal
  <2>1. refresher.at # "rest" /\ UNCHANGED <<avatarJob, person>>
        /\ refresher' = [refresher EXCEPT !.at = "marking",
                                          !.doc = person[refresher.id[1]][refresher.id[2]]]
    BY <1>13 DEF RefreshRefused
  <2>2. refresher \in RefreshRecords /\ refresher.id \in AvatarIds
        /\ avatarJob[refresher.id].st = "active"
    BY <1>8, <2>1
  <2>3. refresher.id[2] \in DOMAIN person[refresher.id[1]]
    BY <1>3, <2>2
  <2>4. person[refresher.id[1]] \in Seq(PersonDoc)
    BY <1>0, <1>1, <2>2
  <2>5. person[refresher.id[1]][refresher.id[2]] \in PersonDoc
    BY <2>3, <2>4, LenProperties, ElementOfSeq
  <2>6. refresher' \in RefreshRecords /\ refresher'.id = refresher.id
    BY <2>1, <2>2, <2>5 DEF RefreshRecords
  <2>7. Work(refresher', avatarJob)
    BY <2>2, <2>6
  <2> QED
    BY <1>0, <1>3, <1>5, <2>1, <2>7
<1>14. ASSUME NEW u \in Users, GetConnectedAccounts(u) PROVE Goal
  <2> DEFINE due == {<<u, i>> : i \in {j \in DOMAIN person[u] : ShouldEnqueue(person[u][j])}}
             new == [st |-> "waiting", tries |-> 0]
             jobs == [id \in AvatarIds |->
                        IF id \in due /\ avatarJob[id].st = "none" THEN new ELSE avatarJob[id]]
  <2>1. avatarJob' = jobs /\ refresher' = refresher
    BY <1>14 DEF GetConnectedAccounts
  <2>2. new \in JobRecords /\ \A id \in due : Fit(id, new)
    BY <1>0 DEF JobRecords
  <2> HIDE DEF new
  <2>3. jobs \in [AvatarIds -> JobRecords] /\ \A id \in AvatarIds : Fit(id, jobs[id])
    BY <1>0, <1>3, <2>2
  <2>4. refresher.at # "rest" => jobs[refresher.id].st = "active"
    BY <1>8
  <2>5. Work(refresher', jobs)
    BY <1>0, <2>1, <2>4
  <2> HIDE DEF jobs
  <2> QED
    BY <1>5, <2>1, <2>3, <2>5
<1>15. ASSUME UNCHANGED <<avatarJob, refresher>> PROVE Goal
  BY <1>0, <1>3, <1>4, <1>5, <1>15
<1>16. ASSUME Aside PROVE Goal
  <2>1. \/ UNCHANGED <<avatarJob, refresher>>
        \/ \E u \in Users : GetConnectedAccounts(u)
        \/ \E id \in AvatarIds : RefreshStarts(id)
        \/ RefreshWrites \/ RefreshRefused \/ RefreshMarks \/ RefreshFails \/ RefreshDies
    BY <1>16, Zenon DEF Aside, TokenRefused, AvatarAges
  <2> QED
    BY <1>9, <1>10, <1>11, <1>12, <1>13, <1>14, <1>15, <2>1
<1>17. ASSUME (\E c \in Requests : Calls(c)) \/ UNCHANGED accountVars PROVE Goal
  BY <1>15, <1>17, CallsKeep DEF accountVars
<1> QED
  BY <1>16, <1>17, Cases

LEMMA AccountsTypeStep ==
  ASSUME AccountsTypeInv, PlaceInv, JobInv, [AccountsNext]_accountVars
  PROVE  AccountsTypeInv' /\ JobInv'
<1>1. PersonMoves /\ person' \in [Users -> Seq(PersonDoc)]
  BY PersonStep
<1>2. org' \in [Users -> [Orgs -> OrgDoc]]
  BY OrgStep
<1>3. asks' \in [Requests -> AskRecords]
  BY <1>1, <1>2, AsksStep
<1>4. /\ avatarJob' \in [AvatarIds -> JobRecords] /\ refresher' \in RefreshRecords \cup {Still}
      /\ JobInv'
  BY <1>1, JobStep
<1>5. accountCalls' \in Nat
  <2>1. accountCalls \in Nat
    BY DEF AccountsTypeInv
  <2> QED
    BY <2>1, Cases, CallsKeep, AsideKeeps DEF accountVars
<1>6. overlapped' \in BOOLEAN
  <2>0. overlapped \in BOOLEAN
    BY DEF AccountsTypeInv
  <2>1. ASSUME NEW c \in Requests, Calls(c) PROVE overlapped' \in BOOLEAN
    <3>1. overlapped' = overlapped \/ overlapped' = (overlapped \/ \E d \in Requests : asks[d] # Quiet)
      BY <2>1, Zenon DEF Calls, LinkedinCallback, CallbackMatches, CallbackSaves, CallbackInserts,
         CallbackShares, ConnectLinkedinOrganizations, ConnectCopies, ConnectStores, ConnectChecks,
         DisconnectConnectedAccount, Deactivate, RequestEnds, Begin, accountHistory
    <3> QED
      BY <2>0, <3>1
  <2> QED
    BY <2>0, <2>1, Cases, AsideKeeps DEF accountVars, accountHistory
<1> QED
  BY <1>1, <1>2, <1>3, <1>4, <1>5, <1>6 DEF AccountsTypeInv


-----------------------------------------------------------------------------
(* What requests have in hand *)

\* A request goes on by a call of its own, and one call is made at a time.
LEMMA RequestCases ==
  ASSUME AccountsTypeInv, PlaceInv, PersonMoves, person' \in [Users -> Seq(PersonDoc)],
         [AccountsNext]_accountVars, NEW c \in Requests
  PROVE  \/ asks'[c] = asks[c]
         \/ Calls(c) /\ Turns(c)
<1>1. CASE Aside \/ UNCHANGED accountVars
  BY <1>1, AsideKeeps DEF accountVars
<1>2. ASSUME NEW d \in Requests, Calls(d) PROVE asks'[c] = asks[c] \/ (Calls(c) /\ Turns(c))
  <2>1. CASE c = d
    BY <1>2, <2>1, CallTurns
  <2>2. CASE c # d
    BY <1>2, <2>2, CallsKeep
  <2> QED
    BY <2>1, <2>2
<1> QED
  BY <1>1, <1>2, Cases

LEMMA PlaceStep ==
  ASSUME AccountsTypeInv, PlaceInv, PersonMoves, person' \in [Users -> Seq(PersonDoc)],
         [AccountsNext]_accountVars
  PROVE  PlaceInv'
<1> SUFFICES ASSUME NEW c \in Requests PROVE Placed(c)'
  BY DEF PlaceInv
<1>0. /\ Placed(c) /\ asks[c] \in AskRecords
      /\ person \in [Users -> Seq(PersonDoc)] /\ org \in [Users -> [Orgs -> OrgDoc]]
  BY DEF PlaceInv, AccountsTypeInv
<1>1. \A u \in Users : person[u] # <<>> => person'[u] # <<>>
  BY <1>0, NeverEmptied
<1>2. CASE asks'[c] = asks[c]
  BY <1>0, <1>1, <1>2 DEF Placed, PagePhases, CallbackPhases
<1>3. ASSUME Calls(c), Turns(c) PROVE Placed(c)'
  <2>1. CASE asks'[c] = Quiet
    BY <2>1 DEF Placed, Quiet, CallbackPhases, PagePhases
  <2>2. CASE \E u \in Users, m \in Members :
               asks'[c] = [at |-> "matching", u |-> u, m |-> m, t |-> accountCalls + 1, ids |-> {},
                           o |-> Nobody]
    BY <2>2 DEF Placed, CallbackPhases, PagePhases
  <2>3. CASE \E u \in Users, os \in SUBSET Orgs :
               asks'[c] = [at |-> "copying", u |-> u, m |-> Nobody, t |-> 0, ids |-> os, o |-> Nobody]
    BY <2>3 DEF Placed, CallbackPhases, PagePhases
  <2>4. CASE \E u \in Users : \E id \in PersonIds(u) \cup OrgIds(u) :
               asks'[c] = [at |-> "deactivating", u |-> u, m |-> Nobody, t |-> 0,
                           ids |-> Cascade(u, id), o |-> Nobody]
    BY <2>4 DEF Placed, CallbackPhases, PagePhases
  <2>5. CASE CallbackMatches(c) /\ asks'[c] = [asks[c] EXCEPT !.at = "saving"]
    BY <1>0, <2>5 DEF CallbackMatches, Placed, AskRecords, CallbackPhases, PagePhases
  <2>6. CASE CallbackSaves(c) /\ asks'[c] = [asks[c] EXCEPT !.at = "inserting"]
    BY <1>0, <2>6 DEF CallbackSaves, Placed, AskRecords, CallbackPhases, PagePhases
  <2>7. CASE /\ CallbackSaves(c) \/ CallbackInserts(c)
             /\ asks'[c] = [asks[c] EXCEPT !.at = "sharing"]
             /\ asks[c].u \in Users => person'[asks[c].u] # <<>>
    <3>1. asks[c].at \in {"saving", "inserting"}
      BY <2>7 DEF CallbackSaves, CallbackInserts
    <3> QED
      BY <1>0, <2>7, <3>1 DEF Placed, AskRecords, CallbackPhases, PagePhases
  <2>8. CASE /\ ConnectCopies(c) /\ Usable(asks[c].u)
             /\ asks'[c] = [asks[c] EXCEPT !.at = "checking", !.t = person[asks[c].u][1].token,
                                           !.m = person[asks[c].u][1].metaMember]
    <3>1. asks[c].at = "copying" /\ person[asks[c].u] # <<>>
      BY <2>8 DEF ConnectCopies, Usable
    <3>2. asks[c].u \in Users /\ asks[c].ids \subseteq Orgs
      BY <1>0, <3>1 DEF Placed, PagePhases
    <3>3. person[asks[c].u][1] \in PersonDoc
      BY <1>0, <3>1, <3>2, EmptySeq, LenProperties, ElementOfSeq
    <3>4. person[asks[c].u][1].metaMember \in Members
      BY <3>3 DEF PersonDoc
    <3>5. person'[asks[c].u] # <<>>
      BY <1>1, <3>1, <3>2
    <3> QED
      BY <1>0, <2>8, <3>2, <3>4, <3>5 DEF Placed, AskRecords, CallbackPhases, PagePhases
  <2>9. CASE \E o \in Orgs : /\ ConnectChecks(c, o)
                             /\ asks'[c] = [asks[c] EXCEPT !.at = "storing", !.o = o]
    <3>1. asks[c].at = "checking"
      BY <2>9 DEF ConnectChecks
    <3> QED
      BY <1>0, <1>1, <2>9, <3>1 DEF Placed, AskRecords, CallbackPhases, PagePhases
  <2>10. CASE /\ ConnectStores(c)
              /\ asks'[c] = [asks[c] EXCEPT !.at = "checking", !.ids = asks[c].ids \ {asks[c].o}]
    <3>1. asks[c].at = "storing"
      BY <2>10 DEF ConnectStores
    <3> QED
      BY <1>0, <1>1, <2>10, <3>1 DEF Placed, AskRecords, CallbackPhases, PagePhases
  <2> QED
    BY <1>3, <2>1, <2>2, <2>3, <2>4, <2>5, <2>6, <2>7, <2>8, <2>9, <2>10 DEF Turns
<1> QED
  BY <1>2, <1>3, RequestCases

LEMMA TokenStep ==
  ASSUME AccountsTypeInv, PlaceInv, JobInv, TokenInv, PersonMoves, person' \in [Users -> Seq(PersonDoc)],
         [AccountsNext]_accountVars
  PROVE  TokenInv'
<1>0. /\ \A c \in Requests : asks[c] \in AskRecords /\ Placed(c)
      /\ person \in [Users -> Seq(PersonDoc)] /\ accountCalls \in Nat
      /\ \A u \in Users, i \in Nat : i \in DOMAIN person[u] => person[u][i] \in PersonDoc
  BY LenProperties, ElementOfSeq DEF AccountsTypeInv, PlaceInv
<1>1. accountCalls' \in Nat /\ accountCalls' >= accountCalls
  BY <1>0, Cases, CallsKeep, AsideKeeps DEF accountVars
<1>2. refused' \subseteq 1..accountCalls'
  <2>1. refused' \subseteq refused \cup 1..accountCalls
    BY Cases, CallsKeep, AsideKeeps DEF accountVars
  <2> QED
    BY <1>0, <1>1, <2>1 DEF TokenInv
<1>3. ASSUME NEW c \in Requests PROVE asks'[c].t <= accountCalls'
  <2>0. asks[c].t \in Nat /\ asks[c].t <= accountCalls
    BY <1>0 DEF AskRecords, TokenInv
  <2>1. CASE asks'[c].t = asks[c].t \/ asks'[c].t = 0
    BY <1>0, <1>1, <2>0, <2>1
  <2>2. CASE \E u \in Users, m \in Members :
               LinkedinCallback(c, u, m) /\ asks'[c].t = accountCalls + 1
    <3>1. accountCalls' = accountCalls + 1
      BY <2>2 DEF LinkedinCallback, Begin
    <3> QED
      BY <1>0, <2>2, <3>1
  <2>3. CASE ConnectCopies(c) /\ Usable(asks[c].u) /\ asks'[c].t = person[asks[c].u][1].token
    <3>1. asks[c].u \in Users
      BY <1>0, <2>3 DEF ConnectCopies, Placed
    <3>2. 1 \in DOMAIN person[asks[c].u]
      BY <1>0, <2>3, <3>1, EmptySeq, LenProperties DEF Usable
    <3>3. person[asks[c].u][1].token <= accountCalls /\ person[asks[c].u][1].token \in Nat
      BY <1>0, <3>1, <3>2 DEF TokenInv, PersonDoc
    <3> QED
      BY <1>0, <1>1, <2>3, <3>3
  <2>4. asks[c] \in AskRecords
    BY <1>0
  <2>5. Turns(c) => \/ asks'[c].t = asks[c].t \/ asks'[c].t = 0
                    \/ \E u \in Users, m \in Members :
                         LinkedinCallback(c, u, m) /\ asks'[c].t = accountCalls + 1
                    \/ ConnectCopies(c) /\ Usable(asks[c].u) /\ asks'[c].t = person[asks[c].u][1].token
    <3> SUFFICES ASSUME Turns(c)
                 PROVE  \/ asks'[c].t = asks[c].t \/ asks'[c].t = 0
                        \/ \E u \in Users, m \in Members :
                             LinkedinCallback(c, u, m) /\ asks'[c].t = accountCalls + 1
                        \/ /\ ConnectCopies(c) /\ Usable(asks[c].u)
                           /\ asks'[c].t = person[asks[c].u][1].token
      OBVIOUS
    <3>1. CASE asks'[c] = Quiet
      BY <3>1 DEF Quiet
    <3>2. CASE \E at, ids, o : \/ asks'[c] = [asks[c] EXCEPT !.at = at]
                               \/ asks'[c] = [asks[c] EXCEPT !.at = at, !.o = o]
                               \/ asks'[c] = [asks[c] EXCEPT !.at = at, !.ids = ids]
      BY <2>4, <3>2 DEF AskRecords
    <3>3. CASE ConnectCopies(c) /\ Usable(asks[c].u) /\
               asks'[c] = [asks[c] EXCEPT !.at = "checking", !.t = person[asks[c].u][1].token,
                                          !.m = person[asks[c].u][1].metaMember]
      BY <2>4, <3>3 DEF AskRecords
    <3>4. CASE \E u \in Users, m \in Members :
                 /\ LinkedinCallback(c, u, m)
                 /\ asks'[c] = [at |-> "matching", u |-> u, m |-> m, t |-> accountCalls + 1,
                                ids |-> {}, o |-> Nobody]
      BY <3>4
    <3>5. CASE \E at, u, ids : asks'[c] = [at |-> at, u |-> u, m |-> Nobody, t |-> 0, ids |-> ids,
                                          o |-> Nobody]
      BY <3>5
    <3> QED
      BY <3>1, <3>2, <3>3, <3>4, <3>5, Zenon DEF Turns
  <2> QED
    BY <2>1, <2>2, <2>3, <2>5, RequestCases
<1>4. ASSUME NEW u \in Users, NEW i \in DOMAIN person'[u] PROVE person'[u][i].token <= accountCalls'
  <2>1. CASE i \in DOMAIN person[u]
    <3>1. person[u] \in Seq(PersonDoc) /\ DocMoves(u, i)
      BY <1>0, <2>1 DEF PersonMoves
    <3>2. person[u][i] \in PersonDoc
      BY <2>1, <3>1, LenProperties, ElementOfSeq
    <3>3. person[u][i].token \in Nat /\ person[u][i].token <= accountCalls
      BY <2>1, <3>2 DEF PersonDoc, TokenInv
    <3>4. person'[u][i].token \in {person[u][i].token, 0}
          \/ \E c \in Requests : person'[u][i].token = asks[c].t
      <4>1. DocEffects(u, i)
        BY <3>1, <3>2, DocFields
      <4> QED
        BY <4>1 DEF DocEffects, Alike
    <3> QED
      BY <1>0, <1>1, <3>3, <3>4 DEF TokenInv, AskRecords
  <2>2. CASE \E c \in Requests : person'[u][i] = SavedPerson([mark |-> 0], asks[c].m, asks[c].t)
    BY <1>0, <1>1, <2>2 DEF TokenInv, SavedPerson, AskRecords
  <2> QED
    BY <2>1, <2>2 DEF PersonMoves
<1> QED
  BY <1>2, <1>3, <1>4 DEF TokenInv

LEMMA KnownStep ==
  ASSUME AccountsTypeInv, PlaceInv, KnownInv, PersonMoves, person' \in [Users -> Seq(PersonDoc)],
         \A u \in Users, o \in Orgs : OrgMoves(u, o)
  PROVE  KnownInv'
<1> SUFFICES ASSUME NEW u \in Users, NEW o \in Orgs
             PROVE  /\ org'[u][o].active => org'[u][o].known
                    /\ org'[u][o].known => person'[u] # <<>>
  BY DEF KnownInv
<1>1. org[u][o] \in OrgDoc /\ person \in [Users -> Seq(PersonDoc)] /\ OrgMoves(u, o)
  BY DEF AccountsTypeInv
<1>2. person[u] # <<>> => person'[u] # <<>>
  BY <1>1, NeverEmptied
<1>3. CASE \/ org'[u][o] = org[u][o]
           \/ \E t, m : org[u][o].known /\ org'[u][o] = [org[u][o] EXCEPT !.token = t, !.by = m]
           \/ org'[u][o] = [org[u][o] EXCEPT !.active = FALSE, !.token = 0]
  <2>1. /\ org[u][o].active => org[u][o].known
        /\ org[u][o].known => person[u] # <<>>
    BY DEF KnownInv
  <2> QED
    BY <1>1, <1>2, <1>3, <2>1 DEF OrgDoc
<1>4. ASSUME NEW c \in Requests, ConnectStores(c), asks[c].u = u,
             org'[u][o] = [known |-> TRUE, active |-> TRUE, token |-> asks[c].t, by |-> asks[c].m]
      PROVE  org'[u][o].known /\ person'[u] # <<>>
  BY <1>2, <1>4 DEF ConnectStores, PlaceInv, Placed
<1> QED
  BY <1>1, <1>3, <1>4 DEF OrgMoves


-----------------------------------------------------------------------------
(* Requests that overlap none *)

LEMMA OverlapKept ==
  ASSUME AccountsTypeInv, [AccountsNext]_accountVars
  PROVE  overlapped => overlapped'
<1>1. ASSUME NEW c \in Requests, Calls(c), overlapped PROVE overlapped'
  BY <1>1, Zenon DEF Calls, LinkedinCallback, CallbackMatches, CallbackSaves, CallbackInserts,
     CallbackShares, ConnectLinkedinOrganizations, ConnectCopies, ConnectStores, ConnectChecks,
     DisconnectConnectedAccount, Deactivate, RequestEnds, Begin, accountHistory
<1> QED
  BY <1>1, Cases, AsideKeeps DEF accountVars, accountHistory

\* A request that moves without having overlapped another is the only one.
LEMMA Alone ==
  ASSUME AccountsTypeInv, PlaceInv, AloneInv, NEW c \in Requests, Calls(c), ~overlapped'
  PROVE  \A d \in Requests \ {c} : asks[d].at = "idle"
<1>0. Quiet.at = "idle" /\ overlapped \in BOOLEAN
  BY DEF Quiet, AccountsTypeInv
<1>1. \/ overlapped' = (overlapped \/ \E d \in Requests : asks[d] # Quiet)
      \/ overlapped' = overlapped /\ asks[c].at # "idle"
  <2>1. CASE \/ \E u \in Users, m \in Members : LinkedinCallback(c, u, m)
             \/ \E u \in Users, os \in SUBSET Orgs : ConnectLinkedinOrganizations(c, u, os)
             \/ \E u \in Users : \E id \in PersonIds(u) \cup OrgIds(u) :
                  DisconnectConnectedAccount(c, u, id)
    BY <2>1, Zenon DEF LinkedinCallback, ConnectLinkedinOrganizations, DisconnectConnectedAccount,
       Begin
  <2>2. CASE \/ CallbackMatches(c) \/ CallbackSaves(c) \/ CallbackInserts(c) \/ CallbackShares(c)
             \/ ConnectCopies(c) \/ ConnectStores(c) \/ \E o \in Orgs : ConnectChecks(c, o)
             \/ Deactivate(c)
    BY <2>2 DEF CallbackMatches, CallbackSaves, CallbackInserts, CallbackShares, ConnectCopies,
       ConnectStores, ConnectChecks, Deactivate, accountHistory
  <2>3. ASSUME RequestEnds(c) PROVE overlapped' = overlapped /\ asks[c].at # "idle"
    BY <2>3 DEF RequestEnds, accountHistory, PlaceInv, Placed
  <2> QED
    BY <2>1, <2>2, <2>3, Zenon DEF Calls
<1> QED
  BY <1>0, <1>1 DEF AloneInv

LEMMA AloneStep ==
  ASSUME AccountsTypeInv, PlaceInv, AloneInv, [AccountsNext]_accountVars
  PROVE  AloneInv'
<1> SUFFICES ASSUME ~overlapped', NEW c \in Requests, NEW d \in Requests,
                    asks'[c].at # "idle", asks'[d].at # "idle"
             PROVE  c = d
  BY DEF AloneInv
<1>1. ASSUME NEW e \in Requests, Calls(e) PROVE c = d
  <2>1. \A f \in Requests \ {e} : asks[f].at = "idle" /\ asks'[f] = asks[f]
    BY <1>1, Alone, CallsKeep
  <2> QED
    BY <2>1
<1>2. CASE Aside \/ UNCHANGED accountVars
  BY <1>2, AsideKeeps DEF AloneInv, accountVars, accountHistory
<1> QED
  BY <1>1, <1>2, Cases

-----------------------------------------------------------------------------
(* How many documents a user gets *)

LEMMA LengthStep ==
  ASSUME AccountsTypeInv, PlaceInv, LengthInv, PersonMoves, person' \in [Users -> Seq(PersonDoc)],
         asks' \in [Requests -> AskRecords], [AccountsNext]_accountVars
  PROVE  LengthInv'
<1> SUFFICES ASSUME NEW u \in Users
             PROVE  Len(person'[u]) + Cardinality(Inserting(u)') <= Cardinality(Requests)
  BY DEF LengthInv
<1>0. /\ IsFiniteSet(Requests) /\ Cardinality(Requests) \in Nat
      /\ person[u] \in Seq(PersonDoc) /\ Len(person[u]) \in Nat
  BY AccountsAssumption, FS_CardinalityType, LenProperties DEF AccountsTypeInv
<1>1. /\ Inserting(u) \subseteq Requests /\ IsFiniteSet(Inserting(u))
      /\ Cardinality(Inserting(u)) \in Nat
      /\ Inserting(u)' \subseteq Requests /\ IsFiniteSet(Inserting(u)')
      /\ Cardinality(Inserting(u)') \in Nat
      /\ Cardinality(Inserting(u)') <= Cardinality(Requests)
  <2>1. Inserting(u) \subseteq Requests /\ Inserting(u)' \subseteq Requests
    BY DEF Inserting
  <2> QED
    BY <1>0, <2>1, FS_Subset, FS_CardinalityType
<1>2. Len(person[u]) + Cardinality(Inserting(u)) <= Cardinality(Requests)
  BY DEF LengthInv
\* One more only when there is no document.
<1>3. \/ Inserting(u)' \subseteq Inserting(u)
      \/ person[u] = <<>>
  <2> SUFFICES ASSUME NEW c \in Inserting(u)', c \notin Inserting(u) PROVE person[u] = <<>>
    OBVIOUS
  <2>1. asks'[c] # asks[c] /\ asks'[c].at = "inserting" /\ asks'[c].u = u /\ c \in Requests
    BY DEF Inserting
  <2>2. Turns(c) /\ asks[c] \in AskRecords
    BY <2>1, RequestCases DEF AccountsTypeInv
  <2>3. person[asks[c].u] = <<>> /\ asks'[c].u = asks[c].u
    BY <2>1, <2>2, FieldsOfTurn DEF TurnFields, Quiet
  <2> QED
    BY <2>1, <2>3
<1>4. CASE Len(person'[u]) = Len(person[u])
  <2>1. CASE Inserting(u)' \subseteq Inserting(u)
    BY <1>0, <1>1, <1>2, <1>4, <2>1, FS_Subset
  <2>2. CASE person[u] = <<>>
    BY <1>0, <1>1, <1>4, <2>2, EmptySeq
  <2> QED
    BY <1>3, <2>1, <2>2
<1>5. ASSUME NEW c \in Requests, CallbackInserts(c), asks[c].u = u,
             Len(person'[u]) = Len(person[u]) + 1
      PROVE  Len(person'[u]) + Cardinality(Inserting(u)') <= Cardinality(Requests)
  <2>1. asks[c].at = "inserting" /\ \E b : b.at # "inserting" /\ asks' = [asks EXCEPT ![c] = b]
    <3>1. asks[c].at = "inserting" /\ (Go(c, "sharing") \/ End(c))
      BY <1>5 DEF CallbackInserts
    <3>2. asks[c] \in AskRecords
      BY DEF AccountsTypeInv
    <3>3. Quiet.at # "inserting" /\ [asks[c] EXCEPT !.at = "sharing"].at # "inserting"
      BY <3>2 DEF Quiet, AskRecords
    <3> QED
      BY <3>1, <3>3 DEF Go, End
  <2>2. c \in Inserting(u)
    BY <1>5, <2>1 DEF Inserting
  <2>3. Inserting(u)' \subseteq Inserting(u) \ {c}
    <3>1. asks \in [Requests -> AskRecords]
      BY DEF AccountsTypeInv
    <3> QED
      BY <2>1, <3>1 DEF Inserting
  <2>4. Cardinality(Inserting(u) \ {c}) = Cardinality(Inserting(u)) - 1
        /\ IsFiniteSet(Inserting(u) \ {c})
    BY <1>1, <2>2, FS_RemoveElement
  <2>5. Cardinality(Inserting(u)') <= Cardinality(Inserting(u)) - 1
    BY <2>3, <2>4, FS_Subset
  <2> QED
    BY <1>0, <1>1, <1>2, <1>5, <2>5
<1> QED
  BY <1>4, <1>5 DEF PersonMoves


-----------------------------------------------------------------------------
(* The accounts under the cap *)

\* The active accounts of user u, out of the documents and the pages.
ActiveOf(u, docs, pages) == {<<u, i>> : i \in {j \in DOMAIN docs : docs[j].active}}
                              \cup {<<u, o>> : o \in {x \in Orgs : pages[x].known /\ pages[x].active}}

LEMMA ActiveForm ==
  ASSUME NEW u
  PROVE  /\ ActiveAccounts(u) = ActiveOf(u, person[u], org[u])
         /\ ActiveAccounts(u)' = ActiveOf(u, person'[u], org'[u])
<1>1. ActiveAccounts(u) = ActiveOf(u, person[u], org[u])
  BY DEF ActiveAccounts, ActiveOf, PersonIds, OrgIds
<1>2. ActiveAccounts(u)' = ActiveOf(u, person'[u], org'[u])
  BY DEF ActiveAccounts, ActiveOf, PersonIds, OrgIds
<1> QED
  BY <1>1, <1>2

\* Pages and documents are told apart: no page is a number.
LEMMA ActiveWhich ==
  ASSUME NEW u, NEW docs \in Seq(PersonDoc), NEW pages
  PROVE  /\ \A i \in Nat : <<u, i>> \in ActiveOf(u, docs, pages) <=>
                             i \in DOMAIN docs /\ docs[i].active
         /\ \A o \in Orgs : <<u, o>> \in ActiveOf(u, docs, pages) <=>
                              pages[o].known /\ pages[o].active
         /\ \A x \in ActiveOf(u, docs, pages) :
              \/ \E i \in DOMAIN docs : x = <<u, i>> /\ i \in Nat /\ docs[i].active
              \/ \E o \in Orgs : x = <<u, o>> /\ pages[o].active
         /\ IsFiniteSet(ActiveOf(u, docs, pages))
<1>1. DOMAIN docs = 1..Len(docs) /\ Len(docs) \in Nat
  BY LenProperties
<1>2. \A o \in Orgs : o \notin Nat
  BY AccountsAssumption
<1>3. \A i \in DOMAIN docs : i \in Nat
  BY <1>1
<1>4. \A x : x \in ActiveOf(u, docs, pages) <=>
        \/ \E i \in DOMAIN docs : x = <<u, i>> /\ docs[i].active
        \/ \E o \in Orgs : x = <<u, o>> /\ pages[o].known /\ pages[o].active
  BY DEF ActiveOf
<1>5. \A i \in Nat : <<u, i>> \in ActiveOf(u, docs, pages) <=> i \in DOMAIN docs /\ docs[i].active
  BY <1>2, <1>3, <1>4
<1>6. \A o \in Orgs : <<u, o>> \in ActiveOf(u, docs, pages) <=> pages[o].known /\ pages[o].active
  BY <1>2, <1>3, <1>4
<1>7. \A x \in ActiveOf(u, docs, pages) :
        \/ \E i \in DOMAIN docs : x = <<u, i>> /\ i \in Nat /\ docs[i].active
        \/ \E o \in Orgs : x = <<u, o>> /\ pages[o].active
  BY <1>3, <1>4
<1>8. IsFiniteSet(ActiveOf(u, docs, pages))
  <2> DEFINE S == {u} \X ((1..Len(docs)) \cup Orgs)
  <2>1. ActiveOf(u, docs, pages) \subseteq S
    BY <1>1, <1>7
  <2>2. IsFiniteSet({u}) /\ IsFiniteSet(1..Len(docs)) /\ IsFiniteSet(Orgs)
    <3>1. IsFiniteSet(1..Len(docs))
      BY <1>1, FS_Interval
    <3> QED
      BY <3>1, FS_Singleton, AccountsAssumption
  <2>3. IsFiniteSet((1..Len(docs)) \cup Orgs)
    BY <2>2, FS_Union
  <2>4. IsFiniteSet(S)
    BY <2>2, <2>3, FS_Product
  <2> QED
    BY <2>1, <2>4, FS_Subset
<1> QED
  BY <1>5, <1>6, <1>7, <1>8

\* A known page is one of the user's accounts.
LEMMA KnownIds ==
  ASSUME NEW u, NEW o \in Orgs, org[u][o].known
  PROVE  <<u, o>> \in OrgIds(u)
BY DEF OrgIds

\* The requests whose call adds an account leave the place they had.
LEMMA AddersLeave ==
  ASSUME AccountsTypeInv, NEW c \in Requests, CallbackInserts(c) \/ ConnectStores(c)
  PROVE  /\ Calls(c)
         /\ \/ asks[c].at = "inserting" /\ CallbackInserts(c)
            \/ asks[c].at = "storing" /\ ConnectStores(c)
         /\ asks'[c].at \notin {"inserting", "storing"}
<1>0. asks \in [Requests -> AskRecords] /\ asks[c] \in AskRecords
  BY DEF AccountsTypeInv
<1>1. Calls(c)
  BY DEF Calls
<1>2. ASSUME End(c) PROVE asks'[c].at \notin {"inserting", "storing"}
  BY <1>0, <1>2 DEF End, Quiet
<1>3. ASSUME Go(c, "sharing") PROVE asks'[c].at \notin {"inserting", "storing"}
  BY <1>0, <1>3 DEF Go, AskRecords
<1>4. ASSUME NEW left, asks' = [asks EXCEPT ![c] = [@ EXCEPT !.at = "checking", !.ids = left]]
      PROVE  asks'[c].at \notin {"inserting", "storing"}
  BY <1>0, <1>4 DEF AskRecords
<1>5. CASE CallbackInserts(c)
  BY <1>1, <1>2, <1>3, <1>5 DEF CallbackInserts
<1>6. CASE ConnectStores(c)
  BY <1>1, <1>2, <1>4, <1>6 DEF ConnectStores
<1> QED
  BY <1>5, <1>6

\* Only one request acts, so only one adds an account.
LEMMA OneAdder ==
  ASSUME AccountsTypeInv, NEW c \in Requests, NEW d \in Requests,
         CallbackInserts(c) \/ ConnectStores(c), CallbackInserts(d) \/ ConnectStores(d)
  PROVE  c = d
<1>1. asks'[c] # asks[c] /\ asks'[d] # asks[d] /\ Calls(c) /\ Calls(d)
  BY AddersLeave
<1> QED
  BY <1>1, CallsKeep

\* What is known stays known.
LEMMA KnownKept ==
  ASSUME AccountsTypeInv, NEW u \in Users, NEW o \in Orgs, OrgMoves(u, o), org[u][o].known
  PROVE  org'[u][o].known
<1>1. org[u][o] \in OrgDoc
  BY DEF AccountsTypeInv
<1>2. OrgEffects(u, o)
  BY <1>1, OrgFields
<1> QED
  BY <1>2, Zenon DEF OrgEffects

\* An account that begins to count is the new one of its request.
JoinsAs(c, u, x) ==
  /\ asks[c].u = u
  /\ \/ CallbackInserts(c) /\ x = <<u, Len(person[u]) + 1>>
     \/ ConnectStores(c) /\ x = <<u, asks[c].o>> /\ ~org[u][asks[c].o].known

LEMMA ReactivatedKept ==
  ASSUME AccountsTypeInv, [AccountsNext]_accountVars
  PROVE  reactivated \subseteq reactivated'
<1>1. ASSUME NEW c \in Requests, Calls(c) PROVE reactivated \subseteq reactivated'
  <2>1. \/ reactivated' = reactivated
        \/ \E s : reactivated' = reactivated \cup s
    BY <1>1, Zenon DEF Calls, LinkedinCallback, CallbackMatches, CallbackSaves, CallbackInserts,
       CallbackShares, ConnectLinkedinOrganizations, ConnectCopies, ConnectStores, ConnectChecks,
       DisconnectConnectedAccount, Deactivate, RequestEnds, Begin, accountHistory
  <2> QED
    BY <2>1
<1> QED
  BY <1>1, Cases, AsideKeeps DEF accountVars, accountHistory

LEMMA NewlyCounted ==
  ASSUME AccountsTypeInv, PlaceInv, KnownInv, PersonMoves, person' \in [Users -> Seq(PersonDoc)],
         \A u \in Users, o \in Orgs : OrgMoves(u, o), reactivated \subseteq reactivated',
         NEW u \in Users, NEW x, x \in Counted(u)', x \notin Counted(u)
  PROVE  \E c \in Requests : JoinsAs(c, u, x)
<1>0. /\ person[u] \in Seq(PersonDoc) /\ person'[u] \in Seq(PersonDoc)
      /\ \A o \in Orgs : org[u][o] \in OrgDoc
      /\ \A i \in DOMAIN person[u] : i \in Nat /\ person[u][i] \in PersonDoc
      /\ \A i \in DOMAIN person'[u] : i \in Nat
  BY LenProperties, ElementOfSeq DEF AccountsTypeInv
<1>1. x \in ActiveAccounts(u)' /\ x \notin reactivated' /\ x \notin reactivated
      /\ x \notin ActiveAccounts(u)
  BY DEF Counted
<1>2. \/ \E i \in DOMAIN person'[u] : x = <<u, i>> /\ i \in Nat /\ person'[u][i].active
      \/ \E o \in Orgs : x = <<u, o>> /\ org'[u][o].active
  BY <1>0, <1>1, ActiveForm, ActiveWhich
<1>3. ASSUME NEW i \in DOMAIN person'[u], x = <<u, i>>, person'[u][i].active
      PROVE  \E c \in Requests : JoinsAs(c, u, x)
  <2>1. CASE i \in DOMAIN person[u]
    <3>1. ~person[u][i].active
      BY <1>0, <1>1, <1>3, <2>1, ActiveForm, ActiveWhich
    <3>2. DocEffects(u, i)
      BY <1>0, <2>1, DocFields DEF PersonMoves
    <3>3. \E c \in Requests : reactivated' = reactivated \cup ({<<u, 1>>} \ ActiveAccounts(u)) /\ i = 1
      BY <1>3, <3>1, <3>2 DEF DocEffects, Alike
    <3> QED
      BY <1>1, <1>3, <3>3
  <2>2. CASE i \notin DOMAIN person[u]
    BY <1>3, <2>2 DEF PersonMoves, JoinsAs
  <2> QED
    BY <2>1, <2>2
<1>4. ASSUME NEW o \in Orgs, x = <<u, o>>, org'[u][o].active
      PROVE  \E c \in Requests : JoinsAs(c, u, x)
  <2>1. ~(org[u][o].known /\ org[u][o].active)
    BY <1>0, <1>1, <1>4, ActiveForm, ActiveWhich
  <2>2. OrgMoves(u, o) /\ org[u][o] \in OrgDoc
    BY <1>0
  <2>3. \/ org'[u][o].active = org[u][o].active
        \/ org'[u][o].active = FALSE
        \/ \E c \in Requests : asks[c].u = u /\ asks[c].o = o /\ ConnectStores(c)
    <3>1. OrgEffects(u, o)
      BY <2>2, OrgFields
    <3> QED
      BY <3>1, Zenon DEF OrgEffects
  <2>4. PICK c \in Requests : asks[c].u = u /\ asks[c].o = o /\ ConnectStores(c)
    <3>1. org[u][o].active => org[u][o].known
      BY DEF KnownInv
    <3> QED
      BY <1>4, <2>1, <2>3, <3>1
  <2>5. CASE org[u][o].known
    <3>1. reactivated' = reactivated \cup ({<<u, o>>} \cap (OrgIds(u) \ ActiveAccounts(u)))
      BY <2>4 DEF ConnectStores
    <3>2. x \in reactivated'
      BY <1>1, <1>4, <2>5, <3>1, KnownIds
    <3> QED
      BY <1>1, <3>2
  <2>6. CASE ~org[u][o].known
    BY <1>4, <2>4, <2>6 DEF JoinsAs
  <2> QED
    BY <2>5, <2>6
<1> QED
  BY <1>2, <1>3, <1>4


\* Whoever comes to add an account found room for it, and changed nothing else.
LEMMA Joiner ==
  ASSUME AccountsTypeInv, PlaceInv, KnownInv, AccountsTypeInv', PersonMoves, NEW c \in Requests, Calls(c), NEW u \in Users,
         \A o \in Orgs : OrgMoves(u, o), c \in Joining(u)', c \notin Joining(u)
  PROVE  /\ Cardinality(ActiveAccounts(u)) < Cap
         /\ ActiveAccounts(u)' = ActiveAccounts(u)
<1>0. /\ person \in [Users -> Seq(PersonDoc)] /\ person' \in [Users -> Seq(PersonDoc)]
      /\ asks[c] \in AskRecords /\ Cap \in Nat \ {0}
  BY AccountsAssumption DEF AccountsTypeInv
<1>1. /\ asks'[c].u = u
      /\ \/ asks'[c].at = "inserting"
         \/ asks'[c].at = "storing" /\ ~org'[u][asks'[c].o].known
  BY DEF Joining
<1>2. TurnFields(c)
  BY <1>0, CallTurns, FieldsOfTurn
<1>3. CASE CallbackSaves(c) /\ person[u] = <<>> /\ asks'[c].at = "inserting"
  <2>1. \A o \in Orgs : ~org[u][o].active
    BY <1>3 DEF KnownInv
  <2>2. DOMAIN person[u] = {}
    BY <1>3
  <2>3. ActiveAccounts(u) = {}
    BY <2>1, <2>2 DEF ActiveAccounts, PersonIds, OrgIds
  <2>4. UNCHANGED <<person, org>>
    <3>1. asks[c].u = u
      BY <1>1, <1>2, <1>3 DEF TurnFields, Quiet
    <3> QED
      BY <1>3, <3>1 DEF CallbackSaves
  <2>5. ActiveAccounts(u)' = ActiveAccounts(u)
    BY <2>4, ActiveForm
  <2> QED
    BY <1>0, <2>3, <2>5, FS_EmptySet
<1>4. ASSUME NEW o \in Orgs, ConnectChecks(c, o), org[asks[c].u][o].known \/ HasCapacity(asks[c].u),
             asks'[c].u = asks[c].u, asks'[c].at = "storing", asks'[c].o = o
      PROVE  Cardinality(ActiveAccounts(u)) < Cap /\ ActiveAccounts(u)' = ActiveAccounts(u)
  <2>1. asks[c].u = u /\ UNCHANGED <<person, org>>
    BY <1>1, <1>4 DEF ConnectChecks
  <2>2. ~org[u][o].known
    BY <1>1, <1>4, <2>1
  <2>3. ActiveAccounts(u)' = ActiveAccounts(u)
    BY <2>1, ActiveForm
  <2> QED
    BY <1>4, <2>1, <2>2, <2>3 DEF HasCapacity
<1>5. \/ CallbackSaves(c) /\ person[asks[c].u] = <<>> /\ asks'[c].u = asks[c].u
      \/ \E o \in Orgs : /\ ConnectChecks(c, o) /\ (org[asks[c].u][o].known \/ HasCapacity(asks[c].u))
                         /\ asks'[c].u = asks[c].u /\ asks'[c].at = "storing" /\ asks'[c].o = o
  BY <1>1, <1>2 DEF TurnFields, Quiet
<1>6. CASE asks'[c].at = "inserting"
  BY <1>1, <1>2, <1>3, <1>6 DEF TurnFields, Quiet
<1>7. CASE asks'[c].at = "storing"
  BY <1>1, <1>2, <1>4, <1>7 DEF TurnFields, Quiet
<1> QED
  BY <1>1, <1>6, <1>7

LEMMA JoiningFinite ==
  ASSUME NEW u
  PROVE  /\ IsFiniteSet(Joining(u)) /\ Cardinality(Joining(u)) \in Nat
         /\ IsFiniteSet(Joining(u)') /\ Cardinality(Joining(u)') \in Nat
         /\ Cardinality(Joining(u)') <= Cardinality(Requests) /\ Cardinality(Requests) \in Nat
<1>1. Joining(u) \subseteq Requests /\ Joining(u)' \subseteq Requests /\ IsFiniteSet(Requests)
  BY AccountsAssumption DEF Joining
<1> QED
  BY <1>1, FS_Subset, FS_CardinalityType

LEMMA CountedFinite ==
  ASSUME NEW u \in Users, AccountsTypeInv, AccountsTypeInv'
  PROVE  /\ IsFiniteSet(Counted(u)) /\ Cardinality(Counted(u)) \in Nat
         /\ IsFiniteSet(Counted(u)') /\ Cardinality(Counted(u)') \in Nat
         /\ IsFiniteSet(ActiveAccounts(u)) /\ Cardinality(ActiveAccounts(u)) \in Nat
<1>1. person[u] \in Seq(PersonDoc) /\ person'[u] \in Seq(PersonDoc)
  BY DEF AccountsTypeInv
<1>2. IsFiniteSet(ActiveAccounts(u)) /\ IsFiniteSet(ActiveAccounts(u)')
  BY <1>1, ActiveForm, ActiveWhich
<1>3. Counted(u) \subseteq ActiveAccounts(u) /\ Counted(u)' \subseteq ActiveAccounts(u)'
  BY DEF Counted
<1> QED
  BY <1>2, <1>3, FS_Subset, FS_CardinalityType

LEMMA CapStep ==
  ASSUME AccountsTypeInv, PlaceInv, KnownInv, AloneInv, CapInv, AccountsTypeInv', PersonMoves,
         \A u \in Users, o \in Orgs : OrgMoves(u, o), [AccountsNext]_accountVars
  PROVE  CapInv'
<1> SUFFICES ASSUME NEW u \in Users
             PROVE  Cardinality(Counted(u)') + Cardinality(Joining(u)') <= Cap + Extra'
  BY DEF CapInv
<1>0. /\ person \in [Users -> Seq(PersonDoc)] /\ person' \in [Users -> Seq(PersonDoc)]
      /\ asks \in [Requests -> AskRecords] /\ Cap \in Nat
      /\ overlapped \in BOOLEAN /\ overlapped' \in BOOLEAN
  BY AccountsAssumption DEF AccountsTypeInv
<1>1. Cardinality(Counted(u)) + Cardinality(Joining(u)) <= Cap + Extra
  BY DEF CapInv
<1>2. reactivated \subseteq reactivated' /\ (overlapped => overlapped')
  BY ReactivatedKept, OverlapKept
\* A request does not come to add an account by what others do.
<1>3. \A d \in Joining(u)' \ Joining(u) : asks'[d] # asks[d] /\ d \in Requests
  <2> SUFFICES ASSUME NEW d, d \in Joining(u)', asks'[d] = asks[d] PROVE d \in Joining(u)
    BY DEF Joining
  <2>1. d \in Requests /\ asks[d].u = u
    BY DEF Joining
  <2>2. CASE asks[d].at = "inserting"
    BY <2>1, <2>2 DEF Joining
  <2>3. CASE asks[d].at = "storing" /\ ~org'[u][asks[d].o].known
    <3>1. asks[d].o \in Orgs
      BY <2>1, <2>3 DEF PlaceInv, Placed
    <3>2. ~org[u][asks[d].o].known
      BY <2>3, <3>1, KnownKept
    <3> QED
      BY <2>1, <2>3, <3>2 DEF Joining
  <2> QED
    BY <2>2, <2>3 DEF Joining
<1>4. \A x \in Counted(u)' \ Counted(u) : \E c \in Requests : JoinsAs(c, u, x)
  BY <1>0, <1>2, NewlyCounted
<1>5. CASE Aside \/ UNCHANGED accountVars
  <2>1. asks' = asks /\ overlapped' = overlapped
    BY <1>5, AsideKeeps DEF accountVars, accountHistory
  <2>2. Joining(u)' \subseteq Joining(u)
    BY <1>3, <2>1
  <2>3. Counted(u)' \subseteq Counted(u)
    <3> SUFFICES ASSUME NEW c \in Requests, NEW x, JoinsAs(c, u, x) PROVE FALSE
      BY <1>4
    <3>1. asks'[c] # asks[c]
      BY AddersLeave DEF JoinsAs
    <3> QED
      BY <2>1, <3>1
  <2>4. Cardinality(Joining(u)') <= Cardinality(Joining(u))
        /\ Cardinality(Counted(u)') <= Cardinality(Counted(u))
    BY <2>2, <2>3, JoiningFinite, CountedFinite, FS_Subset
  <2>5. Extra' = Extra
    BY <2>1 DEF Extra
  <2>6. Extra \in Int
    BY JoiningFinite DEF Extra
  <2> QED
    BY <1>0, <1>1, <2>4, <2>5, <2>6, JoiningFinite, CountedFinite
<1>6. ASSUME NEW c \in Requests, Calls(c)
      PROVE  Cardinality(Counted(u)') + Cardinality(Joining(u)') <= Cap + Extra'
  <2>1. Extra' >= Extra /\ Extra \in Nat /\ Extra' \in Nat
    <3>1. Cardinality(Requests) \in Nat /\ Cardinality(Requests) # 0
      BY <1>6, JoiningFinite, AccountsAssumption, FS_EmptySet
    <3> QED
      BY <1>2, <3>1 DEF Extra
  <2>2. \A d \in Requests \ {c} : asks'[d] = asks[d]
    BY <1>6, CallsKeep
  <2>3. CASE c \in Joining(u)' /\ c \notin Joining(u)
    <3>1. Cardinality(ActiveAccounts(u)) < Cap /\ ActiveAccounts(u)' = ActiveAccounts(u)
      BY <1>0, <1>6, <2>3, Joiner
    <3>2. Counted(u)' \subseteq ActiveAccounts(u)
      BY <3>1 DEF Counted
    <3>3. Cardinality(Counted(u)') <= Cap - 1
      BY <1>0, <3>1, <3>2, CountedFinite, FS_Subset
    <3>4. CASE overlapped'
      BY <1>0, <3>3, <3>4, JoiningFinite, CountedFinite DEF Extra
    <3>5. CASE ~overlapped'
      <4>1. \A d \in Requests \ {c} : asks[d].at = "idle"
        BY <1>6, <3>5, Alone
      <4>2. Joining(u)' \subseteq {c}
        BY <2>2, <4>1 DEF Joining
      <4>3. Cardinality(Joining(u)') <= 1
        <5>1. IsFiniteSet({c}) /\ Cardinality({c}) = 1
          BY FS_Singleton
        <5> QED
          BY <4>2, <5>1, FS_Subset
      <4> QED
        BY <1>0, <2>1, <3>3, <4>3, JoiningFinite, CountedFinite
    <3> QED
      BY <3>4, <3>5
  <2>4. CASE ~(c \in Joining(u)' /\ c \notin Joining(u))
    <3>1. Joining(u)' \subseteq Joining(u)
      BY <1>3, <2>2, <2>4
    <3>2. Cardinality(Joining(u)') <= Cardinality(Joining(u))
      BY <3>1, JoiningFinite, FS_Subset
    <3>3. CASE Counted(u)' \subseteq Counted(u)
      <4>1. Cardinality(Counted(u)') <= Cardinality(Counted(u))
        BY <3>3, CountedFinite, FS_Subset
      <4> QED
        <5>1. /\ Cardinality(Counted(u)) \in Nat /\ Cardinality(Counted(u)') \in Nat
              /\ Cardinality(Joining(u)) \in Nat /\ Cardinality(Joining(u)') \in Nat
          BY JoiningFinite, CountedFinite
        <5> QED
          BY <1>0, <1>1, <2>1, <3>2, <4>1, <5>1
    <3>4. ASSUME NEW x \in Counted(u)' \ Counted(u)
          PROVE  Cardinality(Counted(u)') + Cardinality(Joining(u)') <= Cap + Extra'
      <4>1. PICK d \in Requests : JoinsAs(d, u, x)
        BY <1>4, <3>4
      <4>2. \A y \in Counted(u)' \ Counted(u) : y = x
        <5> SUFFICES ASSUME NEW y \in Counted(u)' \ Counted(u) PROVE y = x
          OBVIOUS
        <5>1. PICK e \in Requests : JoinsAs(e, u, y)
          BY <1>4
        <5>2. e = d
          BY <4>1, <5>1, OneAdder DEF JoinsAs
        <5>3. CallbackInserts(d) => ~ConnectStores(d)
          BY DEF CallbackInserts, ConnectStores
        <5> QED
          BY <4>1, <5>1, <5>2, <5>3 DEF JoinsAs
      <4>3. d \in Joining(u) /\ d \notin Joining(u)'
        <5>1. /\ asks[d].u = u /\ asks'[d].at \notin {"inserting", "storing"}
              /\ \/ asks[d].at = "inserting"
                 \/ asks[d].at = "storing" /\ ConnectStores(d)
          BY <4>1, AddersLeave DEF JoinsAs
        <5>2. ConnectStores(d) /\ asks[d].at = "storing" => ~org[u][asks[d].o].known
          BY <4>1 DEF JoinsAs, CallbackInserts
        <5> QED
          BY <5>1, <5>2 DEF Joining
      <4>4. /\ Counted(u)' \subseteq Counted(u) \cup {x}
            /\ Joining(u)' \subseteq Joining(u) \ {d}
        BY <3>1, <4>2, <4>3
      <4>5. /\ IsFiniteSet(Counted(u) \cup {x})
            /\ Cardinality(Counted(u) \cup {x}) = Cardinality(Counted(u)) + 1
        BY <3>4, CountedFinite, FS_AddElement
      <4>6. /\ IsFiniteSet(Joining(u) \ {d})
            /\ Cardinality(Joining(u) \ {d}) = Cardinality(Joining(u)) - 1
        BY <4>3, JoiningFinite, FS_RemoveElement
      <4>7. /\ Cardinality(Counted(u)') <= Cardinality(Counted(u)) + 1
            /\ Cardinality(Joining(u)') <= Cardinality(Joining(u)) - 1
        BY <4>4, <4>5, <4>6, FS_Subset
      <4> QED
        <5>1. /\ Cardinality(Counted(u)) \in Nat /\ Cardinality(Counted(u)') \in Nat
              /\ Cardinality(Joining(u)) \in Nat /\ Cardinality(Joining(u)') \in Nat
          BY JoiningFinite, CountedFinite
        <5> QED
          BY <1>0, <1>1, <2>1, <4>7, <5>1
    <3> QED
      BY <3>3, <3>4
  <2> QED
    BY <2>3, <2>4
<1> QED
  BY <1>5, <1>6, Cases


-----------------------------------------------------------------------------
(* Who owns a member *)

LEMMA StaleKept ==
  ASSUME AccountsTypeInv, [AccountsNext]_accountVars
  PROVE  stale \subseteq stale'
<1>1. ASSUME NEW c \in Requests, Calls(c) PROVE stale \subseteq stale'
  <2>1. \/ stale' = stale
        \/ \E ids : stale' = Rewritten(ids)
    BY <1>1, Zenon DEF Calls, LinkedinCallback, CallbackMatches, CallbackSaves, CallbackInserts,
       CallbackShares, ConnectLinkedinOrganizations, ConnectCopies, ConnectStores, ConnectChecks,
       DisconnectConnectedAccount, Deactivate, RequestEnds, Begin, accountHistory
  <2> QED
    BY <2>1 DEF Rewritten
<1> QED
  BY <1>1, Cases, AsideKeeps DEF accountVars, accountHistory

\* A document gets a member from the callback of its user, which leaves the
\* documents of the others alone.
Saves(c, u, m) == /\ CallbackSaves(c) \/ CallbackInserts(c)
                  /\ asks[c].u = u /\ asks[c].m = m
                  /\ \A v \in Users \ {u} : person'[v] = person[v]

LEMMA NewMember ==
  ASSUME AccountsTypeInv, PersonMoves, NEW u \in Users, NEW i \in DOMAIN person'[u]
  PROVE  \/ i \in DOMAIN person[u] /\ person'[u][i].member = person[u][i].member
         \/ \E c \in Requests : Saves(c, u, person'[u][i].member)
<1>0. person \in [Users -> Seq(PersonDoc)] /\ person[u] \in Seq(PersonDoc)
  BY DEF AccountsTypeInv
<1>1. \A c \in Requests : (CallbackSaves(c) \/ CallbackInserts(c)) /\ asks[c].u = u =>
                            \A v \in Users \ {u} : person'[v] = person[v]
  BY <1>0 DEF CallbackSaves, CallbackInserts
<1>2. CASE i \in DOMAIN person[u]
  <2>1. person[u][i] \in PersonDoc
    BY <1>0, <1>2, LenProperties, ElementOfSeq
  <2>2. DocEffects(u, i)
    BY <1>2, <2>1, DocFields DEF PersonMoves
  <2>3. \/ person'[u][i].member = person[u][i].member
        \/ \E c \in Requests : CallbackSaves(c) /\ asks[c].u = u /\ person'[u][i].member = asks[c].m
    BY <2>2 DEF DocEffects, Alike
  <2> QED
    BY <1>1, <1>2, <2>3 DEF Saves
<1>3. CASE i \notin DOMAIN person[u]
  <2>1. PICK c \in Requests : /\ CallbackInserts(c) /\ asks[c].u = u
                              /\ person'[u][i] = SavedPerson([mark |-> 0], asks[c].m, asks[c].t)
    BY <1>3 DEF PersonMoves
  <2>2. person'[u][i].member = asks[c].m
    BY <2>1 DEF SavedPerson
  <2> QED
    BY <1>1, <2>1, <2>2 DEF Saves
<1> QED
  BY <1>2, <1>3

LEMMA SaversMove ==
  ASSUME AccountsTypeInv, NEW c \in Requests, CallbackSaves(c) \/ CallbackInserts(c)
  PROVE  asks'[c] # asks[c]
<1>1. asks[c].at \in {"saving", "inserting"} /\ asks \in [Requests -> AskRecords]
  BY DEF CallbackSaves, CallbackInserts, AccountsTypeInv
<1>2. \/ End(c) \/ Go(c, "sharing")
      \/ Go(c, "inserting") /\ asks[c].at = "saving"
  BY DEF CallbackSaves, CallbackInserts
<1> QED
  BY <1>1, <1>2 DEF End, Go, Quiet, AskRecords

LEMMA OwnerStep ==
  ASSUME AccountsTypeInv, PlaceInv, AloneInv, OneOwner, OwnerInv, MetadataIsCurrent, PersonMoves, AccountsTypeInv',
         [AccountsNext]_accountVars
  PROVE  OneOwner' /\ OwnerInv'
<1> SUFFICES ASSUME ~overlapped' PROVE OneOwner' /\ OwnerInv'
  BY DEF OneOwner, OwnerInv
<1>0. /\ person \in [Users -> Seq(PersonDoc)] /\ person' \in [Users -> Seq(PersonDoc)]
      /\ ~overlapped /\ stale \subseteq stale'
      /\ \A c \in Requests : asks[c] \in AskRecords /\ Placed(c)
  BY OverlapKept, StaleKept DEF AccountsTypeInv, PlaceInv
<1>1. \A u \in Users : /\ Len(person[u]) \in Nat /\ Len(person[u]) <= 1
                       /\ DOMAIN person[u] = 1..Len(person[u])
                       /\ Len(person'[u]) \in Nat /\ DOMAIN person'[u] = 1..Len(person'[u])
  BY <1>0, LenProperties DEF OneOwner
<1>2. ASSUME NEW u \in Users PROVE Len(person'[u]) <= 1
  <2>1. ASSUME NEW c \in Requests, CallbackInserts(c), asks[c].u = u,
               Len(person'[u]) = Len(person[u]) + 1
        PROVE  Len(person'[u]) <= 1
    <3>1. person[u] = <<>>
      BY <1>0, <2>1 DEF OwnerInv, CallbackInserts
    <3> QED
      BY <2>1, <3>1
  <2> QED
    BY <1>1, <2>1 DEF PersonMoves
\* The request that saves has seen that nobody else has the member.
<1>3. ASSUME NEW u \in Users, NEW v \in Users, u # v, NEW i \in DOMAIN person'[u],
             NEW j \in DOMAIN person'[v], <<u, i>> \notin stale', <<v, j>> \notin stale',
             NEW c \in Requests, Saves(c, u, person'[u][i].member)
      PROVE  person'[u][i].member # person'[v][j].member
  <2>1. i = 1
    BY <1>1, <1>2
  <2>2. <<u, 1>> \notin stale /\ <<v, j>> \notin stale /\ person'[v] = person[v]
    BY <1>0, <1>3, <2>1 DEF Saves
  <2>3. asks[c].at \in {"saving", "inserting"}
    BY <1>3 DEF Saves, CallbackSaves, CallbackInserts
  <2>4. person[v][j].member # asks[c].m
    BY <1>0, <1>3, <2>2, <2>3 DEF OwnerInv, Saves
  <2> QED
    BY <1>3, <2>2, <2>4 DEF Saves
<1>4. OneOwner'
  <2> SUFFICES ASSUME NEW u \in Users, NEW v \in Users, u # v, NEW i \in DOMAIN person'[u],
                      NEW j \in DOMAIN person'[v], <<u, i>> \notin stale', <<v, j>> \notin stale'
               PROVE  person'[u][i].member # person'[v][j].member
    BY <1>2 DEF OneOwner
  <2>1. CASE \E c \in Requests : Saves(c, u, person'[u][i].member)
    BY <1>3, <2>1
  <2>2. CASE \E c \in Requests : Saves(c, v, person'[v][j].member)
    BY <1>3, <2>2
  <2>3. CASE /\ i \in DOMAIN person[u] /\ person'[u][i].member = person[u][i].member
             /\ j \in DOMAIN person[v] /\ person'[v][j].member = person[v][j].member
    BY <1>0, <2>3 DEF OneOwner
  <2> QED
    BY <2>1, <2>2, <2>3, NewMember
\* What the search for an owner says of the documents.
<1>5. ASSUME NEW c \in Requests, NEW u \in Users, NEW m \in Members, LinkedinCallback(c, u, m)
      PROVE  \/ <<u, 1>> \in stale
             \/ \A v \in Users \ {u} : \A j \in DOMAIN person[v] :
                  <<v, j>> \in stale \/ person[v][j].member # m
  <2>1. CASE OwnersOf(m) = {}
    BY <2>1 DEF OwnersOf
  <2>2. CASE u \in OwnersOf(m) /\ <<u, 1>> \notin stale
    <3>1. PICK i \in DOMAIN person[u] : m \in {person[u][i].member, person[u][i].metaMember}
      BY <2>2 DEF OwnersOf
    <3>2. i = 1
      BY <1>1
    <3>3. person[u][i].member = m
      BY <2>2, <3>1, <3>2 DEF MetadataIsCurrent
    <3>4. <<u, i>> \notin stale
      BY <2>2, <3>2
    <3> QED
      BY <1>0, <3>3, <3>4 DEF OneOwner
  <2> QED
    BY <1>5, <2>1, <2>2 DEF LinkedinCallback
<1>6. ASSUME NEW c \in Requests
      PROVE  /\ asks'[c].at \in {"matching", "saving", "inserting"} =>
                  \/ <<asks'[c].u, 1>> \in stale'
                  \/ \A v \in Users \ {asks'[c].u} : \A j \in DOMAIN person'[v] :
                       <<v, j>> \in stale' \/ person'[v][j].member # asks'[c].m
             /\ asks'[c].at = "inserting" => person'[asks'[c].u] = <<>>
  <2> SUFFICES ASSUME asks'[c].at \in {"matching", "saving", "inserting"}
               PROVE  /\ \/ <<asks'[c].u, 1>> \in stale'
                         \/ \A v \in Users \ {asks'[c].u} : \A j \in DOMAIN person'[v] :
                              <<v, j>> \in stale' \/ person'[v][j].member # asks'[c].m
                      /\ asks'[c].at = "inserting" => person'[asks'[c].u] = <<>>
    OBVIOUS
  <2>1. CASE Aside \/ UNCHANGED accountVars
    <3>1. asks' = asks /\ stale' = stale
      BY <2>1, AsideKeeps DEF accountVars, accountHistory
    <3>2. \A d \in Requests : ~CallbackSaves(d) /\ ~CallbackInserts(d)
      BY <1>0, <3>1, SaversMove
    <3>3. asks[c].u \in Users
      BY <1>0, <3>1 DEF Placed
    <3>4. \A v \in Users : /\ DOMAIN person'[v] = DOMAIN person[v]
                           /\ Len(person'[v]) = Len(person[v])
                           /\ \A j \in DOMAIN person[v] : person'[v][j].member = person[v][j].member
      BY <3>2, NewMember DEF PersonMoves, Saves
    <3>5. asks[c].at = "inserting" => person'[asks[c].u] = <<>>
      <4>1. asks[c].at = "inserting" => person[asks[c].u] = <<>>
        BY <1>0 DEF OwnerInv
      <4> QED
        BY <1>0, <3>3, <3>4, <4>1, EmptySeq
    <3> QED
      BY <1>0, <3>1, <3>4, <3>5 DEF OwnerInv
  <2>2. ASSUME NEW d \in Requests \ {c}, Calls(d) PROVE FALSE
    <3>1. asks'[c] = asks[c]
      BY <2>2, CallsKeep
    <3>2. asks[c].at = "idle"
      BY <2>2, Alone
    <3> QED
      BY <3>1, <3>2
  <2>3. ASSUME Calls(c), UNCHANGED <<person, stale>>,
               asks[c].at \in {"matching", "saving"}, asks'[c].u = asks[c].u, asks'[c].m = asks[c].m,
               asks'[c].at = "inserting" => person[asks[c].u] = <<>>
        PROVE  /\ \/ <<asks'[c].u, 1>> \in stale'
                  \/ \A v \in Users \ {asks'[c].u} : \A j \in DOMAIN person'[v] :
                       <<v, j>> \in stale' \/ person'[v][j].member # asks'[c].m
               /\ asks'[c].at = "inserting" => person'[asks'[c].u] = <<>>
    BY <1>0, <2>3 DEF OwnerInv
  <2>4. CASE Calls(c)
    <3>1. TurnFields(c)
      BY <1>0, <2>4, CallTurns, FieldsOfTurn
    <3>2. CASE \E u \in Users, m \in Members :
                 LinkedinCallback(c, u, m) /\ asks'[c].at = "matching" /\ asks'[c].u = u /\ asks'[c].m = m
      <4>1. UNCHANGED <<person, stale>>
        BY <3>2 DEF LinkedinCallback, Begin
      <4> QED
        BY <1>5, <3>2, <4>1
    <3>3. CASE /\ asks'[c].u = asks[c].u /\ asks'[c].m = asks[c].m
               /\ \/ CallbackMatches(c) /\ asks'[c].at = "saving"
                  \/ CallbackSaves(c) /\ person[asks[c].u] = <<>> /\ asks'[c].at = "inserting"
      <4>1. UNCHANGED <<person, stale>> /\ asks[c].at \in {"matching", "saving"}
        BY <3>3 DEF CallbackMatches, CallbackSaves, accountHistory
      <4> QED
        BY <2>3, <2>4, <3>3, <4>1
    <3> QED
      BY <3>1, <3>2, <3>3 DEF TurnFields, Quiet
  <2> QED
    BY <2>1, <2>2, <2>4, Cases
<1>7. OwnerInv'
  BY <1>6 DEF OwnerInv
<1> QED
  BY <1>4, <1>7


-----------------------------------------------------------------------------
(* Pages and their person *)

LEMMA TornKept ==
  ASSUME AccountsTypeInv, [AccountsNext]_accountVars
  PROVE  torn \subseteq torn'
<1>1. ASSUME NEW c \in Requests, Calls(c) PROVE torn \subseteq torn'
  <2>1. torn' = torn \/ \E s : torn' = torn \cup s
    BY <1>1, Zenon DEF Calls, LinkedinCallback, CallbackMatches, CallbackSaves, CallbackInserts,
       CallbackShares, ConnectLinkedinOrganizations, ConnectCopies, ConnectStores, ConnectChecks,
       DisconnectConnectedAccount, Deactivate, RequestEnds, Begin, accountHistory
  <2> QED
    BY <2>1
<1> QED
  BY <1>1, Cases, AsideKeeps DEF accountVars, accountHistory

\* Only a request that takes an active document down leaves a user without one.
LEMMA PersonKept ==
  ASSUME AccountsTypeInv, PersonMoves, NEW u \in Users, HasPerson(u)
  PROVE  \/ \E i \in DOMAIN person'[u] : person'[u][i].active
         \/ \E c \in Requests : \E i \in DOMAIN person[u] :
              Deactivate(c) /\ asks[c].u = u /\ <<u, i>> \in asks[c].ids
<1>0. person[u] \in Seq(PersonDoc)
  BY DEF AccountsTypeInv
<1>1. PICK i \in DOMAIN person[u] : person[u][i].active
  BY DEF HasPerson
<1>2. i \in DOMAIN person'[u]
  BY <1>1 DEF PersonMoves
<1>3. person[u][i] \in PersonDoc
  BY <1>0, <1>1, LenProperties, ElementOfSeq
<1>4. DocEffects(u, i)
  BY <1>1, <1>3, DocFields DEF PersonMoves
<1> QED
  BY <1>1, <1>2, <1>4 DEF DocEffects, Alike

\* A page becomes active when a request stores it, and the person who asked is
\* not touched; a disconnection makes its pages inactive.
LEMMA PageKept ==
  ASSUME AccountsTypeInv, PlaceInv, NEW u \in Users, NEW o \in Orgs, OrgMoves(u, o), org'[u][o].active
  PROVE  /\ \/ org[u][o].active
            \/ \E c \in Requests : ConnectStores(c) /\ asks[c].u = u /\ asks[c].o = o
         /\ \A c \in Requests : Deactivate(c) /\ asks[c].u = u => <<u, o>> \notin asks[c].ids
<1>0. org \in [Users -> [Orgs -> OrgDoc]] /\ org[u][o] \in OrgDoc
  BY DEF AccountsTypeInv
<1>1. OrgEffects(u, o)
  BY <1>0, OrgFields
<1>2. \/ org[u][o].active
      \/ \E c \in Requests : ConnectStores(c) /\ asks[c].u = u /\ asks[c].o = o
  BY <1>1 DEF OrgEffects
<1>3. ASSUME NEW c \in Requests, Deactivate(c), asks[c].u = u, <<u, o>> \in asks[c].ids
      PROVE  ~org'[u][o].active
  <2>1. org' = [org EXCEPT ![u] = [x \in Orgs |-> IF <<u, x>> \in asks[c].ids
                 THEN [org[u][x] EXCEPT !.active = FALSE, !.token = 0] ELSE org[u][x]]]
    BY <1>0, <1>3 DEF Deactivate
  <2>2. org'[u][o] = [org[u][o] EXCEPT !.active = FALSE, !.token = 0]
    BY <1>0, <1>3, <2>1
  <2> QED
    BY <1>0, <2>2 DEF OrgDoc
<1> QED
  BY <1>2, <1>3

\* The ids of a user's accounts are never taken away, and a new id is new.
LEMMA IdsKept ==
  ASSUME AccountsTypeInv, PersonMoves, NEW u \in Users, \A o \in Orgs : OrgMoves(u, o)
  PROVE  /\ PersonIds(u) \subseteq PersonIds(u)' /\ OrgIds(u) \subseteq OrgIds(u)'
         /\ \A x \in PersonIds(u)' : x \in PersonIds(u) \cup OrgIds(u) => x \in PersonIds(u)
<1>0. person[u] \in Seq(PersonDoc)
  BY DEF AccountsTypeInv
<1>1. /\ DOMAIN person[u] \subseteq DOMAIN person'[u] /\ \A i \in DOMAIN person'[u] : i \in Nat
  <2>1. DOMAIN person[u] = 1..Len(person[u]) /\ Len(person[u]) \in Nat
    BY <1>0, LenProperties
  <2> QED
    BY <2>1 DEF PersonMoves
<1>2. \A o \in Orgs : org[u][o].known => org'[u][o].known
  BY KnownKept
<1>3. \A o \in Orgs : o \notin Nat
  BY AccountsAssumption
<1>4. PersonIds(u) \subseteq PersonIds(u)' /\ OrgIds(u) \subseteq OrgIds(u)'
  BY <1>1, <1>2 DEF PersonIds, OrgIds
<1>5. \A x \in PersonIds(u)' : x \notin OrgIds(u)
  BY <1>1, <1>3 DEF PersonIds, OrgIds
<1> QED
  BY <1>4, <1>5

LEMMA PageStep ==
  ASSUME AccountsTypeInv, PlaceInv, KnownInv, PageInv, AccountsTypeInv', PlaceInv', PersonMoves,
         \A u \in Users, o \in Orgs : OrgMoves(u, o), [AccountsNext]_accountVars
  PROVE  PageInv'
<1>0. /\ person \in [Users -> Seq(PersonDoc)] /\ torn \subseteq torn'
      /\ \A c \in Requests : asks[c] \in AskRecords /\ Placed(c)
  BY TornKept DEF AccountsTypeInv, PlaceInv
<1> DEFINE Held(u) == \E i \in DOMAIN person'[u] : person'[u][i].active
<1>1. ASSUME NEW u \in Users, HasPerson(u),
             \A d \in Requests : \A i \in DOMAIN person[u] :
               Deactivate(d) /\ asks[d].u = u => <<u, i>> \notin asks[d].ids
      PROVE  Held(u)
  BY <1>1, PersonKept DEF HasPerson
<1>2. ASSUME NEW u \in Users, UNCHANGED person, HasPerson(u) PROVE Held(u)
  BY <1>2 DEF HasPerson
<1>3. PagesFollowPerson'
  <2> SUFFICES ASSUME NEW u \in Users, u \notin torn', NEW o \in Orgs, org'[u][o].active
               PROVE  Held(u)
    BY DEF PagesFollowPerson, HasPerson
  <2>1. CASE org[u][o].active
    <3>1. HasPerson(u)
      BY <1>0, <2>1 DEF PageInv, PagesFollowPerson, HasPerson
    <3>2. ASSUME NEW d \in Requests, NEW i \in DOMAIN person[u], Deactivate(d), asks[d].u = u,
                 <<u, i>> \in asks[d].ids
          PROVE  FALSE
      <4>1. asks[d].ids \cap PersonIds(u) # {} /\ asks[d].at = "deactivating"
        BY <3>2 DEF PersonIds, Deactivate
      <4>2. <<u, o>> \in asks[d].ids
        BY <1>0, <2>1, <3>2, <4>1 DEF PageInv, TakesDown
      <4> QED
        BY <3>2, <4>2, PageKept
    <3> QED
      BY <1>1, <3>1, <3>2
  <2>2. CASE ~org[u][o].active
    <3>1. PICK c \in Requests : ConnectStores(c) /\ asks[c].u = u
      BY <2>2, PageKept
    <3>2. HasPerson(u) /\ UNCHANGED person
      BY <1>0, <3>1 DEF ConnectStores, PageInv
    <3> QED
      BY <1>2, <3>2
  <2> QED
    BY <2>1, <2>2
<1>4. ASSUME NEW c \in Requests, asks'[c].at \in {"checking", "storing"}, asks'[c].u \notin torn'
      PROVE  Held(asks'[c].u)
  <2>1. CASE asks'[c] = asks[c]
    <3>1. asks[c].u \in Users /\ HasPerson(asks[c].u)
      BY <1>0, <1>4, <2>1 DEF Placed, PageInv
    <3>2. ASSUME NEW d \in Requests, Deactivate(d), asks[d].u = asks[c].u
          PROVE  FALSE
      <4>1. torn' = torn \cup {u \in {asks[d].u} : \E x \in Requests :
                                 asks[x].at \in {"checking", "storing"} /\ asks[x].u = u}
        BY <3>2 DEF Deactivate
      <4> QED
        BY <1>4, <2>1, <3>2, <4>1
    <3>3. Held(asks[c].u)
      BY <1>1, <3>1, <3>2
    <3> QED
      BY <2>1, <3>3 DEF HasPerson
  <2>2. CASE Calls(c) /\ Turns(c)
    <3>1. TurnFields(c)
      BY <1>0, <2>2, FieldsOfTurn
    <3>2. /\ asks'[c].u = asks[c].u
          /\ \/ ConnectCopies(c) /\ Usable(asks[c].u)
             \/ ConnectStores(c)
             \/ \E o \in Orgs : ConnectChecks(c, o)
      BY <1>4, <3>1 DEF TurnFields, Quiet
    <3>3. /\ UNCHANGED person
          /\ \/ asks[c].at = "copying" /\ Usable(asks[c].u)
             \/ asks[c].at \in {"checking", "storing"}
      BY <3>2 DEF ConnectCopies, ConnectStores, ConnectChecks
    <3>4. asks[c].u \in Users
      BY <1>0, <3>3 DEF Placed
    <3>5. HasPerson(asks[c].u)
      <4>1. CASE Usable(asks[c].u)
        <5>1. 1 \in DOMAIN person[asks[c].u]
          BY <1>0, <3>4, <4>1, EmptySeq, LenProperties DEF Usable
        <5> QED
          BY <4>1, <5>1 DEF Usable, HasPerson
      <4>2. CASE asks[c].at \in {"checking", "storing"}
        BY <1>0, <1>4, <3>2, <4>2 DEF PageInv
      <4> QED
        BY <3>3, <4>1, <4>2
    <3> QED
      BY <3>2, <3>3, <3>5 DEF HasPerson
  <2> QED
    BY <2>1, <2>2, RequestCases DEF AccountsTypeInv
<1>5. ASSUME NEW c \in Requests PROVE TakesDown(c)'
  <2> SUFFICES ASSUME asks'[c].at = "deactivating" PROVE TakesDown(c)'
    BY DEF TakesDown
  <2>1. CASE asks'[c] = asks[c]
    <3>0. asks[c].u \in Users /\ asks[c].at = "deactivating" /\ TakesDown(c)
      BY <1>0, <2>1 DEF Placed, PageInv
    <3>1. PICK u \in Users : u = asks[c].u /\ asks[c].at = "deactivating" /\ TakesDown(c)
      BY <3>0
    <3>2. asks[c].ids \subseteq PersonIds(u) \cup OrgIds(u)
      BY <3>1 DEF TakesDown
    <3>3. /\ PersonIds(u) \subseteq PersonIds(u)' /\ OrgIds(u) \subseteq OrgIds(u)'
          /\ \A x \in PersonIds(u)' : x \in PersonIds(u) \cup OrgIds(u) => x \in PersonIds(u)
      BY <3>1, IdsKept
    <3>4. ASSUME u \notin torn', asks[c].ids \cap PersonIds(u)' # {}, NEW o \in Orgs,
                 org'[u][o].active
          PROVE  <<u, o>> \in asks[c].ids
      <4>1. asks[c].ids \cap PersonIds(u) # {}
        BY <3>2, <3>3, <3>4
      <4>2. org[u][o].active => <<u, o>> \in asks[c].ids
        BY <1>0, <3>1, <3>4, <4>1 DEF TakesDown
      <4>3. ASSUME NEW d \in Requests, ConnectStores(d), asks[d].u = u PROVE FALSE
        <5>1. torn' = torn \cup {v \in {asks[d].u} : \E x \in Requests :
                                   asks[x].at = "deactivating" /\ asks[x].u = v}
          BY <4>3 DEF ConnectStores
        <5> QED
          BY <3>1, <3>4, <4>3, <5>1
      <4> QED
        BY <3>1, <3>4, <4>2, <4>3, PageKept
    <3> QED
      BY <2>1, <3>1, <3>2, <3>3, <3>4 DEF TakesDown, PersonIds, OrgIds
  <2>2. CASE Calls(c) /\ Turns(c)
    <3> DEFINE Goes(u, id) == /\ DisconnectConnectedAccount(c, u, id)
                              /\ asks'[c].u = u /\ asks'[c].ids = Cascade(u, id)
    <3>0. PICK u \in Users : \E id \in PersonIds(u) \cup OrgIds(u) : Goes(u, id)
      BY <1>0, <2>2, FieldsOfTurn DEF TurnFields, Quiet
    <3>1. PICK id \in PersonIds(u) \cup OrgIds(u) : Goes(u, id)
      BY <3>0
    <3>2. UNCHANGED <<person, org>>
      BY <3>1 DEF DisconnectConnectedAccount, Begin
    <3>3. Cascade(u, id) \subseteq PersonIds(u) \cup OrgIds(u)
      BY DEF Cascade
    <3>4. \A o \in Orgs : org[u][o].active => <<u, o>> \in OrgIds(u)
      BY KnownIds DEF KnownInv
    <3>5. Cascade(u, id) \cap PersonIds(u) # {} => OrgIds(u) \subseteq Cascade(u, id)
      BY DEF Cascade
    <3>6. PersonIds(u)' = PersonIds(u) /\ OrgIds(u)' = OrgIds(u)
      BY <3>2 DEF PersonIds, OrgIds
    <3> QED
      BY <3>1, <3>2, <3>3, <3>4, <3>5, <3>6 DEF TakesDown, PersonIds, OrgIds
  <2> QED
    BY <2>1, <2>2, RequestCases DEF AccountsTypeInv
<1> QED
  BY <1>3, <1>4, <1>5 DEF PageInv, HasPerson


-----------------------------------------------------------------------------
(* What the metadata say *)

LEMMA MetadataStep ==
  ASSUME AccountsTypeInv, PlaceInv, MetadataIsCurrent, CopyInv, PersonMoves, AccountsTypeInv',
         [AccountsNext]_accountVars
  PROVE  MetadataIsCurrent'
<1> SUFFICES ASSUME NEW u \in Users, NEW i \in DOMAIN person'[u], <<u, i>> \notin stale'
             PROVE  LET e == person'[u][i] IN
                    /\ e.metaMember = e.member /\ e.gone = ~e.active
                    /\ e.active /\ e.mark # 0 => e.mark = e.token
  BY DEF MetadataIsCurrent
<1> DEFINE d == person[u][i]
           e == person'[u][i]
<1>0. person[u] \in Seq(PersonDoc) /\ <<u, i>> \notin stale
  BY StaleKept DEF AccountsTypeInv
<1>1. CASE i \in DOMAIN person[u]
  <2>1. d \in PersonDoc
    BY <1>0, <1>1, LenProperties, ElementOfSeq
  <2>2. DocEffects(u, i)
    BY <1>1, <2>1, DocFields DEF PersonMoves
  <2>3. /\ d.metaMember = d.member /\ d.gone = ~d.active
        /\ d.active /\ d.mark # 0 => d.mark = d.token
        /\ d.active \in BOOLEAN
    BY <1>0, <1>1, <2>1 DEF MetadataIsCurrent, PersonDoc
  <2>4. CASE Alike(d, e) /\ e.metaMember = d.metaMember /\ e.gone = d.gone /\ e.mark = d.mark
    BY <2>3, <2>4 DEF Alike
  <2>5. CASE e.active = TRUE /\ e.metaMember = e.member /\ e.gone = FALSE /\ e.mark = 0
    BY <2>5
  <2>6. CASE e.member = d.member /\ e.active = FALSE /\ e.metaMember = d.metaMember /\ e.gone = TRUE
    BY <2>3, <2>6
  <2>7. CASE /\ RefreshWrites \/ RefreshMarks
             /\ refresher.id = <<u, i>>
             /\ Alike(d, e) /\ e.metaMember = refresher.doc.metaMember /\ e.gone = refresher.doc.gone
             /\ e.mark \in {0, refresher.token}
    <3>1. refresher.at # "rest" /\ refresher.id \notin stale
      BY <1>0, <2>7 DEF RefreshWrites, RefreshMarks
    <3>2. refresher.id[1] = u /\ refresher.id[2] = i
      BY <2>7
    <3>3. /\ refresher.doc.metaMember = d.metaMember /\ refresher.doc.gone = d.gone
          /\ d.active => d.token = refresher.token
      BY <3>1, <3>2 DEF CopyInv
    <3> QED
      BY <2>3, <2>7, <3>3 DEF Alike
  <2> QED
    BY <2>2, <2>4, <2>5, <2>6, <2>7 DEF DocEffects
<1>2. CASE i \notin DOMAIN person[u]
  <2>1. PICK c \in Requests : e = SavedPerson([mark |-> 0], asks[c].m, asks[c].t)
    BY <1>2 DEF PersonMoves
  <2>2. /\ e.metaMember = e.member /\ e.gone = FALSE /\ e.active = TRUE
        /\ e.mark = 0
    BY <2>1 DEF SavedPerson
  <2> QED
    BY <2>2
<1> QED
  BY <1>1, <1>2

LEMMA CopyStep ==
  ASSUME AccountsTypeInv, PlaceInv, JobInv, CopyInv, PersonMoves, AccountsTypeInv', [AccountsNext]_accountVars
  PROVE  CopyInv'
<1> SUFFICES ASSUME refresher'.at # "rest", refresher'.id \notin stale'
             PROVE  LET e == person'[refresher'.id[1]][refresher'.id[2]] IN
                    /\ refresher'.doc.metaMember = e.metaMember
                    /\ refresher'.doc.gone = e.gone
                    /\ e.active => e.token = refresher'.token
  BY DEF CopyInv
<1>0. person \in [Users -> Seq(PersonDoc)] /\ stale \subseteq stale'
  BY StaleKept DEF AccountsTypeInv
<1>1. refresher' # Still
  BY DEF Still
<1>2. CASE refresher' = refresher
  <2>1. refresher \in RefreshRecords
    BY <1>1, <1>2 DEF AccountsTypeInv
  <2>2. refresher.id \in AvatarIds /\ avatarJob[refresher.id].st = "active"
    BY <1>2, <2>1 DEF RefreshRecords, JobInv
  <2>3. refresher.id[1] \in Users /\ refresher.id = <<refresher.id[1], refresher.id[2]>>
        /\ refresher.id[2] \in DOMAIN person[refresher.id[1]]
    BY <2>2 DEF AvatarIds, JobInv
  <2>4. PICK u \in Users, i \in {refresher.id[2]} :
          /\ refresher.id = <<u, i>> /\ refresher.id[1] = u /\ refresher.id[2] = i
          /\ i \in DOMAIN person[u]
    BY <2>3
  <2> DEFINE d == person[u][i]
             e == person'[u][i]
  <2>5. d \in PersonDoc
    BY <1>0, <2>4, LenProperties, ElementOfSeq
  <2>6. DocEffects(u, i)
    BY <2>4, <2>5, DocFields DEF PersonMoves
  <2>7. /\ refresher.doc.metaMember = d.metaMember /\ refresher.doc.gone = d.gone
        /\ d.active => d.token = refresher.token
    BY <1>0, <1>2, <2>4 DEF CopyInv
  <2>8. CASE Alike(d, e) /\ e.metaMember = d.metaMember /\ e.gone = d.gone
    BY <1>2, <2>4, <2>7, <2>8 DEF Alike
  <2>9. ASSUME stale' = Rewritten({<<u, 1>>}), i = 1 PROVE FALSE
    BY <1>2, <2>4, <2>9 DEF Rewritten
  <2>10. ASSUME NEW c \in Requests, Deactivate(c), asks[c].u = u, <<u, i>> \in asks[c].ids PROVE FALSE
    <3>1. stale' = Rewritten(asks[c].ids)
      BY <2>10 DEF Deactivate
    <3> QED
      BY <1>2, <2>4, <2>10, <3>1 DEF Rewritten
  <2>11. ASSUME RefreshWrites \/ RefreshMarks PROVE FALSE
    BY <1>1, <2>11 DEF RefreshWrites, RefreshMarks, JobEnds
  <2> QED
    BY <2>6, <2>8, <2>9, <2>10, <2>11 DEF DocEffects
<1>3. ASSUME NEW id \in AvatarIds, RefreshStarts(id)
      PROVE  LET e == person'[refresher'.id[1]][refresher'.id[2]] IN
             /\ refresher'.doc.metaMember = e.metaMember
             /\ refresher'.doc.gone = e.gone
             /\ e.active => e.token = refresher'.token
  <2>1. /\ person' = person
        /\ refresher' = [at |-> "asking", id |-> id, doc |-> person[id[1]][id[2]],
                         token |-> person[id[1]][id[2]].token]
    BY <1>1, <1>3 DEF RefreshStarts, JobEnds
  <2> QED
    BY <2>1
<1>4. ASSUME RefreshRefused
      PROVE  LET e == person'[refresher'.id[1]][refresher'.id[2]] IN
             /\ refresher'.doc.metaMember = e.metaMember
             /\ refresher'.doc.gone = e.gone
             /\ e.active => e.token = refresher'.token
  <2>1. /\ person' = person /\ stale' = stale /\ refresher.at = "asking"
        /\ refresher' = [refresher EXCEPT !.at = "marking",
                                          !.doc = person[refresher.id[1]][refresher.id[2]]]
    BY <1>4 DEF RefreshRefused, RequestsAside
  <2>2. refresher \in RefreshRecords
    BY <2>1 DEF AccountsTypeInv, Still
  <2>3. /\ refresher'.id = refresher.id /\ refresher'.token = refresher.token
        /\ refresher'.doc = person[refresher.id[1]][refresher.id[2]]
    BY <2>1, <2>2 DEF RefreshRecords
  <2>4. LET d == person[refresher.id[1]][refresher.id[2]] IN d.active => d.token = refresher.token
    BY <2>1, <2>3 DEF CopyInv
  <2> QED
    BY <2>1, <2>3, <2>4
<1>5. CASE Aside
  <2>1. \/ refresher' = refresher \/ RefreshRefused
        \/ \E id \in AvatarIds : RefreshStarts(id)
    <3>1. \/ refresher' = refresher \/ RefreshRefused \/ refresher' = Still
          \/ \E id \in AvatarIds : RefreshStarts(id)
      BY <1>5, Zenon DEF Aside, TokenRefused, GetConnectedAccounts, AvatarAges, RefreshWrites,
         RefreshMarks, RefreshFails, RefreshDies, JobEnds
    <3> QED
      BY <1>1, <3>1
  <2> QED
    BY <1>2, <1>3, <1>4, <2>1
<1>6. CASE (\E c \in Requests : Calls(c)) \/ UNCHANGED accountVars
  BY <1>2, <1>6, CallsKeep DEF accountVars
<1> QED
  BY <1>5, <1>6, Cases

-----------------------------------------------------------------------------
(* The invariant *)

LEMMA InitInv ==
  ASSUME AccountsInit
  PROVE  IInv
<1>0. /\ Cap \in Nat \ {0} /\ RefreshAttempts \in Nat \ {0} /\ IsFiniteSet(Requests)
      /\ Cardinality(Requests) \in Nat
  BY AccountsAssumption, FS_CardinalityType
<1>1. /\ \A u \in Users : person[u] = <<>> /\ DOMAIN person[u] = {} /\ Len(person[u]) = 0
      /\ \A c \in Requests : asks[c] = Quiet
      /\ \A u \in Users, o \in Orgs : org[u][o] = NoOrg
      /\ \A id \in AvatarIds : avatarJob[id] = NoRefresh
      /\ refresher = Still /\ ~overlapped /\ accountCalls = 0 /\ refused = {}
  BY DEF AccountsInit
<1>2. NoOrg \in OrgDoc /\ Quiet \in AskRecords /\ NoRefresh \in JobRecords
  BY <1>0 DEF NoOrg, OrgDoc, Quiet, AskRecords, AskPhases, NoRefresh, JobRecords
<1>3. AccountsTypeInv
  <2>1. person \in [Users -> Seq(PersonDoc)]
    BY DEF AccountsInit
  <2> QED
    BY <1>2, <2>1 DEF AccountsInit, AccountsTypeInv
<1>4. PlaceInv
  <2>1. /\ Quiet.at = "idle" /\ Quiet.at \notin CallbackPhases /\ Quiet.at \notin PagePhases
        /\ Quiet.at \notin {"sharing", "checking", "storing"}
    BY DEF Quiet, CallbackPhases, PagePhases
  <2> QED
    BY <1>1, <2>1 DEF PlaceInv, Placed
<1>5. TokenInv
  BY <1>1 DEF TokenInv, Quiet
<1>6. KnownInv
  BY <1>1 DEF KnownInv, NoOrg
<1>7. JobInv
  BY <1>1 DEF JobInv, NoRefresh, Still
<1>8. LengthInv
  <2>1. \A u \in Users : Inserting(u) = {}
    BY <1>1 DEF Inserting, Quiet
  <2> QED
    BY <1>0, <1>1, <2>1, FS_EmptySet DEF LengthInv
<1>9. CapInv
  <2>1. \A u \in Users : Joining(u) = {}
    BY <1>1 DEF Joining, Quiet
  <2>2. \A u \in Users : Counted(u) = {}
    BY <1>1 DEF Counted, ActiveAccounts, PersonIds, OrgIds, NoOrg
  <2>3. Extra = 0 /\ Cardinality({}) = 0
    BY <1>1, FS_EmptySet DEF Extra
  <2> QED
    BY <1>0, <2>1, <2>2, <2>3 DEF CapInv
<1>10. AloneInv
  BY <1>1 DEF AloneInv, Quiet
<1>11. OneOwner
  BY <1>1 DEF OneOwner
<1>12. OwnerInv
  BY <1>1 DEF OwnerInv, Quiet
<1>13. PageInv
  BY <1>1 DEF PageInv, PagesFollowPerson, TakesDown, Quiet, NoOrg
<1>14. MetadataIsCurrent
  BY <1>1 DEF MetadataIsCurrent
<1>15. CopyInv
  BY <1>1 DEF CopyInv, Still
<1> QED
  BY <1>3, <1>4, <1>5, <1>6, <1>7, <1>8, <1>9, <1>10, <1>11, <1>12, <1>13, <1>14, <1>15 DEF IInv

LEMMA Inductive ==
  ASSUME IInv, [AccountsNext]_accountVars
  PROVE  IInv'
<1>0. /\ AccountsTypeInv /\ PlaceInv /\ TokenInv /\ KnownInv /\ JobInv /\ LengthInv /\ CapInv
      /\ AloneInv /\ OneOwner /\ OwnerInv /\ PageInv /\ MetadataIsCurrent /\ CopyInv
  BY DEF IInv
<1>1. PersonMoves /\ person' \in [Users -> Seq(PersonDoc)]
  BY <1>0, PersonStep
<1>2. \A u \in Users, o \in Orgs : OrgMoves(u, o)
  BY <1>0, OrgStep
<1>3. AccountsTypeInv' /\ JobInv'
  BY <1>0, AccountsTypeStep
<1>4. PlaceInv'
  BY <1>0, <1>1, PlaceStep
<1>5. TokenInv'
  BY <1>0, <1>1, TokenStep
<1>6. KnownInv'
  BY <1>0, <1>1, <1>2, KnownStep
<1>7. LengthInv'
  <2>1. asks' \in [Requests -> AskRecords]
    BY <1>3 DEF AccountsTypeInv
  <2> QED
    BY <1>0, <1>1, <2>1, LengthStep
<1>8. CapInv'
  BY <1>0, <1>1, <1>2, <1>3, CapStep
<1>9. AloneInv'
  BY <1>0, AloneStep
<1>10. OneOwner' /\ OwnerInv'
  BY <1>0, <1>1, <1>3, OwnerStep
<1>11. PageInv'
  BY <1>0, <1>1, <1>2, <1>3, <1>4, PageStep
<1>12. MetadataIsCurrent'
  BY <1>0, <1>1, <1>3, MetadataStep
<1>13. CopyInv'
  BY <1>0, <1>1, <1>3, CopyStep
<1> QED
  BY <1>3, <1>4, <1>5, <1>6, <1>7, <1>8, <1>9, <1>10, <1>11, <1>12, <1>13 DEF IInv

\* Every reachable state satisfies the inductive invariant: callbacks,
\* disconnections, deletions and refreshes keep it however they interleave.
THEOREM Invariance == AccountsSpec => []IInv
<1>1. AccountsInit => IInv
  BY InitInv
<1>2. IInv /\ [AccountsNext]_accountVars => IInv'
  BY Inductive
<1> QED
  BY <1>1, <1>2, PTL DEF AccountsSpec

-----------------------------------------------------------------------------
(* What follows from it *)

LEMMA AccountsTypes == IInv => AccountsTypeOK
<1> SUFFICES ASSUME IInv PROVE AccountsTypeOK
  OBVIOUS
<1>0. AccountsTypeInv /\ PlaceInv /\ TokenInv /\ JobInv /\ LengthInv
  BY DEF IInv
<1>1. ASSUME NEW u \in Users
      PROVE  person[u] \in Seq(PersonDoc) /\ Len(person[u]) <= Cardinality(Requests)
  <2>1. Inserting(u) \subseteq Requests /\ IsFiniteSet(Requests)
    BY AccountsAssumption DEF Inserting
  <2>2. Cardinality(Inserting(u)) \in Nat /\ Cardinality(Requests) \in Nat
    BY <2>1, FS_Subset, FS_CardinalityType
  <2>3. person[u] \in Seq(PersonDoc) /\ Len(person[u]) \in Nat
    BY <1>0, LenProperties DEF AccountsTypeInv
  <2> QED
    BY <1>0, <2>2, <2>3 DEF LengthInv
<1>2. \A c \in Requests :
        /\ asks[c].at \in {"idle", "matching", "saving", "inserting", "sharing", "copying",
                           "checking", "storing", "deactivating"}
        /\ asks[c].t \in 0..accountCalls
  BY <1>0 DEF AccountsTypeInv, AskRecords, AskPhases, CallbackPhases, PagePhases, TokenInv
<1>3. refresher.at \in {"rest", "asking", "marking"}
  BY <1>0 DEF AccountsTypeInv, RefreshRecords, Still
<1>4. avatarJob \in [AvatarIds -> [st : {"none", "waiting", "active", "failed"},
                                   tries : 0..RefreshAttempts]]
  BY <1>0 DEF AccountsTypeInv, JobRecords
<1> QED
  BY <1>0, <1>1, <1>2, <1>3, <1>4 DEF AccountsTypeOK, AccountsTypeInv, TokenInv, JobInv

\* The documents, the requests, the jobs and the refresh worker of
\* auth.service.ts and linkedin-avatar-refresh.queue.ts stay what the code makes
\* them: no user gets more documents than there are requests, tokens are those
\* of callbacks that were made, and the job in work is the one of its worker.
THEOREM AccountsTyped == AccountsSpec => []AccountsTypeOK
BY AccountsTypes, Invariance, PTL

\* linkedinCallback: as long as requests do not overlap a LinkedIn member is
\* connected to one user and a user to one member, whatever is disconnected,
\* reconnected or refreshed in between, but for documents whose metadata a
\* refresh wrote back over a newer connection.
THEOREM OwnedOnce == AccountsSpec => []OneOwner
<1>1. IInv => OneOwner
  BY DEF IInv
<1> QED
  BY <1>1, Invariance, PTL

LEMMA CapHolds == IInv => CapOvershootBounded
<1> SUFFICES ASSUME IInv, NEW u \in Users
             PROVE  Cardinality(ActiveAccounts(u) \ reactivated) <=
                      Cap + IF overlapped THEN Cardinality(Requests) - 1 ELSE 0
  BY DEF CapOvershootBounded
<1>1. Cardinality(Counted(u)) + Cardinality(Joining(u)) <= Cap + Extra
  BY DEF IInv, CapInv
<1>2. IsFiniteSet(Counted(u)) /\ Cardinality(Counted(u)) \in Nat
  <2>1. person[u] \in Seq(PersonDoc)
    BY DEF IInv, AccountsTypeInv
  <2>2. IsFiniteSet(ActiveAccounts(u))
    BY <2>1, ActiveForm, ActiveWhich
  <2>3. Counted(u) \subseteq ActiveAccounts(u)
    BY DEF Counted
  <2> QED
    BY <2>2, <2>3, FS_Subset, FS_CardinalityType
<1>3. Cap + Extra \in Int
  BY AccountsAssumption, JoiningFinite DEF Extra
<1>4. Cardinality(Counted(u)) <= Cap + Extra
  BY <1>1, <1>2, <1>3, JoiningFinite
<1> QED
  BY <1>4 DEF Counted, Extra

\* connectLinkedinOrganizations checks connected_accounts and stores the page
\* later: n requests under way overshoot the cap by n - 1 accounts at most, one
\* at a time by none; accounts made active again are not counted by the check.
THEOREM CapOvershoot == AccountsSpec => []CapOvershootBounded
BY CapHolds, Invariance, PTL

\* disconnectConnectedAccount takes the company pages down with the person: no
\* page stays active without an active person, unless the page was being stored
\* while the person was being disconnected.
THEOREM PagesWithPerson == AccountsSpec => []PagesFollowPerson
<1>1. IInv => PagesFollowPerson
  BY DEF IInv, PageInv
<1> QED
  BY <1>1, Invariance, PTL

\* profileMetadata says of an account what the document says, and a recorded
\* refresh failure is about the token in use: only a refresh that read the
\* document before it was rewritten undoes that.
THEOREM MetadataCurrent == AccountsSpec => []MetadataIsCurrent
<1>1. IInv => MetadataIsCurrent
  BY DEF IInv
<1> QED
  BY <1>1, Invariance, PTL
=============================================================================
