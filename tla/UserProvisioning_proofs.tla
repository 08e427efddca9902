----------------------- MODULE UserProvisioning_proofs -----------------------
(***************************************************************************)
(* What UserProvisioning promises holds for any sets of identities, e-mails  *)
(* and requests, any number of sign-ins, moved e-mails and dead migrations:  *)
(* no identity is linked to two users, and every sign-in ends as it should.  *)
(***************************************************************************)
EXTENDS UserProvisioning, TLAPS

ClerkPhases  == {"fetching", "linking", "looking", "creating", "racing"}
GooglePhases == {"googleEmail", "googleLinking", "googleCreating"}
\* Phases in which visit[c].e is the e-mail Clerk gave.
KnowsEmail   == ClerkPhases \ {"fetching"}

\* A document that is not there names nobody.
UnknownInv == \A e \in Addresses : ~users[e].known => users[e] = Unknown

\* What the request is doing tells whose identity it has, and what it has seen
\* of the owner of the e-mail is still so.
PhaseInv ==
  \A c \in SignIns :
    /\ visit[c].at \in ClerkPhases => visit[c].i \in ClerkIds
    /\ visit[c].at \in GooglePhases => visit[c].i \in GoogleIds
    /\ visit[c].at = "conflict" => visit[c].i \in ClerkIds

SeenInv ==
  \A c \in SignIns :
    LET v == visit[c] IN
    /\ v.at = "linking" => /\ users[v.e].known
                           /\ v.seen # NoOne => users[v.e].clerk = v.seen
    /\ v.at = "looking" => users[v.e].clerk \notin {NoOne, v.i}
    /\ v.at = "googleLinking" => users[v.e].known
    /\ v.at = "racing" => users[v.e].known \/ legacy

\* A legacy index is only dropped once the new ones are there.
IndexInv ==
  /\ DesiredIndexes \subseteq indexes \/ LegacyIndexes \subseteq indexes
  /\ migration.drop # {} => DesiredIndexes \subseteq indexes \cup migration.create
  /\ ~legacy => indexes = DesiredIndexes /\ migration = AtRest

\* An identity whose e-mail never changed is linked under it, and asks for it.
MailInv ==
  /\ \A i \in ClerkIds, e \in Addresses :
       users[e].clerk = i => i \in moved \/ emailOf[i] = e
  /\ \A c \in SignIns :
       visit[c].at \in KnowsEmail => visit[c].i \in moved \/ emailOf[visit[c].i] = visit[c].e

UsersInv == /\ UsersTypeOK /\ UnknownInv /\ PhaseInv /\ SeenInv /\ IndexInv /\ MailInv
            /\ IdentitiesUnique /\ SignInsResolve

-----------------------------------------------------------------------------
(* Types *)

\* The assumption on the constants, as the proofs use it.
LEMMA NoOneIsNobody == NoOne \notin Identities /\ ClerkIds \cap GoogleIds = {}
BY IdentitiesAssumption DEF Identities

\* What a request does to itself is typed, and keeps its phase to its identity.
Asked == [at : Ended \cup Working, i : Identities \cup {NoOne},
          e : Addresses, seen : ClerkIds \cup {NoOne}]

-----------------------------------------------------------------------------
(* What each step of a request does to the request and to the users *)

\* Request c alone moves.
Moves(c) == /\ visit' \in [SignIns -> Asked]
            /\ \A d \in SignIns : d # c => visit'[d] = visit[d]

\* Only the user of e-mail e changes, and stays typed.
Alters(e) == /\ users' \in [Addresses -> UserDoc]
              /\ \A f \in Addresses : f # e => users'[f] = users[f]

\* A request that becomes a typed record is all that moves.
LEMMA Becomes ==
  ASSUME visit \in [SignIns -> Asked], NEW c \in SignIns, NEW w \in Asked,
         visit' = [visit EXCEPT ![c] = w]
  PROVE  Moves(c) /\ visit'[c] = w
BY DEF Moves

\* Goes changes where the request is and nothing else.
LEMMA GoesDoes ==
  ASSUME visit \in [SignIns -> Asked], NEW c \in SignIns, NEW at \in Ended \cup Working,
         Goes(c, at)
  PROVE  /\ Moves(c)
         /\ visit'[c].at = at /\ visit'[c].i = visit[c].i
         /\ visit'[c].e = visit[c].e /\ visit'[c].seen = visit[c].seen
<1>1. visit[c] \in Asked
  OBVIOUS
<1>2. [visit[c] EXCEPT !.at = at]
        = [at |-> at, i |-> visit[c].i, e |-> visit[c].e, seen |-> visit[c].seen]
  BY <1>1 DEF Asked
<1> QED
  BY <1>1, <1>2 DEF Goes, Asked, Moves

\* GoesFor changes where the request is and its e-mail.
LEMMA GoesForDoes ==
  ASSUME visit \in [SignIns -> Asked], NEW c \in SignIns, NEW at \in Ended \cup Working,
         NEW e \in Addresses, GoesFor(c, at, e)
  PROVE  /\ Moves(c)
         /\ visit'[c].at = at /\ visit'[c].i = visit[c].i
         /\ visit'[c].e = e /\ visit'[c].seen = visit[c].seen
<1> DEFINE w == [visit[c] EXCEPT !.at = at, !.e = e]
<1>1. visit[c] \in Asked
  OBVIOUS
<1>2. w \in Asked /\ w.at = at /\ w.e = e /\ w.i = visit[c].i /\ w.seen = visit[c].seen
  BY <1>1 DEF Asked
<1>3. visit' = [visit EXCEPT ![c] = w]
  BY DEF GoesFor
<1> HIDE DEF w
<1> QED
  BY <1>2, <1>3, Becomes

\* A new request, of identity i.
LEMMA BeginsDoes ==
  ASSUME visit \in [SignIns -> Asked], NEW c \in SignIns, NEW i \in Identities,
         NEW at \in Ended \cup Working, NEW e \in Addresses,
         visit' = [visit EXCEPT ![c] = [at |-> at, i |-> i, e |-> e, seen |-> NoOne]]
  PROVE  Moves(c) /\ visit'[c].at = at /\ visit'[c].i = i /\ visit'[c].e = e
<1>1. [at |-> at, i |-> i, e |-> e, seen |-> NoOne] \in Asked
  BY DEF Asked
<1> QED
  BY <1>1, Becomes

\* findOrCreate fetches the identity or serves its user at once.
LEMMA FindOrCreateDoes ==
  ASSUME UsersTypeOK, NEW c \in SignIns, NEW i \in ClerkIds, FindOrCreate(c, i)
  PROVE  /\ Moves(c) /\ visit'[c].i = i
         /\ \/ visit'[c].at = "fetching"
            \/ visit'[c].at = "served" /\ visit'[c].e \in ByClerkId(i)
<1>1. visit \in [SignIns -> Asked] /\ i \in Identities /\ NoEmail \in Addresses
  BY DEF UsersTypeOK, Asked, Identities, Addresses
<1>2. CASE ByClerkId(i) = {}
  <2>1. visit' = [visit EXCEPT ![c] = [at |-> "fetching", i |-> i, e |-> NoEmail, seen |-> NoOne]]
    BY <1>2 DEF FindOrCreate, Nothing
  <2> QED
    BY <1>1, <2>1, BeginsDoes DEF Working
<1>3. CASE ByClerkId(i) # {}
  <2>1. PICK e \in ByClerkId(i) :
          visit' = [visit EXCEPT ![c] = [at |-> "served", i |-> i, e |-> e, seen |-> NoOne]]
    BY <1>3 DEF FindOrCreate, Nothing
  <2>2. e \in Addresses
    BY DEF ByClerkId
  <2> QED
    BY <1>1, <2>1, <2>2, BeginsDoes DEF Ended
<1> QED
  BY <1>2, <1>3

\* After the fetch the request knows its e-mail and the owner it read.
LEMMA FetchClerkUserDoes ==
  ASSUME UsersTypeOK, PhaseInv, NEW c \in SignIns, FetchClerkUser(c)
  PROVE  /\ Moves(c) /\ visit'[c].i = visit[c].i /\ visit[c].i \in ClerkIds
         /\ visit'[c].e = emailOf[visit[c].i]
         /\ visit'[c].seen = users[visit'[c].e].clerk
         /\ \/ visit'[c].at = "linking" /\ users[visit'[c].e].known
            \/ visit'[c].at = "creating"
<1> DEFINE e == emailOf[visit[c].i]
           at == IF e # NoEmail /\ users[e].known THEN "linking" ELSE "creating"
           w == [visit[c] EXCEPT !.e = e, !.seen = users[e].clerk, !.at = at]
<1>1. visit \in [SignIns -> Asked] /\ visit[c] \in Asked
  BY DEF UsersTypeOK, Asked
<1>2. visit[c].i \in ClerkIds
  BY DEF FetchClerkUser, PhaseInv, ClerkPhases
<1>3. e \in Addresses /\ users[e].clerk \in ClerkIds \cup {NoOne}
  BY <1>2 DEF UsersTypeOK, Identities, UserDoc
<1>4. visit' = [visit EXCEPT ![c] = w]
  BY DEF FetchClerkUser
<1>5. at \in Ended \cup Working /\ at \in {"linking", "creating"}
      /\ (at = "linking" => users[e].known)
  BY DEF Working
<1> HIDE DEF e, at
<1>6. /\ w \in Asked /\ w.at = at /\ w.e = e /\ w.i = visit[c].i
      /\ w.seen = users[e].clerk
  BY <1>1, <1>3, <1>5 DEF Asked
<1> HIDE DEF w
<1>7. Moves(c) /\ visit'[c] = w
  BY <1>1, <1>4, <1>6, Becomes
<1> QED
  BY <1>2, <1>5, <1>6, <1>7 DEF e

\* The e-mail of a request names a typed user document.
LEMMA Addressed ==
  ASSUME UsersTypeOK, NEW c \in SignIns
  PROVE  /\ visit \in [SignIns -> Asked] /\ visit[c] \in Asked /\ visit[c].e \in Addresses
         /\ users \in [Addresses -> UserDoc] /\ users[visit[c].e] \in UserDoc
<1>1. visit \in [SignIns -> Asked] /\ users \in [Addresses -> UserDoc]
  BY DEF UsersTypeOK, Asked, UsersTypeOK
<1>2. visit[c].e \in Addresses
  BY <1>1 DEF Asked
<1> QED
  BY <1>1, <1>2

\* The request keeps its identity, its e-mail and what it has seen.
Keeps(c) == /\ Moves(c) /\ visit'[c].i = visit[c].i
            /\ visit'[c].e = visit[c].e /\ visit'[c].seen = visit[c].seen

\* The four ends of linkEmailOwner; only the last writes, under the indexes.
LEMMA LinkEmailOwnerDoes ==
  ASSUME UsersTypeOK, PhaseInv, NEW c \in SignIns, LinkEmailOwner(c)
  PROVE  LET e == visit[c].e
             i == visit[c].i IN
         /\ visit[c].at = "linking" /\ i \in ClerkIds /\ Keeps(c)
         /\ \/ /\ users' = users /\ visit'[c].at = "conflict"
               /\ visit[c].seen \notin {NoOne, i}
            \/ /\ users' = users /\ visit'[c].at = "looking"
               /\ users[e].clerk \notin {NoOne, i}
            \/ /\ users' = users /\ visit'[c].at = "error"
               /\ ~Permitted(e, i, users[e].google)
            \/ /\ Alters(e) /\ visit'[c].at = "served"
               /\ users[e].clerk \in {NoOne, i} /\ users'[e].clerk = i
               /\ users'[e].known = users[e].known /\ users'[e].google = users[e].google
               /\ Permitted(e, i, users[e].google)
<1> DEFINE e == visit[c].e
           i == visit[c].i
<1>0. /\ visit \in [SignIns -> Asked] /\ visit[c] \in Asked /\ e \in Addresses
      /\ users \in [Addresses -> UserDoc]
  BY Addressed
<1>1. visit[c].at = "linking" /\ i \in ClerkIds
  BY DEF LinkEmailOwner, PhaseInv, ClerkPhases
<1>2. CASE visit[c].seen \notin {NoOne, i}
  <2>1. Goes(c, "conflict") /\ users' = users
    BY <1>2 DEF LinkEmailOwner
  <2> QED
    BY <1>0, <1>1, <1>2, <2>1, GoesDoes DEF Keeps, Ended
<1>3. CASE visit[c].seen \in {NoOne, i} /\ ~LinkMatches(e, i)
  <2>1. Goes(c, "looking") /\ users' = users
    BY <1>3 DEF LinkEmailOwner
  <2> QED
    BY <1>0, <1>1, <1>3, <2>1, GoesDoes DEF Keeps, Working, LinkMatches
<1>4. CASE /\ visit[c].seen \in {NoOne, i} /\ LinkMatches(e, i)
           /\ ~Permitted(e, i, users[e].google)
  <2>1. Goes(c, "error") /\ users' = users
    BY <1>4 DEF LinkEmailOwner
  <2> QED
    BY <1>0, <1>1, <1>4, <2>1, GoesDoes DEF Keeps, Ended
<1>5. CASE /\ visit[c].seen \in {NoOne, i} /\ LinkMatches(e, i)
           /\ Permitted(e, i, users[e].google)
  <2>1. users' = [users EXCEPT ![e].clerk = i] /\ GoesFor(c, "served", e)
    BY <1>5 DEF LinkEmailOwner, ServedWith
  <2>2. Keeps(c) /\ visit'[c].at = "served"
    BY <1>0, <2>1, GoesForDoes DEF Keeps, Ended
  <2>3. /\ Alters(e) /\ users'[e].clerk = i /\ users'[e].known = users[e].known
        /\ users'[e].google = users[e].google
    <3> DEFINE w == [users[e] EXCEPT !.clerk = i]
    <3>1. w \in UserDoc /\ w.clerk = i /\ w.known = users[e].known /\ w.google = users[e].google
      BY <1>0, <1>1 DEF UserDoc
    <3>2. users' = [users EXCEPT ![e] = w]
      BY <2>1
    <3> HIDE DEF w
    <3> QED
      BY <1>0, <3>1, <3>2 DEF Alters
  <2> QED
    BY <1>1, <1>5, <2>2, <2>3 DEF LinkMatches
<1> QED
  BY <1>2, <1>3, <1>4, <1>5

\* After a lost link the request is served as the winner or told of a conflict.
LEMMA FindLinkWinnerDoes ==
  ASSUME UsersTypeOK, PhaseInv, NEW c \in SignIns, FindLinkWinner(c)
  PROVE  /\ visit[c].at = "looking" /\ visit[c].i \in ClerkIds
         /\ Moves(c) /\ visit'[c].i = visit[c].i
         /\ \/ visit'[c].at = "conflict" /\ visit'[c].e = visit[c].e
            \/ visit'[c].at = "served" /\ visit'[c].e \in ByClerkId(visit[c].i)
<1>1. visit \in [SignIns -> Asked]
  BY DEF UsersTypeOK, Asked
<1>2. visit[c].at = "looking" /\ visit[c].i \in ClerkIds
  BY DEF FindLinkWinner, PhaseInv, ClerkPhases
<1>3. CASE ByClerkId(visit[c].i) = {}
  <2>1. Goes(c, "conflict")
    BY <1>3 DEF FindLinkWinner
  <2> QED
    BY <1>1, <1>2, <2>1, GoesDoes DEF Ended
<1>4. CASE ByClerkId(visit[c].i) # {}
  <2>1. PICK e \in ByClerkId(visit[c].i) : GoesFor(c, "served", e)
    BY <1>4 DEF FindLinkWinner, ServedWith
  <2>2. e \in Addresses
    BY DEF ByClerkId
  <2> QED
    BY <1>1, <1>2, <2>1, <2>2, GoesForDoes DEF Ended
<1> QED
  BY <1>3, <1>4

\* The upsert finds the user, adds one under the indexes, or has lost a race.
LEMMA CreateUserDoes ==
  ASSUME UsersTypeOK, PhaseInv, NEW c \in SignIns, CreateUser(c)
  PROVE  LET e == visit[c].e
             i == visit[c].i IN
         /\ visit[c].at = "creating" /\ i \in ClerkIds
         /\ Moves(c) /\ visit'[c].i = i
         /\ \/ users' = users /\ visit'[c].at = "served" /\ visit'[c].e \in ByClerkId(i)
            \/ /\ ~users[e].known /\ Permitted(e, i, NoOne) /\ Alters(e)
               /\ users'[e] = [known |-> TRUE, clerk |-> i, google |-> NoOne]
               /\ visit'[c].at = "served" /\ visit'[c].e = e
            \/ /\ users' = users /\ ByClerkId(i) = {} /\ visit'[c].at = "racing"
               /\ visit'[c].e = e /\ (users[e].known \/ ~Permitted(e, i, NoOne))
<1> DEFINE e == visit[c].e
           i == visit[c].i
           w == [known |-> TRUE, clerk |-> i, google |-> NoOne]
<1>0. /\ visit \in [SignIns -> Asked] /\ e \in Addresses /\ users \in [Addresses -> UserDoc]
  BY Addressed
<1>1. visit[c].at = "creating" /\ i \in ClerkIds
  BY DEF CreateUser, PhaseInv, ClerkPhases
<1>2. CASE ByClerkId(i) # {}
  <2>1. users' = users /\ \E f \in ByClerkId(i) : GoesFor(c, "served", f)
    BY <1>2 DEF CreateUser, ServedWith
  <2>2. PICK f \in ByClerkId(i) : GoesFor(c, "served", f)
    BY <2>1
  <2>3. f \in Addresses
    BY DEF ByClerkId
  <2> QED
    BY <1>0, <1>1, <2>1, <2>2, <2>3, GoesForDoes DEF Ended
<1>3. CASE ByClerkId(i) = {} /\ ~users[e].known /\ Permitted(e, i, NoOne)
  <2>1. users' = [users EXCEPT ![e] = w] /\ GoesFor(c, "served", e)
    BY <1>3 DEF CreateUser, ServedWith
  <2>2. w \in UserDoc
    BY <1>1 DEF UserDoc
  <2>3. Alters(e) /\ users'[e] = w
    BY <1>0, <2>1, <2>2 DEF Alters
  <2> QED
    BY <1>0, <1>1, <1>3, <2>1, <2>3, GoesForDoes DEF Ended
<1>4. CASE ByClerkId(i) = {} /\ ~(~users[e].known /\ Permitted(e, i, NoOne))
  <2>1. users' = users /\ Goes(c, "racing")
    BY <1>4 DEF CreateUser
  <2> QED
    BY <1>0, <1>1, <1>4, <2>1, GoesDoes DEF Working
<1> QED
  BY <1>2, <1>3, <1>4

\* A lost race ends served, goes on linking, or fails for want of a user.
LEMMA ResolveDuplicateRaceDoes ==
  ASSUME UsersTypeOK, PhaseInv, NEW c \in SignIns, ResolveDuplicateRace(c)
  PROVE  LET e == visit[c].e
             i == visit[c].i IN
         /\ visit[c].at = "racing" /\ i \in ClerkIds
         /\ Moves(c) /\ visit'[c].i = i
         /\ \/ visit'[c].at = "served" /\ visit'[c].e \in ByClerkId(i)
            \/ /\ visit'[c].at = "linking" /\ visit'[c].e = e /\ users[e].known
               /\ visit'[c].seen = users[e].clerk
            \/ visit'[c].at = "error" /\ visit'[c].e = e /\ (e = NoEmail \/ ~users[e].known)
<1> DEFINE e == visit[c].e
           i == visit[c].i
           w == [visit[c] EXCEPT !.at = "linking", !.seen = users[e].clerk]
<1>0. /\ visit \in [SignIns -> Asked] /\ visit[c] \in Asked /\ users[e] \in UserDoc
  BY Addressed
<1>1. visit[c].at = "racing" /\ i \in ClerkIds
  BY DEF ResolveDuplicateRace, PhaseInv, ClerkPhases
<1>2. CASE ByClerkId(i) # {}
  <2>1. PICK f \in ByClerkId(i) : GoesFor(c, "served", f)
    BY <1>2 DEF ResolveDuplicateRace, ServedWith
  <2>2. f \in Addresses
    BY DEF ByClerkId
  <2> QED
    BY <1>0, <1>1, <2>1, <2>2, GoesForDoes DEF Ended
<1>3. CASE ByClerkId(i) = {} /\ EmailWinner(e)
  <2>1. visit' = [visit EXCEPT ![c] = w]
    BY <1>3 DEF ResolveDuplicateRace
  <2>2. users[e].clerk \in ClerkIds \cup {NoOne}
    BY <1>0 DEF UserDoc
  <2>3. /\ w \in Asked /\ w.at = "linking" /\ w.i = i /\ w.e = e /\ w.seen = users[e].clerk
    BY <1>0, <2>2 DEF Asked, Working
  <2> HIDE DEF w
  <2>4. Moves(c) /\ visit'[c] = w
    BY <1>0, <2>1, <2>3, Becomes
  <2> QED
    BY <1>1, <1>3, <2>3, <2>4 DEF EmailWinner
<1>4. CASE ByClerkId(i) = {} /\ ~EmailWinner(e)
  <2>1. Goes(c, "error")
    BY <1>4 DEF ResolveDuplicateRace
  <2> QED
    BY <1>0, <1>1, <1>4, <2>1, GoesDoes DEF Ended, EmailWinner
<1> QED
  BY <1>2, <1>3, <1>4

\* A sign-in with Google goes on in a Google phase or is over.
GoogleMoves(c) ==
  /\ Moves(c) /\ visit'[c].i \in GoogleIds
  /\ visit'[c].at \in GooglePhases \cup {"served", "error"}
  /\ visit'[c].at = "googleLinking" => users[visit'[c].e].known

\* The three ways a request writes a user, and what each was allowed by.
Linked(c) ==
  LET e == visit[c].e
      i == visit[c].i IN
  /\ visit[c].at \in KnowsEmail /\ i \in ClerkIds /\ e \in Addresses /\ Alters(e)
  /\ users[e].known /\ users[e].clerk \in {NoOne, i} /\ users'[e].clerk = i
  /\ users'[e].known = users[e].known /\ users'[e].google = users[e].google
  /\ Permitted(e, i, users[e].google)
GoogleLinked(c) ==
  LET e == visit[c].e
      g == visit[c].i IN
  /\ g \in GoogleIds /\ e \in Addresses /\ Alters(e)
  /\ users[e].known /\ users'[e].google = g
  /\ users'[e].known = users[e].known /\ users'[e].clerk = users[e].clerk
  /\ Permitted(e, users[e].clerk, g)
Added(c) ==
  LET e == visit[c].e IN
  /\ e \in Addresses /\ ~users[e].known /\ Alters(e)
  /\ \/ /\ visit[c].at \in KnowsEmail
        /\ visit[c].i \in ClerkIds /\ Permitted(e, visit[c].i, NoOne)
        /\ users'[e] = [known |-> TRUE, clerk |-> visit[c].i, google |-> NoOne]
     \/ /\ visit[c].i \in GoogleIds /\ Permitted(e, NoOne, visit[c].i)
        /\ users'[e] = [known |-> TRUE, clerk |-> NoOne, google |-> visit[c].i]

ClerkActs(c) ==
  \/ \E i \in ClerkIds : FindOrCreate(c, i)
  \/ FetchClerkUser(c) \/ LinkEmailOwner(c) \/ FindLinkWinner(c)
  \/ CreateUser(c) \/ ResolveDuplicateRace(c)

GoogleActs(c) ==
  \/ \E g \in GoogleIds : ValidateGoogleUser(c, g)
  \/ FindGoogleEmail(c) \/ LinkGoogleId(c) \/ CreateGoogleUser(c)

\* What the four steps of a sign-in with Google do.
LEMMA GoogleActsDo ==
  ASSUME UsersTypeOK, PhaseInv, SeenInv, NEW c \in SignIns, GoogleActs(c)
  PROVE  GoogleMoves(c) /\ (users' = users \/ GoogleLinked(c) \/ Added(c))
<1> DEFINE e == visit[c].e
           g == visit[c].i
<1>0. /\ visit \in [SignIns -> Asked] /\ e \in Addresses /\ users \in [Addresses -> UserDoc]
      /\ NoEmail \in Addresses
  BY Addressed DEF Addresses
<1>1. ASSUME NEW h \in GoogleIds, ValidateGoogleUser(c, h)
      PROVE  GoogleMoves(c) /\ users' = users
  <2>0. h \in Identities /\ users' = users
    BY <1>1 DEF Identities, ValidateGoogleUser
  <2>1. CASE ByGoogleId(h) = {}
    <3>1. visit' = [visit EXCEPT ![c] =
                      [at |-> "googleEmail", i |-> h, e |-> NoEmail, seen |-> NoOne]]
      BY <1>1, <2>1 DEF ValidateGoogleUser, Nothing
    <3> QED
      BY <1>0, <2>0, <3>1, BeginsDoes DEF Working, GoogleMoves, GooglePhases
  <2>2. CASE ByGoogleId(h) # {}
    <3>1. PICK f \in ByGoogleId(h) :
            visit' = [visit EXCEPT ![c] = [at |-> "served", i |-> h, e |-> f, seen |-> NoOne]]
      BY <1>1, <2>2 DEF ValidateGoogleUser, Nothing
    <3>2. f \in Addresses
      BY DEF ByGoogleId
    <3> QED
      BY <1>0, <2>0, <3>1, <3>2, BeginsDoes DEF Ended, GoogleMoves
  <2> QED
    BY <2>1, <2>2
<1>2. CASE FindGoogleEmail(c)
  <2>1. g \in GoogleIds /\ users' = users
    BY <1>2 DEF FindGoogleEmail, OnlyGoes, PhaseInv, GooglePhases
  <2>2. emailOf[g] \in Addresses
    BY <2>1 DEF UsersTypeOK, Identities
  <2>3. PICK at \in {"googleLinking", "googleCreating"} :
          /\ at = "googleLinking" => users[emailOf[g]].known
          /\ GoesFor(c, at, emailOf[g])
    BY <1>2 DEF FindGoogleEmail
  <2> QED
    BY <1>0, <2>1, <2>2, <2>3, GoesForDoes DEF GoogleMoves, GooglePhases, Working
<1>3. CASE LinkGoogleId(c)
  <2>1. g \in GoogleIds /\ users[e].known
    BY <1>3 DEF LinkGoogleId, PhaseInv, GooglePhases, SeenInv
  <2>2. CASE Permitted(e, users[e].clerk, g)
    <3> DEFINE w == [users[e] EXCEPT !.google = g]
    <3>1. users' = [users EXCEPT ![e] = w] /\ GoesFor(c, "served", e)
      BY <1>3, <2>2 DEF LinkGoogleId, ServedWith
    <3>2. w \in UserDoc /\ w.google = g /\ w.known = users[e].known /\ w.clerk = users[e].clerk
      BY <1>0, <2>1 DEF UserDoc
    <3> HIDE DEF w
    <3>3. Alters(e) /\ users'[e] = w
      BY <1>0, <3>1, <3>2 DEF Alters
    <3>4. GoogleMoves(c)
      BY <1>0, <2>1, <3>1, GoesForDoes DEF GoogleMoves, Ended
    <3> QED
      BY <1>0, <2>1, <2>2, <3>2, <3>3, <3>4 DEF GoogleLinked
  <2>3. CASE ~Permitted(e, users[e].clerk, g)
    <3>1. users' = users /\ Goes(c, "error")
      BY <1>3, <2>3 DEF LinkGoogleId
    <3> QED
      BY <1>0, <2>1, <3>1, GoesDoes DEF GoogleMoves, Ended
  <2> QED
    BY <2>2, <2>3
<1>4. CASE CreateGoogleUser(c)
  <2> DEFINE w == [known |-> TRUE, clerk |-> NoOne, google |-> g]
             may == e # NoEmail /\ ~users[e].known /\ Permitted(e, NoOne, g)
  <2>1. g \in GoogleIds
    BY <1>4 DEF CreateGoogleUser, PhaseInv, GooglePhases
  <2>2. CASE may
    <3>1. users' = [users EXCEPT ![e] = w] /\ GoesFor(c, "served", e)
      BY <1>4, <2>2 DEF CreateGoogleUser, ServedWith
    <3>2. w \in UserDoc
      BY <2>1 DEF UserDoc
    <3>3. Alters(e) /\ users'[e] = w
      BY <1>0, <3>1, <3>2 DEF Alters
    <3>4. GoogleMoves(c)
      BY <1>0, <2>1, <3>1, GoesForDoes DEF GoogleMoves, Ended
    <3> QED
      BY <1>0, <2>1, <2>2, <3>3, <3>4 DEF Added
  <2>3. CASE ~may
    <3>1. users' = users /\ Goes(c, "error")
      BY <1>4, <2>3 DEF CreateGoogleUser
    <3> QED
      BY <1>0, <2>1, <3>1, GoesDoes DEF GoogleMoves, Ended
  <2> QED
    BY <2>2, <2>3
<1> QED
  BY <1>1, <1>2, <1>3, <1>4 DEF GoogleActs

-----------------------------------------------------------------------------
(* One step: a request, or something beside the requests *)

Beside ==
  \/ \E i \in Identities, e \in Addresses : EmailMoves(i, e)
  \/ PlanMigration \/ MigrationEnds
  \/ \E x \in DesiredIndexes : CreateIndex(x)
  \/ \E x \in LegacyIndexes : DropIndex(x)

\* A step is one of a request, or beside the requests.
LEMMA StepCases ==
  ASSUME [UsersNext]_userVars
  PROVE  \/ \E c \in SignIns : ClerkActs(c) \/ GoogleActs(c)
         \/ Beside
         \/ UNCHANGED userVars
BY DEF UsersNext, ClerkActs, GoogleActs, Beside

\* Moved e-mails and the migration leave users and requests alone, and are typed.
LEMMA BesideDoes ==
  ASSUME UsersTypeOK, Beside
  PROVE  /\ indexes' \subseteq DesiredIndexes \cup LegacyIndexes
         /\ migration' \in [at : {"idle", "applying"}, create : SUBSET DesiredIndexes,
                            drop : SUBSET LegacyIndexes]
         /\ emailOf' \in [Identities -> Addresses] /\ moved' \subseteq Identities
         /\ legacy' = legacy /\ welcome' = welcome /\ signIns' = signIns
         /\ userFaults' \in Nat /\ UNCHANGED <<users, visit>>
<1> USE DEF UsersTypeOK
<1>0. UNCHANGED <<users, visit>>
  BY DEF Beside, EmailMoves, PlanMigration, MigrationEnds, CreateIndex, DropIndex, UsersAside
<1>1. ASSUME NEW i \in Identities, NEW e \in Addresses, EmailMoves(i, e)
      PROVE  /\ emailOf' \in [Identities -> Addresses] /\ moved' \subseteq Identities
             /\ userFaults' \in Nat
             /\ UNCHANGED <<indexes, migration, legacy, welcome, signIns>>
  BY <1>1 DEF EmailMoves, UserFault
<1>2. CASE PlanMigration
  <2>1. /\ migration' = [at |-> "applying", create |-> DesiredIndexes \ indexes,
                         drop |-> indexes \cap LegacyIndexes]
        /\ UNCHANGED <<indexes, emailOf, moved, legacy, welcome, signIns, userFaults>>
    BY <1>2 DEF PlanMigration, UsersAside
  <2> QED
    BY <1>0, <2>1
<1>3. CASE MigrationEnds
  <2>1. /\ migration' = [at |-> "idle", create |-> {}, drop |-> {}]
        /\ UNCHANGED <<indexes, emailOf, moved, legacy, welcome, signIns>>
        /\ userFaults' = userFaults \/ userFaults' = userFaults + 1
    BY <1>3 DEF MigrationEnds, UsersAside, UserFault, AtRest
  <2> QED
    BY <1>0, <2>1
<1>4. ASSUME NEW x \in DesiredIndexes, CreateIndex(x)
      PROVE  /\ indexes' \subseteq DesiredIndexes \cup LegacyIndexes
             /\ migration' \in [at : {"idle", "applying"}, create : SUBSET DesiredIndexes,
                                drop : SUBSET LegacyIndexes]
             /\ UNCHANGED <<emailOf, moved, legacy, welcome, signIns, userFaults>>
  BY <1>4 DEF CreateIndex, UsersAside, AtRest
<1>5. ASSUME NEW x \in LegacyIndexes, DropIndex(x)
      PROVE  /\ indexes' \subseteq DesiredIndexes \cup LegacyIndexes
             /\ migration' \in [at : {"idle", "applying"}, create : SUBSET DesiredIndexes,
                                drop : SUBSET LegacyIndexes]
             /\ UNCHANGED <<emailOf, moved, legacy, welcome, signIns, userFaults>>
  BY <1>5 DEF DropIndex, UsersAside
<1> QED
  BY <1>0, <1>1, <1>2, <1>3, <1>4, <1>5 DEF Beside

\* A request leaves the indexes and e-mails alone; its bookkeeping is typed.
LEMMA ActsRest ==
  ASSUME NEW c \in SignIns, ClerkActs(c) \/ GoogleActs(c), UsersTypeOK
  PROVE  /\ UNCHANGED <<indexes, migration, emailOf, moved, legacy>>
         /\ signIns' \in Nat /\ userFaults' \in Nat /\ welcome' \subseteq Emails
<1>1. ASSUME NEW i \in ClerkIds, FindOrCreate(c, i)
      PROVE  /\ UNCHANGED <<indexes, migration, emailOf, moved, legacy>>
             /\ signIns' = signIns + 1 /\ userFaults' = userFaults
  BY <1>1 DEF FindOrCreate
<1>2. ASSUME NEW g \in GoogleIds, ValidateGoogleUser(c, g)
      PROVE  /\ UNCHANGED <<indexes, migration, emailOf, moved, legacy>>
             /\ signIns' = signIns + 1 /\ userFaults' = userFaults
  BY <1>2 DEF ValidateGoogleUser
<1>3. \/ /\ UNCHANGED <<indexes, migration, emailOf, moved, legacy>>
         /\ signIns' = signIns + 1 /\ userFaults' = userFaults
      \/ SignInOnly
  BY <1>1, <1>2
  DEF ClerkActs, GoogleActs, OnlyGoes, FetchClerkUser, LinkEmailOwner, FindLinkWinner, CreateUser,
      ResolveDuplicateRace, FindGoogleEmail, LinkGoogleId, CreateGoogleUser
<1>4. signIns \in Nat /\ userFaults \in Nat
  BY DEF UsersTypeOK
<1>5. UNCHANGED <<indexes, migration, emailOf, moved, legacy>>
  BY <1>3 DEF SignInOnly
<1>6. (signIns' = signIns + 1 \/ signIns' = signIns) /\ userFaults' = userFaults
  BY <1>3 DEF SignInOnly
<1>7. welcome' \subseteq Emails
  <2>1. welcome \subseteq Emails /\ visit[c].e \in Emails \cup {NoEmail}
    BY Addressed DEF UsersTypeOK, Addresses
  <2>2. welcome' = welcome \/ CreateUser(c) \/ CreateGoogleUser(c)
    BY DEF ClerkActs, GoogleActs, OnlyGoes, FindOrCreate, FetchClerkUser, LinkEmailOwner,
        FindLinkWinner, ResolveDuplicateRace, ValidateGoogleUser, FindGoogleEmail, LinkGoogleId
  <2>3. CASE CreateUser(c)
    <3>1. welcome' = welcome \/ welcome' = welcome \cup ({visit[c].e} \ {NoEmail})
      BY <2>3 DEF CreateUser
    <3> QED
      BY <2>1, <3>1
  <2>4. CASE CreateGoogleUser(c)
    <3>1. welcome' = welcome \/ (visit[c].e # NoEmail /\ welcome' = welcome \cup {visit[c].e})
      BY <2>4 DEF CreateGoogleUser
    <3> QED
      BY <2>1, <3>1
  <2> QED
    BY <2>1, <2>2, <2>3, <2>4
<1> QED
  BY <1>4, <1>5, <1>6, <1>7

\* A request writes users in one of three ways only.
LEMMA UsersWritten ==
  ASSUME UsersTypeOK, PhaseInv, SeenInv, NEW c \in SignIns, ClerkActs(c) \/ GoogleActs(c)
  PROVE  users' = users \/ Linked(c) \/ GoogleLinked(c) \/ Added(c)
<1>0. visit[c].e \in Addresses
  BY Addressed
<1>1. CASE LinkEmailOwner(c)
  <2>1. users[visit[c].e].known
    BY <1>1 DEF SeenInv, LinkEmailOwner
  <2> QED
    BY <1>0, <1>1, <2>1, LinkEmailOwnerDoes DEF Linked, KnowsEmail, ClerkPhases
<1>2. CASE CreateUser(c)
  BY <1>0, <1>2, CreateUserDoes DEF Added, KnowsEmail, ClerkPhases
<1> QED
  BY <1>1, <1>2, GoogleActsDo
  DEF ClerkActs, OnlyGoes, FindOrCreate, FetchClerkUser, FindLinkWinner, ResolveDuplicateRace

\* A user stays known, and keeps the Clerk identity it is linked to.
LEMMA UsersStay ==
  ASSUME UsersTypeOK, UnknownInv, PhaseInv, SeenInv, [UsersNext]_userVars
  PROVE  /\ UnknownInv' /\ users' \in [Addresses -> UserDoc]
         /\ \A e \in Addresses : /\ users[e].known => users'[e].known
                                 /\ users[e].clerk # NoOne => users'[e].clerk = users[e].clerk
<1> DEFINE Stays(e) == /\ users[e].known => users'[e].known
                       /\ users[e].clerk # NoOne => users'[e].clerk = users[e].clerk
<1>1. CASE users' = users
  BY <1>1 DEF UnknownInv, UsersTypeOK
<1>2. ASSUME NEW c \in SignIns, Linked(c) \/ GoogleLinked(c) \/ Added(c)
      PROVE  UnknownInv' /\ users' \in [Addresses -> UserDoc] /\ \A e \in Addresses : Stays(e)
  <2>1. Alters(visit[c].e) /\ users'[visit[c].e].known
    <3>1. CASE Added(c)
      <4>1. Alters(visit[c].e)
        BY <3>1 DEF Added
      <4>2. \E i, g : users'[visit[c].e] = [known |-> TRUE, clerk |-> i, google |-> g]
        BY <3>1 DEF Added
      <4> QED
        BY <4>1, <4>2
    <3> QED
      BY <1>2, <3>1 DEF Linked, GoogleLinked
  <2>2. UnknownInv' /\ users' \in [Addresses -> UserDoc]
    BY <2>1 DEF Alters, UnknownInv
  <2>3. Stays(visit[c].e)
    <3>1. CASE Linked(c)
      BY <3>1 DEF Linked
    <3>2. CASE GoogleLinked(c)
      BY <3>2 DEF GoogleLinked
    <3>3. CASE Added(c)
      BY <3>3 DEF Added, UnknownInv, Unknown
    <3> QED
      BY <1>2, <3>1, <3>2, <3>3
  <2> QED
    BY <2>1, <2>2, <2>3 DEF Alters
<1> QED
  BY <1>1, <1>2, StepCases, BesideDoes, UsersWritten DEF userVars

\* A request moves alone, within the phases of its identity.
LEMMA VisitMoves ==
  ASSUME UsersTypeOK, PhaseInv, SeenInv, NEW c \in SignIns, ClerkActs(c) \/ GoogleActs(c)
  PROVE  \/ /\ Moves(c) /\ visit'[c].i \in ClerkIds
            /\ visit'[c].at \in ClerkPhases \cup {"served", "conflict", "error"}
         \/ GoogleMoves(c)
<1>1. ASSUME NEW i \in ClerkIds, FindOrCreate(c, i)
      PROVE  /\ Moves(c) /\ visit'[c].i \in ClerkIds
             /\ visit'[c].at \in ClerkPhases \cup {"served"}
  BY <1>1, FindOrCreateDoes DEF ClerkPhases
<1>2. CASE FetchClerkUser(c)
  BY <1>2, FetchClerkUserDoes DEF ClerkPhases
<1>3. CASE LinkEmailOwner(c)
  BY <1>3, LinkEmailOwnerDoes DEF ClerkPhases, Keeps
<1>4. CASE FindLinkWinner(c)
  BY <1>4, FindLinkWinnerDoes DEF ClerkPhases
<1>5. CASE CreateUser(c)
  BY <1>5, CreateUserDoes DEF ClerkPhases
<1>6. CASE ResolveDuplicateRace(c)
  BY <1>6, ResolveDuplicateRaceDoes DEF ClerkPhases
<1>7. CASE GoogleActs(c)
  BY <1>7, GoogleActsDo
<1> QED
  BY <1>1, <1>2, <1>3, <1>4, <1>5, <1>6, <1>7 DEF ClerkActs

\* Phases keep to the identities they belong to.
LEMMA PhaseStep ==
  ASSUME UsersTypeOK, PhaseInv, SeenInv, [UsersNext]_userVars
  PROVE  PhaseInv' /\ visit' \in [SignIns -> Asked]
<1>1. CASE visit' = visit
  BY <1>1 DEF UsersTypeOK, Asked, PhaseInv
<1>2. ASSUME NEW c \in SignIns, ClerkActs(c) \/ GoogleActs(c)
      PROVE  PhaseInv' /\ visit' \in [SignIns -> Asked]
  <2>1. Moves(c)
    BY <1>2, VisitMoves DEF GoogleMoves
  <2>2. /\ visit'[c].at \in ClerkPhases => visit'[c].i \in ClerkIds
        /\ visit'[c].at \in GooglePhases => visit'[c].i \in GoogleIds
        /\ visit'[c].at = "conflict" => visit'[c].i \in ClerkIds
    BY <1>2, VisitMoves DEF GoogleMoves, ClerkPhases, GooglePhases
  <2> QED
    BY <2>1, <2>2 DEF Moves, PhaseInv
<1> QED
  BY <1>1, <1>2, StepCases, BesideDoes DEF userVars

\* Every step keeps the types.
LEMMA UsersTypeStep ==
  ASSUME UsersTypeOK, UnknownInv, PhaseInv, SeenInv, [UsersNext]_userVars
  PROVE  UsersTypeOK'
<1>1. users' \in [Addresses -> UserDoc] /\ visit' \in [SignIns -> Asked]
  BY UsersStay, PhaseStep
<1>2. CASE \E c \in SignIns : ClerkActs(c) \/ GoogleActs(c)
  <2>1. UNCHANGED <<indexes, migration, emailOf, moved, legacy>>
        /\ signIns' \in Nat /\ userFaults' \in Nat /\ welcome' \subseteq Emails
    BY <1>2, ActsRest
  <2> QED
    BY <1>1, <2>1 DEF UsersTypeOK, Asked
<1>3. CASE Beside
  BY <1>1, <1>3, BesideDoes DEF UsersTypeOK, Asked
<1>4. CASE UNCHANGED userVars
  BY <1>4 DEF UsersTypeOK, userVars
<1> QED
  BY <1>2, <1>3, <1>4, StepCases

\* The migration never leaves an identity without its index.
LEMMA IndexStep ==
  ASSUME UsersTypeOK, IndexInv, [UsersNext]_userVars
  PROVE  IndexInv'
<1>1. CASE UNCHANGED <<indexes, migration, legacy>>
  BY <1>1 DEF IndexInv
<1>2. CASE PlanMigration
  <2>1. /\ migration' = [at |-> "applying", create |-> DesiredIndexes \ indexes,
                         drop |-> indexes \cap LegacyIndexes]
        /\ UNCHANGED <<indexes, legacy>> /\ indexes # DesiredIndexes
    BY <1>2 DEF PlanMigration, UsersAside
  <2> QED
    BY <2>1 DEF IndexInv
<1>3. CASE MigrationEnds
  <2>1. migration' = AtRest /\ UNCHANGED <<indexes, legacy>>
    BY <1>3 DEF MigrationEnds, UsersAside
  <2> QED
    BY <2>1 DEF IndexInv, AtRest
<1>4. ASSUME NEW x \in DesiredIndexes, CreateIndex(x) PROVE IndexInv'
  <2>1. x \in migration.create /\ legacy' = legacy
    BY <1>4 DEF CreateIndex, UsersAside
  <2>2. legacy
    BY <2>1 DEF IndexInv, AtRest, UsersTypeOK
  <2>3. CASE CanCreate(x)
    <3>1. indexes' = indexes \cup {x} /\ migration' = [migration EXCEPT !.create = @ \ {x}]
      BY <1>4, <2>3 DEF CreateIndex
    <3>2. migration'.drop = migration.drop /\ migration'.create = migration.create \ {x}
      BY <3>1 DEF UsersTypeOK
    <3> QED
      BY <2>1, <2>2, <3>1, <3>2 DEF IndexInv
  <2>4. CASE ~CanCreate(x)
    <3>1. indexes' = indexes /\ migration' = AtRest
      BY <1>4, <2>4 DEF CreateIndex
    <3> QED
      BY <2>1, <2>2, <3>1 DEF IndexInv, AtRest
  <2> QED
    BY <2>3, <2>4
<1>5. ASSUME NEW x \in LegacyIndexes, DropIndex(x) PROVE IndexInv'
  <2>1. /\ x \in migration.drop /\ migration.create = {} /\ legacy' = legacy
        /\ indexes' = indexes \ {x} /\ migration' = [migration EXCEPT !.drop = @ \ {x}]
    BY <1>5 DEF DropIndex, MayDrop, UsersAside
  <2>2. legacy /\ DesiredIndexes \subseteq indexes
    BY <2>1 DEF IndexInv, AtRest
  <2>3. DesiredIndexes \subseteq indexes'
    BY <2>1, <2>2 DEF DesiredIndexes, LegacyIndexes
  <2> QED
    BY <2>1, <2>2, <2>3 DEF IndexInv
<1>6. ASSUME NEW i \in Identities, NEW e \in Addresses, EmailMoves(i, e)
      PROVE  UNCHANGED <<indexes, migration, legacy>>
  BY <1>6 DEF EmailMoves
<1> QED
  BY <1>1, <1>2, <1>3, <1>4, <1>5, <1>6, StepCases, ActsRest DEF Beside, userVars

-----------------------------------------------------------------------------
(* No identity has two users *)

\* One user changes, to an identity nobody else has.
LEMMA StaysUnique ==
  ASSUME NEW e \in Addresses, Alters(e), IdentitiesUnique,
         \A i \in ClerkIds : users'[e].clerk = i => ByClerkId(i) \subseteq {e},
         \A g \in GoogleIds : users'[e].google = g => ByGoogleId(g) \subseteq {e}
  PROVE  IdentitiesUnique'
<1>1. ASSUME NEW i \in ClerkIds PROVE \A f, h \in ByClerkId(i)' : f = h
  BY DEF ByClerkId, Alters, IdentitiesUnique
<1>2. ASSUME NEW g \in GoogleIds PROVE \A f, h \in ByGoogleId(g)' : f = h
  BY DEF ByGoogleId, Alters, IdentitiesUnique
<1> QED
  BY <1>1, <1>2 DEF IdentitiesUnique

\* No step gives an identity a second user.
LEMMA UniqueStep ==
  ASSUME UsersTypeOK, PhaseInv, SeenInv, IndexInv, IdentitiesUnique, [UsersNext]_userVars
  PROVE  IdentitiesUnique'
<1>0. ClerkIdUnique /\ GoogleIdUnique
  BY DEF IndexInv, ClerkIdUnique, GoogleIdUnique, DesiredIndexes, LegacyIndexes
<1>1. CASE users' = users
  BY <1>1 DEF IdentitiesUnique, ByClerkId, ByGoogleId
<1>2. ASSUME NEW c \in SignIns, Linked(c) PROVE IdentitiesUnique'
  <2> DEFINE e == visit[c].e
  <2>1. /\ e \in Addresses /\ Alters(e) /\ visit[c].i \in ClerkIds
        /\ users'[e].clerk = visit[c].i /\ ByClerkId(visit[c].i) \subseteq {e}
    BY <1>0, <1>2, NoOneIsNobody DEF Linked, Permitted, Identities
  <2>2. \A g \in GoogleIds : users'[e].google = g => ByGoogleId(g) \subseteq {e}
    BY <1>2, <2>1 DEF Linked, IdentitiesUnique, ByGoogleId
  <2> QED
    BY <2>1, <2>2, StaysUnique
<1>3. ASSUME NEW c \in SignIns, GoogleLinked(c) PROVE IdentitiesUnique'
  <2> DEFINE e == visit[c].e
  <2>1. /\ e \in Addresses /\ Alters(e) /\ visit[c].i \in GoogleIds
        /\ users'[e].google = visit[c].i /\ ByGoogleId(visit[c].i) \subseteq {e}
    BY <1>0, <1>3, NoOneIsNobody DEF GoogleLinked, Permitted, Identities
  <2>2. \A i \in ClerkIds : users'[e].clerk = i => ByClerkId(i) \subseteq {e}
    <3>1. users[e].known /\ users'[e].clerk = users[e].clerk
      BY <1>3 DEF GoogleLinked
    <3> HIDE DEF e
    <3>2. ASSUME NEW i \in ClerkIds, users[e].clerk = i, NEW f \in ByClerkId(i) PROVE f = e
      <4>1. e \in ByClerkId(i)
        BY <2>1, <3>1, <3>2 DEF ByClerkId
      <4> QED BY <3>2, <4>1 DEF IdentitiesUnique
    <3> QED BY <3>1, <3>2
  <2> QED
    BY <2>1, <2>2, StaysUnique
<1>4. ASSUME NEW c \in SignIns, Added(c) PROVE IdentitiesUnique'
  <2> DEFINE e == visit[c].e
  <2>1. e \in Addresses /\ Alters(e)
    BY <1>4 DEF Added
  <2>2. \/ /\ users'[e].clerk = visit[c].i /\ users'[e].google = NoOne
           /\ visit[c].i \in ClerkIds /\ ByClerkId(visit[c].i) \subseteq {e}
        \/ /\ users'[e].clerk = NoOne /\ users'[e].google = visit[c].i
           /\ visit[c].i \in GoogleIds /\ ByGoogleId(visit[c].i) \subseteq {e}
    BY <1>0, <1>4, NoOneIsNobody DEF Added, Permitted, Identities
  <2>3. /\ \A i \in ClerkIds : users'[e].clerk = i => ByClerkId(i) \subseteq {e}
        /\ \A g \in GoogleIds : users'[e].google = g => ByGoogleId(g) \subseteq {e}
    BY <2>2, NoOneIsNobody DEF Identities
  <2> QED
    BY <2>1, <2>3, StaysUnique
<1> QED
  BY <1>1, <1>2, <1>3, <1>4, StepCases, BesideDoes, UsersWritten DEF userVars

-----------------------------------------------------------------------------
(* Every sign-in ends as it should *)

\* What a request has seen stays so, whatever others write.
LEMMA SeenStep ==
  ASSUME UsersTypeOK, UnknownInv, PhaseInv, SeenInv, IndexInv, [UsersNext]_userVars
  PROVE  SeenInv'
<1>0. /\ legacy' = legacy
      /\ \A e \in Addresses : /\ users[e].known => users'[e].known
                              /\ users[e].clerk # NoOne => users'[e].clerk = users[e].clerk
  BY UsersStay, StepCases, ActsRest, BesideDoes DEF userVars
<1> DEFINE Sees(w) == /\ w.at = "linking" => /\ users'[w.e].known
                                             /\ w.seen # NoOne => users'[w.e].clerk = w.seen
                      /\ w.at = "looking" => users'[w.e].clerk \notin {NoOne, w.i}
                      /\ w.at = "googleLinking" => users'[w.e].known
                      /\ w.at = "racing" => users'[w.e].known \/ legacy
<1>1. ASSUME NEW d \in SignIns PROVE Sees(visit[d])
  BY <1>0, Addressed DEF SeenInv
<1>2. CASE visit' = visit
  BY <1>0, <1>1, <1>2 DEF SeenInv
<1>3. ASSUME NEW c \in SignIns, ClerkActs(c) \/ GoogleActs(c) PROVE SeenInv'
  <2>0. Moves(c) /\ visit'[c].e \in Addresses
    BY <1>3, VisitMoves DEF GoogleMoves, Moves, Asked
  <2>1. ASSUME NEW i \in ClerkIds, FindOrCreate(c, i) PROVE SeenInv'
    <3>1. Sees(visit'[c])
      BY <2>1, FindOrCreateDoes
    <3> QED
      BY <1>0, <1>1, <2>0, <3>1 DEF Moves, SeenInv
  <2>2. CASE FetchClerkUser(c)
    <3>1. Sees(visit'[c])
      BY <1>0, <2>0, <2>2, FetchClerkUserDoes
    <3> QED
      BY <1>0, <1>1, <2>0, <3>1 DEF Moves, SeenInv
  <2>3. CASE LinkEmailOwner(c)
    <3>1. visit'[c].at # "looking" \/ users[visit'[c].e].clerk \notin {NoOne, visit'[c].i}
      BY <2>3, LinkEmailOwnerDoes DEF Keeps
    <3>2. Sees(visit'[c])
      BY <1>0, <2>0, <2>3, <3>1, LinkEmailOwnerDoes
    <3> QED
      BY <1>0, <1>1, <2>0, <3>2 DEF Moves, SeenInv
  <2>4. CASE FindLinkWinner(c)
    <3>1. Sees(visit'[c])
      BY <2>4, FindLinkWinnerDoes
    <3> QED
      BY <1>0, <1>1, <2>0, <3>1 DEF Moves, SeenInv
  <2>5. CASE CreateUser(c)
    <3>1. ASSUME ByClerkId(visit[c].i) = {}, ~Permitted(visit[c].e, visit[c].i, NoOne)
          PROVE  legacy
      BY <3>1 DEF Permitted, IndexInv, DesiredIndexes
    <3>2. Sees(visit'[c])
      BY <1>0, <2>0, <2>5, <3>1, CreateUserDoes
    <3> QED
      BY <1>0, <1>1, <2>0, <3>2 DEF Moves, SeenInv
  <2>6. CASE ResolveDuplicateRace(c)
    <3>1. Sees(visit'[c])
      BY <1>0, <2>0, <2>6, ResolveDuplicateRaceDoes
    <3> QED
      BY <1>0, <1>1, <2>0, <3>1 DEF Moves, SeenInv
  <2>7. CASE GoogleActs(c)
    <3>1. GoogleMoves(c)
      BY <2>7, GoogleActsDo
    <3>2. Sees(visit'[c])
      BY <1>0, <2>0, <3>1 DEF GoogleMoves, GooglePhases
    <3> QED
      BY <1>0, <1>1, <2>0, <3>2 DEF Moves, SeenInv
  <2> QED
    BY <1>3, <2>1, <2>2, <2>3, <2>4, <2>5, <2>6, <2>7 DEF ClerkActs
<1> QED
  BY <1>2, <1>3, StepCases, BesideDoes DEF userVars

\* An identity whose e-mail never moved is linked under it.
LEMMA MailStep ==
  ASSUME UsersTypeOK, PhaseInv, SeenInv, MailInv, [UsersNext]_userVars
  PROVE  MailInv'
<1>1. CASE UNCHANGED <<users, visit, emailOf, moved>>
  BY <1>1 DEF MailInv
<1>2. ASSUME NEW j \in Identities, NEW f \in Addresses, EmailMoves(j, f) PROVE MailInv'
  <2>1. /\ moved' = moved \cup {j} /\ UNCHANGED <<users, visit>>
        /\ \A i \in Identities : i # j => emailOf'[i] = emailOf[i]
    BY <1>2 DEF EmailMoves, UsersTypeOK
  <2>2. \A c \in SignIns : visit[c].at \in KnowsEmail => visit[c].i \in Identities
    BY DEF PhaseInv, KnowsEmail, Identities
  <2> QED
    BY <2>1, <2>2 DEF MailInv, Identities
<1>3. ASSUME NEW c \in SignIns, ClerkActs(c) \/ GoogleActs(c) PROVE MailInv'
  <2>0. moved' = moved /\ emailOf' = emailOf
    BY <1>3, ActsRest
  <2>1. ASSUME NEW i \in ClerkIds, NEW e \in Addresses, users'[e].clerk = i
        PROVE  i \in moved \/ emailOf[i] = e
    <3>1. CASE users[e].clerk = i
      BY <3>1 DEF MailInv
    <3>2. CASE users[e].clerk # i
      <4>1. \/ Linked(c) \/ GoogleLinked(c) \/ Added(c)
        BY <1>3, <2>1, <3>2, UsersWritten
      <4>2. e = visit[c].e
        BY <2>1, <3>2, <4>1 DEF Linked, GoogleLinked, Added, Alters
      <4>3. i = visit[c].i /\ visit[c].at \in KnowsEmail
        BY <2>1, <3>2, <4>1, <4>2, NoOneIsNobody DEF Linked, GoogleLinked, Added, Identities
      <4> QED
        BY <4>2, <4>3 DEF MailInv
    <3> QED
      BY <3>1, <3>2
  <2>2. visit'[c].at \in KnowsEmail => visit'[c].i \in moved \/ emailOf[visit'[c].i] = visit'[c].e
    <3>1. ASSUME NEW i \in ClerkIds, FindOrCreate(c, i) PROVE visit'[c].at \notin KnowsEmail
      BY <3>1, FindOrCreateDoes DEF KnowsEmail, ClerkPhases
    <3>2. CASE FetchClerkUser(c)
      BY <3>2, FetchClerkUserDoes
    <3>3. CASE GoogleActs(c)
      <4>1. GoogleMoves(c)
        BY <3>3, GoogleActsDo
      <4> QED
        BY <4>1 DEF GoogleMoves, GooglePhases, KnowsEmail, ClerkPhases
    <3>4. CASE LinkEmailOwner(c)
      BY <3>4, LinkEmailOwnerDoes DEF Keeps, MailInv, KnowsEmail, ClerkPhases
    <3>5. CASE FindLinkWinner(c)
      BY <3>5, FindLinkWinnerDoes DEF KnowsEmail, ClerkPhases
    <3>6. CASE CreateUser(c)
      BY <3>6, CreateUserDoes DEF MailInv, KnowsEmail, ClerkPhases
    <3>7. CASE ResolveDuplicateRace(c)
      BY <3>7, ResolveDuplicateRaceDoes DEF MailInv, KnowsEmail, ClerkPhases
    <3> QED
      BY <1>3, <3>1, <3>2, <3>3, <3>4, <3>5, <3>6, <3>7 DEF ClerkActs
  <2>3. \A d \in SignIns : d # c => visit'[d] = visit[d]
    BY <1>3, VisitMoves DEF GoogleMoves, Moves
  <2> QED
    BY <2>0, <2>1, <2>2, <2>3 DEF MailInv
<1>4. CASE PlanMigration \/ MigrationEnds \/ (\E x \in DesiredIndexes : CreateIndex(x))
             \/ (\E x \in LegacyIndexes : DropIndex(x))
  BY <1>1, <1>4 DEF PlanMigration, MigrationEnds, CreateIndex, DropIndex, UsersAside
<1> QED
  BY <1>1, <1>2, <1>3, <1>4, StepCases DEF Beside, userVars

\* Every way a sign-in ends is right, and stays right.
LEMMA EndStep ==
  ASSUME UsersTypeOK, UnknownInv, PhaseInv, SeenInv, IndexInv, MailInv, IdentitiesUnique,
         SignInsResolve, [UsersNext]_userVars
  PROVE  SignInsResolve'
<1> DEFINE Right(w) ==
      w.i \in ClerkIds =>
        /\ w.at = "served" => users'[w.e].clerk = w.i
        /\ w.at = "conflict" => users'[w.e].clerk \notin {NoOne, w.i}
        /\ w.at = "error" => w.e = NoEmail \/ w.i \in moved \/ legacy
<1>0. /\ legacy' = legacy /\ moved \subseteq moved'
      /\ \A e \in Addresses : users[e].clerk # NoOne => users'[e].clerk = users[e].clerk
  <2>1. legacy' = legacy
    BY StepCases, ActsRest, BesideDoes DEF userVars
  <2>2. Beside => moved \subseteq moved'
    BY DEF Beside, EmailMoves, PlanMigration, MigrationEnds, CreateIndex, DropIndex, UsersAside
  <2>3. moved \subseteq moved'
    BY <2>2, StepCases, ActsRest DEF userVars
  <2> QED
    BY <2>1, <2>3, UsersStay
<1>1. ASSUME NEW d \in SignIns PROVE Right(visit[d])
  BY <1>0, Addressed, NoOneIsNobody DEF SignInsResolve, ServedAsSelf, RacesResolve, Identities
<1>2. CASE visit' = visit
  BY <1>0, <1>1, <1>2 DEF SignInsResolve, ServedAsSelf, RacesResolve
<1>3. ASSUME NEW c \in SignIns, ClerkActs(c) \/ GoogleActs(c) PROVE SignInsResolve'
  <2>0. \A d \in SignIns : d # c => visit'[d] = visit[d]
    BY <1>3, VisitMoves DEF GoogleMoves, Moves
  <2>1. ASSUME NEW i \in ClerkIds, NEW e \in ByClerkId(i) PROVE users'[e].clerk = i
    BY <1>0, NoOneIsNobody DEF ByClerkId, Identities
  <2>2. Right(visit'[c])
    <3>1. ASSUME NEW i \in ClerkIds, FindOrCreate(c, i) PROVE Right(visit'[c])
      BY <2>1, <3>1, FindOrCreateDoes
    <3>2. CASE FetchClerkUser(c)
      BY <3>2, FetchClerkUserDoes
    <3>3. CASE LinkEmailOwner(c)
      <4>1. visit[c].e \in Addresses
        BY Addressed
      <4>2. visit[c].seen \notin {NoOne, visit[c].i} => users[visit[c].e].clerk = visit[c].seen
        BY <3>3 DEF LinkEmailOwner, SeenInv
      <4>3. visit'[c].at = "conflict" => users'[visit'[c].e].clerk \notin {NoOne, visit'[c].i}
        BY <1>0, <3>3, <4>1, <4>2, LinkEmailOwnerDoes DEF Keeps
      \* Without the legacy indexes the link is refused only where the e-mail has
      \* changed: whoever has the identity, or the e-mail, was linked under it.
      <4>4. ASSUME visit[c].at = "linking",
                   ~Permitted(visit[c].e, visit[c].i, users[visit[c].e].google)
            PROVE  visit[c].i \in moved \/ legacy
        <5> DEFINE e == visit[c].e
                   i == visit[c].i
        <5>1. /\ i \in ClerkIds /\ e \in Addresses /\ users[e].known
              /\ users[e].google \in GoogleIds \cup {NoOne}
          BY <4>4, Addressed DEF PhaseInv, ClerkPhases, SeenInv, UserDoc
        <5>2. CASE ~(ByClerkId(i) \subseteq {e})
          <6>1. PICK f \in ByClerkId(i) : f # e
            BY <5>2
          <6>2. i \in moved \/ emailOf[i] = f
            BY <5>1, <6>1 DEF ByClerkId, MailInv
          <6>3. i \in moved \/ emailOf[i] = e
            BY <4>4 DEF MailInv, KnowsEmail, ClerkPhases
          <6> QED
            BY <6>1, <6>2, <6>3
        <5>3. CASE ByClerkId(i) \subseteq {e}
          <6>1. users[e].google # NoOne => ByGoogleId(users[e].google) \subseteq {e}
            BY <5>1 DEF ByGoogleId, IdentitiesUnique
          <6>2. "googleId_1" \in indexes
            BY <4>4, <5>3, <6>1 DEF Permitted
          <6> QED
            BY <6>2 DEF IndexInv, DesiredIndexes
        <5> QED
          BY <5>2, <5>3
      <4>5. visit'[c].at = "error" => visit'[c].i \in moved \/ legacy
        BY <3>3, <4>4, LinkEmailOwnerDoes DEF Keeps
      <4>6. visit'[c].at = "served" => users'[visit'[c].e].clerk = visit'[c].i
        BY <3>3, LinkEmailOwnerDoes DEF Keeps
      <4> QED
        BY <4>3, <4>5, <4>6
    <3>4. CASE FindLinkWinner(c)
      <4>1. visit[c].e \in Addresses /\ users[visit[c].e].clerk \notin {NoOne, visit[c].i}
        BY <3>4, Addressed DEF FindLinkWinner, SeenInv
      <4> QED
        BY <1>0, <2>1, <3>4, <4>1, FindLinkWinnerDoes
    <3>5. CASE CreateUser(c)
      <4>1. \/ visit'[c].at = "served" /\ users'[visit'[c].e].clerk = visit'[c].i
            \/ visit'[c].at = "racing"
        <5>1. /\ visit[c].i \in ClerkIds /\ visit'[c].i = visit[c].i
              /\ \/ visit'[c].at = "racing"
                 \/ visit'[c].at = "served" /\ visit'[c].e \in ByClerkId(visit[c].i)
                 \/ /\ visit'[c].at = "served"
                    /\ users'[visit'[c].e]
                         = [known |-> TRUE, clerk |-> visit[c].i, google |-> NoOne]
          BY <3>5, CreateUserDoes
        <5>2. [known |-> TRUE, clerk |-> visit[c].i, google |-> NoOne].clerk = visit[c].i
          OBVIOUS
        <5> QED
          BY <2>1, <5>1, <5>2
      <4> QED
        BY <4>1
    <3>6. CASE ResolveDuplicateRace(c)
      <4>1. users[visit[c].e].known \/ legacy
        BY <3>6 DEF ResolveDuplicateRace, SeenInv
      <4> QED
        BY <2>1, <3>6, <4>1, ResolveDuplicateRaceDoes
    <3>7. CASE GoogleActs(c)
      <4>1. visit'[c].i \in GoogleIds
        BY <3>7, GoogleActsDo DEF GoogleMoves
      <4> QED
        BY <4>1, NoOneIsNobody
    <3> QED
      BY <1>3, <3>1, <3>2, <3>3, <3>4, <3>5, <3>6, <3>7 DEF ClerkActs
  <2> QED
    BY <1>0, <1>1, <2>0, <2>2 DEF SignInsResolve, ServedAsSelf, RacesResolve
<1> QED
  BY <1>2, <1>3, StepCases, BesideDoes DEF userVars

-----------------------------------------------------------------------------
(* The theorems *)

\* The invariant holds initially.
LEMMA InvInit == UsersInit => UsersInv
<1> SUFFICES ASSUME UsersInit PROVE UsersInv
  OBVIOUS
<1>1. /\ users = [e \in Addresses |-> Unknown] /\ \A c \in SignIns : visit[c].at = "none"
      /\ migration = AtRest /\ indexes \in {LegacyIndexes, DesiredIndexes}
      /\ legacy = (indexes = LegacyIndexes)
  BY DEF UsersInit, Nothing
<1>2. users \in [Addresses -> UserDoc] /\ visit \in [SignIns -> Asked]
  BY DEF UsersInit, UserDoc, Unknown, Nothing, Asked, Ended, Addresses
<1>3. UsersTypeOK
  BY <1>2 DEF UsersInit, UsersTypeOK, AtRest, LegacyIndexes, DesiredIndexes, Asked
<1>4. UnknownInv /\ PhaseInv /\ SeenInv /\ SignInsResolve
  BY <1>1 DEF UnknownInv, PhaseInv, ClerkPhases, GooglePhases, SeenInv, SignInsResolve,
              ServedAsSelf, RacesResolve
<1>5. IndexInv
  BY <1>1 DEF IndexInv, AtRest, LegacyIndexes, DesiredIndexes
<1>6. MailInv /\ IdentitiesUnique
  BY <1>1, NoOneIsNobody
  DEF MailInv, IdentitiesUnique, ByClerkId, ByGoogleId, Unknown, KnowsEmail, ClerkPhases, Identities
<1> QED
  BY <1>3, <1>4, <1>5, <1>6 DEF UsersInv

LEMMA UsersMove == UsersInv /\ [UsersNext]_userVars => UsersInv'
BY UsersTypeStep, UsersStay, PhaseStep, SeenStep, IndexStep, MailStep, UniqueStep, EndStep
DEF UsersInv

\* The invariant is inductive: what requests, moved e-mails and the migration do
\* in whatever order keeps it.
THEOREM UsersInvariance == UsersSpec => []UsersInv
BY InvInit, UsersMove, PTL DEF UsersSpec

\* Every reachable state is well typed.
THEOREM UsersTyped == UsersSpec => []UsersTypeOK
<1>1. UsersInv => UsersTypeOK
  BY DEF UsersInv
<1> QED
  BY <1>1, UsersInvariance, PTL

\* No identity is ever linked to two users: findOrCreate and validateGoogleUser
\* rely on a unique index, and migrateUserIdentityIndexes leaves one in force.
THEOREM UniqueIdentities == UsersSpec => []IdentitiesUnique
<1>1. UsersInv => IdentitiesUnique
  BY DEF UsersInv
<1> QED
  BY <1>1, UsersInvariance, PTL

\* Who is served is served as itself, who is told of a conflict has one, and a
\* lost race is resolved, unless an e-mail changed or the old indexes were there.
THEOREM SignInsEndWell == UsersSpec => []SignInsResolve
<1>1. UsersInv => SignInsResolve
  BY DEF UsersInv
<1> QED
  BY <1>1, UsersInvariance, PTL
=============================================================================
