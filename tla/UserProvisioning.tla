-------------------------- MODULE UserProvisioning --------------------------
(***************************************************************************)
(* Who a request is served as. A first request of a Clerk identity links the *)
(* user document with its e-mail or creates one; sign-in with Google, still  *)
(* accepted, does the same with its own id; both run beside each other,      *)
(* beside themselves and beside the migration of the unique indexes they     *)
(* rely on. Requests are cut where they await.                               *)
(*                                                                           *)
(* The unique index on email is never touched, and e-mails never change in   *)
(* a document: a user is named by its e-mail.                                *)
(***************************************************************************)
EXTENDS Naturals

CONSTANTS
  ClerkIds, GoogleIds,
  Emails, NoEmail,     \* NoEmail: the empty string of an identity without one
  SignIns,             \* requests under way at once
  MaxSignIns,          \* bound on the requests made
  MaxUserFaults,       \* bound on changed e-mails and dead migrations
  NoOne

ASSUME IdentitiesAssumption ==
  /\ NoOne \notin ClerkIds \cup GoogleIds
  /\ ClerkIds \cap GoogleIds = {}
  /\ MaxSignIns \in Nat /\ MaxUserFaults \in Nat

Identities == ClerkIds \cup GoogleIds
Addresses  == Emails \cup {NoEmail}
UserDoc    == [known : BOOLEAN, clerk : ClerkIds \cup {NoOne}, google : GoogleIds \cup {NoOne}]

DesiredIndexes == {"user_google_id_unique", "user_clerk_id_unique"}
LegacyIndexes  == {"googleId_1", "clerkId_1"}

VARIABLES
  users,      \* [Addresses -> UserDoc]
  indexes,    \* the indexes of the collection, beside that on email
  migration,  \* what migrateUserIdentityIndexes is doing
  emailOf,    \* [Identities -> Addresses], what Clerk and Google say
  moved,      \* history: identities whose e-mail changed
  legacy,     \* history: were the legacy indexes there at first?
  welcome,    \* addresses with a welcome e-mail job
  visit,      \* [SignIns -> what the request is doing, and how it ended]
  signIns, userFaults

userVars == <<users, indexes, migration, emailOf, moved, legacy, welcome, visit, signIns,
              userFaults>>

Ended   == {"none", "served", "conflict", "error"}
Working == {"fetching", "linking", "looking", "creating", "racing",
            "googleEmail", "googleLinking", "googleCreating"}
\* i: the identity; e: its e-mail, in the end the user served; seen: the Clerk
\* id of the owner of the e-mail when it was read.
Nothing == [at |-> "none", i |-> NoOne, e |-> NoEmail, seen |-> NoOne]
Unknown == [known |-> FALSE, clerk |-> NoOne, google |-> NoOne]
AtRest  == [at |-> "idle", create |-> {}, drop |-> {}]

UsersInit ==
  /\ users = [e \in Addresses |-> Unknown]
  /\ indexes \in {LegacyIndexes, DesiredIndexes}
  /\ legacy = (indexes = LegacyIndexes)
  /\ migration = AtRest
  /\ emailOf \in [Identities -> Addresses]
  /\ moved = {} /\ welcome = {}
  /\ visit = [c \in SignIns |-> Nothing]
  /\ signIns = 0 /\ userFaults = 0

UserFault == userFaults < MaxUserFaults /\ userFaults' = userFaults + 1

ByClerkId(i) == {e \in Addresses : users[e].known /\ users[e].clerk = i}
ByGoogleId(i) == {e \in Addresses : users[e].known /\ users[e].google = i}

ClerkIdUnique  == indexes \cap {"user_clerk_id_unique", "clerkId_1"} # {}
GoogleIdUnique == indexes \cap {"user_google_id_unique", "googleId_1"} # {}

\* The indexes let user e have these ids. googleId_1 is not sparse: under it
\* only one user may be without a Google id.
Permitted(e, clerk, google) ==
  /\ ClerkIdUnique /\ clerk # NoOne => ByClerkId(clerk) \subseteq {e}
  /\ GoogleIdUnique /\ google # NoOne => ByGoogleId(google) \subseteq {e}
  /\ "googleId_1" \in indexes /\ google = NoOne => ByGoogleId(NoOne) \subseteq {e}

SignInOnly == UNCHANGED <<indexes, migration, emailOf, moved, legacy, signIns, userFaults>>
Goes(c, at)      == visit' = [visit EXCEPT ![c].at = at]
GoesFor(c, at, e) == visit' = [visit EXCEPT ![c] = [@ EXCEPT !.at = at, !.e = e]]
ServedWith(c, e) == GoesFor(c, "served", e)
OnlyGoes         == SignInOnly /\ UNCHANGED <<users, welcome>>

-----------------------------------------------------------------------------
(* findOrCreate *)

\* A verified session; a linked identity is served at once.
FindOrCreate(c, i) ==
  /\ visit[c].at \in Ended /\ signIns < MaxSignIns
  /\ signIns' = signIns + 1
  /\ IF ByClerkId(i) = {}
       THEN visit' = [visit EXCEPT ![c] = [Nothing EXCEPT !.at = "fetching", !.i = i]]
       ELSE \E e \in ByClerkId(i) :
              visit' = [visit EXCEPT ![c] = [Nothing EXCEPT !.at = "served", !.i = i, !.e = e]]
  /\ UNCHANGED <<users, indexes, migration, emailOf, moved, legacy, welcome, userFaults>>

\* The identity is fetched from Clerk, then the owner of its e-mail is looked up.
FetchClerkUser(c) ==
  LET e == emailOf[visit[c].i] IN
  /\ visit[c].at = "fetching"
  /\ visit' = [visit EXCEPT ![c] = [@ EXCEPT !.e = e, !.seen = users[e].clerk,
       !.at = IF e # NoEmail /\ users[e].known THEN "linking" ELSE "creating"]]
  /\ OnlyGoes

LinkMatches_Any(e, i) == TRUE
LinkMatches(e, i) == users[e].clerk \in {NoOne, i}

\* linkEmailOwner: refused when the owner read is another identity's; else a
\* conditional update, since another identity may have come first.
LinkEmailOwner(c) ==
  LET v == visit[c] IN
  /\ v.at = "linking"
  /\ IF v.seen \notin {NoOne, v.i} THEN Goes(c, "conflict") /\ UNCHANGED users
     ELSE IF ~LinkMatches(v.e, v.i) THEN Goes(c, "looking") /\ UNCHANGED users
     ELSE IF Permitted(v.e, v.i, users[v.e].google)
       THEN users' = [users EXCEPT ![v.e].clerk = v.i] /\ ServedWith(c, v.e)
       ELSE Goes(c, "error") /\ UNCHANGED users
  /\ SignInOnly /\ UNCHANGED welcome

FindLinkWinner(c) ==
  /\ visit[c].at = "looking"
  /\ IF ByClerkId(visit[c].i) = {} THEN Goes(c, "conflict")
     ELSE \E e \in ByClerkId(visit[c].i) : ServedWith(c, e)
  /\ OnlyGoes

\* The upsert by clerkId; a new user gets a welcome e-mail. A unique index that
\* is in the way tells of a race.
CreateUser(c) ==
  LET v == visit[c] IN
  /\ v.at = "creating"
  /\ IF ByClerkId(v.i) # {}
       THEN (\E e \in ByClerkId(v.i) : ServedWith(c, e)) /\ UNCHANGED <<users, welcome>>
     ELSE IF ~users[v.e].known /\ Permitted(v.e, v.i, NoOne)
       THEN /\ users' = [users EXCEPT ![v.e] =
                 [known |-> TRUE, clerk |-> v.i, google |-> NoOne]]
            /\ welcome' = welcome \cup ({v.e} \ {NoEmail})
            /\ ServedWith(c, v.e)
       ELSE Goes(c, "racing") /\ UNCHANGED <<users, welcome>>
  /\ SignInOnly

EmailWinner(e) == e # NoEmail /\ users[e].known

ResolveDuplicateRace(c) ==
  LET v == visit[c] IN
  /\ v.at = "racing"
  /\ IF ByClerkId(v.i) # {} THEN \E e \in ByClerkId(v.i) : ServedWith(c, e)
     ELSE IF EmailWinner(v.e)
       THEN visit' = [visit EXCEPT ![c] =
              [@ EXCEPT !.at = "linking", !.seen = users[v.e].clerk]]
       ELSE Goes(c, "error")
  /\ OnlyGoes
-----------------------------------------------------------------------------
(* validateGoogleUser *)

ValidateGoogleUser(c, g) ==
  /\ visit[c].at \in Ended /\ signIns < MaxSignIns
  /\ signIns' = signIns + 1
  /\ IF ByGoogleId(g) = {}
       THEN visit' = [visit EXCEPT ![c] = [Nothing EXCEPT !.at = "googleEmail", !.i = g]]
       ELSE \E e \in ByGoogleId(g) :
              visit' = [visit EXCEPT ![c] = [Nothing EXCEPT !.at = "served", !.i = g, !.e = e]]
  /\ UNCHANGED <<users, indexes, migration, emailOf, moved, legacy, welcome, userFaults>>

FindGoogleEmail(c) ==
  LET e == emailOf[visit[c].i] IN
  /\ visit[c].at = "googleEmail"
  /\ GoesFor(c, IF users[e].known THEN "googleLinking" ELSE "googleCreating", e)
  /\ OnlyGoes

\* user.save(): the Google id is written, whatever it was.
LinkGoogleId(c) ==
  LET v == visit[c] IN
  /\ v.at = "googleLinking"
  /\ IF Permitted(v.e, users[v.e].clerk, v.i)
       THEN users' = [users EXCEPT ![v.e].google = v.i] /\ ServedWith(c, v.e)
       ELSE Goes(c, "error") /\ UNCHANGED users
  /\ SignInOnly /\ UNCHANGED welcome

\* create() validates: an empty e-mail is refused, and a race is not resolved.
CreateGoogleUser(c) ==
  LET v == visit[c] IN
  /\ v.at = "googleCreating"
  /\ IF v.e # NoEmail /\ ~users[v.e].known /\ Permitted(v.e, NoOne, v.i)
       THEN /\ users' = [users EXCEPT ![v.e] =
                 [known |-> TRUE, clerk |-> NoOne, google |-> v.i]]
            /\ welcome' = welcome \cup {v.e}
            /\ ServedWith(c, v.e)
       ELSE Goes(c, "error") /\ UNCHANGED <<users, welcome>>
  /\ SignInOnly

\* An identity gets another primary e-mail.
EmailMoves(i, e) ==
  /\ emailOf[i] # e /\ UserFault
  /\ emailOf' = [emailOf EXCEPT ![i] = e]
  /\ moved' = moved \cup {i}
  /\ UNCHANGED <<users, indexes, migration, legacy, welcome, visit, signIns>>
-----------------------------------------------------------------------------
(* migrateUserIdentityIndexes *)

UsersAside == UNCHANGED <<users, emailOf, moved, legacy, welcome, visit, signIns>>

PlanMigration ==
  /\ migration.at = "idle" /\ indexes # DesiredIndexes
  /\ migration' = [at |-> "applying", create |-> DesiredIndexes \ indexes,
                   drop |-> indexes \cap LegacyIndexes]
  /\ UsersAside /\ UNCHANGED <<indexes, userFaults>>

\* Creating a unique index fails while two users share the id.
CanCreate(x) ==
  \A i \in Identities :
    \A e, f \in IF x = "user_clerk_id_unique" THEN ByClerkId(i) ELSE ByGoogleId(i) : e = f

CreateIndex(x) ==
  /\ x \in migration.create
  /\ IF CanCreate(x)
       THEN /\ indexes' = indexes \cup {x}
            /\ migration' = [migration EXCEPT !.create = @ \ {x}]
       ELSE migration' = AtRest /\ UNCHANGED indexes
  /\ UsersAside /\ UNCHANGED userFaults

MayDrop_Before(m) == TRUE
MayDrop(m) == m.create = {}

\* A legacy index goes once every new one is there; the last step verifies.
DropIndex(x) ==
  /\ x \in migration.drop /\ MayDrop(migration)
  /\ indexes' = indexes \ {x}
  /\ migration' = [migration EXCEPT !.drop = @ \ {x}]
  /\ UsersAside /\ UNCHANGED userFaults

MigrationEnds ==
  /\ migration.at = "applying"
  /\ \/ migration.create \cup migration.drop = {} /\ UNCHANGED userFaults
     \/ migration.create \cup migration.drop # {} /\ UserFault
  /\ migration' = AtRest
  /\ UsersAside /\ UNCHANGED indexes

UsersNext ==
  \/ \E c \in SignIns :
       \/ \E i \in ClerkIds : FindOrCreate(c, i)
       \/ FetchClerkUser(c) \/ LinkEmailOwner(c) \/ FindLinkWinner(c)
       \/ CreateUser(c) \/ ResolveDuplicateRace(c)
       \/ \E g \in GoogleIds : ValidateGoogleUser(c, g)
       \/ FindGoogleEmail(c) \/ LinkGoogleId(c) \/ CreateGoogleUser(c)
  \/ \E i \in Identities, e \in Addresses : EmailMoves(i, e)
  \/ PlanMigration \/ MigrationEnds
  \/ \E x \in DesiredIndexes : CreateIndex(x)
  \/ \E x \in LegacyIndexes : DropIndex(x)

UsersSpec == UsersInit /\ [][UsersNext]_userVars
-----------------------------------------------------------------------------
(* Properties *)

UsersTypeOK ==
  /\ users \in [Addresses -> UserDoc]
  /\ indexes \subseteq DesiredIndexes \cup LegacyIndexes
  /\ migration \in [at : {"idle", "applying"}, create : SUBSET DesiredIndexes,
                    drop : SUBSET LegacyIndexes]
  /\ emailOf \in [Identities -> Addresses]
  /\ moved \subseteq Identities /\ legacy \in BOOLEAN /\ welcome \subseteq Emails
  /\ visit \in [SignIns -> [at : Ended \cup Working, i : Identities \cup {NoOne},
                            e : Addresses, seen : ClerkIds \cup {NoOne}]]
  /\ signIns \in Nat /\ userFaults \in Nat

\* Whoever is served with a verified Clerk session is served as the user linked
\* to that identity, for as long as the session is used; and who is told that
\* the e-mail belongs to another identity is told the truth.
ServedAsSelf ==
  \A c \in SignIns :
    LET v == visit[c] IN
    v.i \in ClerkIds =>
      /\ v.at = "served" => users[v.e].clerk = v.i
      /\ v.at = "conflict" => users[v.e].clerk \notin {NoOne, v.i}

\* No identity is ever linked to two users, while the indexes that say so are
\* being replaced either.
IdentitiesUnique ==
  /\ \A i \in ClerkIds : \A e, f \in ByClerkId(i) : e = f
  /\ \A g \in GoogleIds : \A e, f \in ByGoogleId(g) : e = f

\* Racing first requests all end well: a Clerk identity with an e-mail that has
\* not changed is refused without a conflict only under the legacy indexes.
RacesResolve ==
  \A c \in SignIns :
    LET v == visit[c] IN
    v.at = "error" /\ v.i \in ClerkIds => v.e = NoEmail \/ v.i \in moved \/ legacy

\* However a sign-in ends, it ends as it should.
SignInsResolve == ServedAsSelf /\ RacesResolve
=============================================================================
