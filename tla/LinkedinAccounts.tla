-------------------------- MODULE LinkedinAccounts --------------------------
(***************************************************************************)
(* The LinkedIn accounts of several users: the OAuth callback that connects  *)
(* or reconnects a person, the company pages connected with the token of     *)
(* that person, disconnecting, the cap on connected accounts, and the queue  *)
(* and worker that refresh avatar URLs by writing profileMetadata back       *)
(* whole. Every request is cut where auth.service.ts awaits.                 *)
(*                                                                           *)
(* A token is the serial number of the callback that obtained it.            *)
(***************************************************************************)
EXTENDS Naturals, Sequences, FiniteSets

CONSTANTS
  Users, Members, Orgs,  \* local users; LinkedIn members and companies
  Requests,              \* requests under way at once
  Cap,                   \* limits.connected_accounts of the users' tier
  MemberIndexed,         \* is the second index of connected-account.schema.ts in force?
  RefreshAttempts,       \* attempts of a refresh job
  MaxAccountCalls,       \* bound on the requests made
  MaxAccountFaults,      \* bound on failures, deaths and refused tokens
  Nobody

\* The tiers of tier-seeds.ts leave room for the user's own account.
ASSUME AccountsAssumption ==
  /\ IsFiniteSet(Requests) /\ IsFiniteSet(Orgs)
  /\ Nobody \notin Users \cup Members \cup Orgs
  /\ \A o \in Orgs : o \notin Nat
  /\ Cap \in Nat \ {0} /\ RefreshAttempts \in Nat \ {0}
  /\ MaxAccountCalls \in Nat /\ MaxAccountFaults \in Nat

\* The ConnectedAccount documents. metaMember is the member profileMetadata
\* names, gone its disconnectedAt, mark its avatarRefreshFailureReason, as the
\* token LinkedIn refused (0: none); avatar "due" is close to its expiry.
PersonDoc == [member : Members, metaMember : Members, gone : BOOLEAN, mark : Nat,
              token : Nat, active : BOOLEAN, avatar : {"none", "due", "fresh"}]
OrgDoc    == [known : BOOLEAN, active : BOOLEAN, token : Nat, by : Members \cup {Nobody}]

VARIABLES
  person,       \* [Users -> Seq(PersonDoc)], in the order findOne meets them
  org,          \* [Users -> [Orgs -> OrgDoc]]
  refused,      \* tokens LinkedIn no longer takes: revoked or expired
  asks,         \* [Requests -> what the request is doing]
  avatarJob,    \* [ids -> the refresh job of that person document]
  refresher,    \* what the refresh worker is doing
  overlapped,   \* history: has a request overlapped another one?
  reactivated,  \* history: accounts made active again, which the cap lets pass
  torn,         \* history: users whose pages were connected beside a disconnection
  stale,        \* history: documents a refresh had read before they were rewritten
  accountCalls, accountFaults

accountHistory == <<overlapped, reactivated, torn, stale>>
accountVars == <<person, org, refused, asks, avatarJob, refresher, accountHistory,
                 accountCalls, accountFaults>>

PersonIds(u) == {<<u, i>> : i \in DOMAIN person[u]}
OrgIds(u)    == {<<u, o>> : o \in {x \in Orgs : org[u][x].known}}
\* A user gets at most one document per request that inserts one.
AvatarIds    == Users \X (1..Cardinality(Requests))

NoOrg == [known |-> FALSE, active |-> FALSE, token |-> 0, by |-> Nobody]
\* u: the user; m, t: the member and the token; ids: the accounts still to
\* handle; o: the page at hand.
Quiet == [at |-> "idle", u |-> Nobody, m |-> Nobody, t |-> 0, ids |-> {}, o |-> Nobody]
NoRefresh == [st |-> "none", tries |-> 0]
Still == [at |-> "rest", id |-> <<Nobody, 0>>, doc |-> NoOrg, token |-> 0]

AccountsInit ==
  /\ person = [u \in Users |-> <<>>]
  /\ org = [u \in Users |-> [o \in Orgs |-> NoOrg]]
  /\ refused = {}
  /\ asks = [c \in Requests |-> Quiet]
  /\ avatarJob = [id \in AvatarIds |-> NoRefresh]
  /\ refresher = Still
  /\ overlapped = FALSE /\ reactivated = {} /\ torn = {} /\ stale = {}
  /\ accountCalls = 0 /\ accountFaults = 0

AccountFault == accountFaults < MaxAccountFaults /\ accountFaults' = accountFaults + 1

ActiveAccounts(u) == {id \in PersonIds(u) : person[u][id[2]].active}
                       \cup {id \in OrgIds(u) : org[u][id[2]].active}

\* The documents a refresh has a copy of become stale copies.
Rewritten(ids) == stale \cup (IF refresher.at = "rest" THEN {} ELSE {refresher.id} \cap ids)

\* A request begins; the others leave their mark on the history.
Begin(c, at, u, m, t, ids) ==
  /\ asks[c] = Quiet /\ accountCalls < MaxAccountCalls
  /\ accountCalls' = accountCalls + 1
  /\ asks' = [asks EXCEPT ![c] = [at |-> at, u |-> u, m |-> m, t |-> t,
                                  ids |-> ids, o |-> Nobody]]
  /\ overlapped' = (overlapped \/ \E d \in Requests : asks[d] # Quiet)
  /\ UNCHANGED <<person, org, refused, avatarJob, refresher, reactivated, torn, stale,
                 accountFaults>>

Go(c, at) == asks' = [asks EXCEPT ![c].at = at]
End(c)    == asks' = [asks EXCEPT ![c] = Quiet]
-----------------------------------------------------------------------------
(* linkedinCallback *)

\* getLinkedinPersonalAccountByMemberId, by externalId or by profileMetadata
OwnersOf_Active(m) == {u \in Users : \E i \in DOMAIN person[u] :
                person[u][i].active /\ m \in {person[u][i].member, person[u][i].metaMember}}
OwnersOf(m) == {u \in Users : \E i \in DOMAIN person[u] :
                  m \in {person[u][i].member, person[u][i].metaMember}}

\* The code is exchanged for a token, the member is read from LinkedIn, and the
\* account found for that member, one of them if there are several, is the user's.
LinkedinCallback(c, u, m) ==
  /\ OwnersOf(m) = {} \/ u \in OwnersOf(m)
  /\ Begin(c, "matching", u, m, accountCalls + 1, {})

\* LINKEDIN_ACCOUNT_MISMATCH
CallbackMatches(c) ==
  LET a == asks[c] IN
  /\ a.at = "matching"
  /\ IF person[a.u] # <<>> /\ person[a.u][1].active /\ person[a.u][1].member # a.m
       THEN End(c) ELSE Go(c, "saving")
  /\ UNCHANGED <<person, org, refused, avatarJob, refresher, accountHistory,
                 accountCalls, accountFaults>>

\* The unique indexes, for document i of user u getting member m.
Allowed(u, i, m) ==
  /\ \A j \in DOMAIN person[u] \ {i} : person[u][j].member # m
  /\ MemberIndexed => \A v \in Users \ {u} : \A j \in DOMAIN person[v] : person[v][j].member # m

SavedPerson_KeepsMark(old, m, t) == [member |-> m, metaMember |-> m, gone |-> FALSE,
  mark |-> old.mark, token |-> t, active |-> TRUE, avatar |-> "fresh"]
SavedPerson(old, m, t) == [member |-> m, metaMember |-> m, gone |-> FALSE, mark |-> 0,
                           token |-> t, active |-> TRUE, avatar |-> "fresh"]

\* findOneAndUpdate with upsert: the first document is rewritten; when there is
\* none, the insertion is a step of its own, and two may insert.
CallbackSaves(c) ==
  LET a == asks[c] IN
  /\ a.at = "saving"
  /\ IF person[a.u] = <<>> THEN Go(c, "inserting") /\ UNCHANGED <<person, reactivated, stale>>
     ELSE IF ~Allowed(a.u, 1, a.m) THEN End(c) /\ UNCHANGED <<person, reactivated, stale>>
     ELSE /\ person' = [person EXCEPT ![a.u][1] = SavedPerson(@, a.m, a.t)]
          /\ reactivated' = reactivated \cup ({<<a.u, 1>>} \ ActiveAccounts(a.u))
          /\ stale' = Rewritten({<<a.u, 1>>})
          /\ Go(c, "sharing")
  /\ UNCHANGED <<org, refused, avatarJob, refresher, overlapped, torn, accountCalls,
                 accountFaults>>

CallbackInserts(c) ==
  LET a == asks[c] IN
  /\ a.at = "inserting"
  /\ IF Allowed(a.u, 0, a.m)
       THEN /\ person' = [person EXCEPT ![a.u] =
                 Append(@, SavedPerson([mark |-> 0], a.m, a.t))]
            /\ Go(c, "sharing")
       ELSE End(c) /\ UNCHANGED person
  /\ UNCHANGED <<org, refused, avatarJob, refresher, accountHistory, accountCalls,
                 accountFaults>>

\* updateMany: the user's pages get the new token, disconnected ones too.
CallbackShares(c) ==
  LET a == asks[c] IN
  /\ a.at = "sharing"
  /\ org' = [org EXCEPT ![a.u] = [o \in Orgs |->
       IF @[o].known THEN [@[o] EXCEPT !.token = a.t, !.by = a.m] ELSE @[o]]]
  /\ End(c)
  /\ UNCHANGED <<person, refused, avatarJob, refresher, accountHistory, accountCalls,
                 accountFaults>>
-----------------------------------------------------------------------------
(* connectLinkedinOrganizations *)

Usable(u) == person[u] # <<>> /\ person[u][1].active /\ person[u][1].token # 0

\* assertCompanyPagesAccess and the list of pages, asked of LinkedIn
GetLinkedinOrganizations(u) == Cap > 1 /\ Usable(u) /\ person[u][1].token \notin refused

ConnectLinkedinOrganizations(c, u, os) ==
  /\ os # {} /\ GetLinkedinOrganizations(u)
  /\ Begin(c, "copying", u, Nobody, 0, os)


\* The personal account is read again, for its token.
ConnectCopies(c) ==
  LET a == asks[c] IN
  /\ a.at = "copying"
  /\ IF Usable(a.u)
       THEN asks' = [asks EXCEPT ![c] =
              [@ EXCEPT !.at = "checking", !.t = person[a.u][1].token,
                        !.m = person[a.u][1].metaMember]]
       ELSE End(c)
  /\ UNCHANGED <<person, org, refused, avatarJob, refresher, accountHistory,
                 accountCalls, accountFaults>>

HasCapacity_OneMore(u) == Cardinality(ActiveAccounts(u)) <= Cap
HasCapacity(u) == Cardinality(ActiveAccounts(u)) < Cap

\* The next page: it is new or known, and a new one needs room under the cap.
ConnectChecks(c, o) ==
  LET a == asks[c] IN
  /\ a.at = "checking" /\ o \in a.ids
  /\ IF org[a.u][o].known \/ HasCapacity(a.u)
       THEN asks' = [asks EXCEPT ![c] = [@ EXCEPT !.at = "storing", !.o = o]]
       ELSE End(c)
  /\ UNCHANGED <<person, org, refused, avatarJob, refresher, accountHistory,
                 accountCalls, accountFaults>>

ConnectStores(c) ==
  LET a == asks[c]
      left == a.ids \ {a.o} IN
  /\ a.at = "storing"
  /\ org' = [org EXCEPT ![a.u][a.o] =
       [known |-> TRUE, active |-> TRUE, token |-> a.t, by |-> a.m]]
  /\ reactivated' = reactivated \cup ({<<a.u, a.o>>} \cap (OrgIds(a.u) \ ActiveAccounts(a.u)))
  /\ torn' = torn \cup {u \in {a.u} : \E d \in Requests :
                          asks[d].at = "deactivating" /\ asks[d].u = u}
  /\ IF left = {} THEN End(c)
     ELSE asks' = [asks EXCEPT ![c] = [@ EXCEPT !.at = "checking", !.ids = left]]
  /\ UNCHANGED <<person, refused, avatarJob, refresher, overlapped, stale, accountCalls,
                 accountFaults>>
-----------------------------------------------------------------------------
(* disconnectConnectedAccount; the posts it cancels are in PostPublishing *)

\* Disconnecting a person takes the pages with it.
Cascade_Alone(u, id) == {id}
Cascade(u, id) == IF id \in PersonIds(u) THEN {id} \cup OrgIds(u) ELSE {id}

DisconnectConnectedAccount(c, u, id) ==
  /\ id \in PersonIds(u) \cup OrgIds(u)
  /\ Begin(c, "deactivating", u, Nobody, 0, Cascade(u, id))

Deactivate(c) ==
  LET a == asks[c] IN
  /\ a.at = "deactivating"
  /\ person' = [person EXCEPT ![a.u] = [i \in DOMAIN @ |-> IF <<a.u, i>> \in a.ids
       THEN [@[i] EXCEPT !.active = FALSE, !.token = 0, !.gone = TRUE] ELSE @[i]]]
  /\ org' = [org EXCEPT ![a.u] = [o \in Orgs |-> IF <<a.u, o>> \in a.ids
       THEN [@[o] EXCEPT !.active = FALSE, !.token = 0] ELSE @[o]]]
  /\ stale' = Rewritten(a.ids)
  /\ torn' = torn \cup {u \in {a.u} : \E d \in Requests :
                          asks[d].at \in {"checking", "storing"} /\ asks[d].u = u}
  /\ End(c)
  /\ UNCHANGED <<refused, avatarJob, refresher, overlapped, reactivated, accountCalls,
                 accountFaults>>

\* A request dies between two awaits; LinkedIn stops taking a token.
RequestEnds(c) ==
  /\ asks[c] # Quiet /\ AccountFault
  /\ End(c)
  /\ UNCHANGED <<person, org, refused, avatarJob, refresher, accountHistory, accountCalls>>

TokenRefused(t) ==
  /\ AccountFault
  /\ refused' = refused \cup {t}
  /\ UNCHANGED <<person, org, asks, avatarJob, refresher, accountHistory, accountCalls>>
-----------------------------------------------------------------------------
(* Avatars *)

RequestsAside == UNCHANGED <<org, refused, asks, overlapped, reactivated, torn, stale,
                             accountCalls>>

AvatarAges(u, i) ==
  /\ person[u][i].avatar = "fresh"
  /\ person' = [person EXCEPT ![u][i].avatar = "due"]
  /\ RequestsAside /\ UNCHANGED <<avatarJob, refresher, accountFaults>>

\* "Permanent failure recorded - user must reconnect LinkedIn to clear this."
ShouldEnqueue(d) == d.active /\ d.mark = 0 /\ d.avatar \in {"none", "due"}

\* getConnectedAccounts: a job per account that needs one, under the id of the
\* account. BullMQ ignores an add whose id it has, and failed jobs are kept.
GetConnectedAccounts(u) ==
  LET due == {<<u, i>> : i \in {j \in DOMAIN person[u] : ShouldEnqueue(person[u][j])}} IN
  /\ \E id \in due : avatarJob[id].st = "none"
  /\ avatarJob' = [id \in AvatarIds |->
       IF id \in due /\ avatarJob[id].st = "none" THEN [st |-> "waiting", tries |-> 0]
       ELSE avatarJob[id]]
  /\ RequestsAside /\ UNCHANGED <<person, refresher, accountFaults>>

JobEnds(id) == avatarJob' = [avatarJob EXCEPT ![id] = NoRefresh] /\ refresher' = Still

\* refreshLinkedinAvatarForAccount reads the account and its guards decide.
RefreshStarts(id) ==
  LET d == person[id[1]][id[2]] IN
  /\ refresher.at = "rest" /\ avatarJob[id].st = "waiting"
  /\ IF d.active /\ d.token # 0
       THEN /\ avatarJob' = [avatarJob EXCEPT ![id].st = "active"]
            /\ refresher' = [at |-> "asking", id |-> id, doc |-> d, token |-> d.token]
       ELSE JobEnds(id)
  /\ RequestsAside /\ UNCHANGED <<person, accountFaults>>

\* The metadata a refresh saves is the one it read, the failure taken out.
RefreshWrites ==
  LET r == refresher IN
  /\ r.at = "asking" /\ r.token \notin refused
  /\ person' = [person EXCEPT ![r.id[1]][r.id[2]] =
       [@ EXCEPT !.avatar = "fresh", !.mark = 0,
                 !.metaMember = r.doc.metaMember, !.gone = r.doc.gone]]
  /\ JobEnds(r.id)
  /\ RequestsAside /\ UNCHANGED accountFaults

\* 401 or 403, or a token that cannot be decrypted: markAvatarRefreshAuthFailure
\* reads the account again, then saves its metadata with the failure.
RefreshRefused ==
  LET r == refresher IN
  /\ r.at = "asking"
  /\ IF r.token \in refused THEN UNCHANGED accountFaults ELSE AccountFault
  /\ refresher' = [r EXCEPT !.at = "marking", !.doc = person[r.id[1]][r.id[2]]]
  /\ RequestsAside /\ UNCHANGED <<person, avatarJob>>

RefreshMarks ==
  LET r == refresher IN
  /\ r.at = "marking"
  /\ person' = [person EXCEPT ![r.id[1]][r.id[2]] =
       [@ EXCEPT !.avatar = "none", !.mark = r.token,
                 !.metaMember = r.doc.metaMember, !.gone = r.doc.gone]]
  /\ JobEnds(r.id)
  /\ RequestsAside /\ UNCHANGED accountFaults

\* A transient failure: the job is tried again, and kept when its attempts are
\* used up. A worker that dies leaves the job to be handed out again.
RefreshFails ==
  LET r == refresher IN
  /\ r.at = "asking" /\ AccountFault
  /\ avatarJob' = [avatarJob EXCEPT ![r.id] =
       [st |-> IF @.tries + 1 < RefreshAttempts THEN "waiting" ELSE "failed",
        tries |-> @.tries + 1]]
  /\ refresher' = Still
  /\ RequestsAside /\ UNCHANGED person

RefreshDies ==
  /\ refresher.at # "rest" /\ AccountFault
  /\ avatarJob' = [avatarJob EXCEPT ![refresher.id].st = "waiting"]
  /\ refresher' = Still
  /\ RequestsAside /\ UNCHANGED person

AccountsNext ==
  \/ \E c \in Requests :
       \/ \E u \in Users, m \in Members : LinkedinCallback(c, u, m)
       \/ CallbackMatches(c) \/ CallbackSaves(c) \/ CallbackInserts(c) \/ CallbackShares(c)
       \/ \E u \in Users, os \in SUBSET Orgs : ConnectLinkedinOrganizations(c, u, os)
       \/ ConnectCopies(c) \/ ConnectStores(c)
       \/ \E o \in Orgs : ConnectChecks(c, o)
       \/ \E u \in Users : \E id \in PersonIds(u) \cup OrgIds(u) :
            DisconnectConnectedAccount(c, u, id)
       \/ Deactivate(c) \/ RequestEnds(c)
  \/ \E t \in 1..accountCalls \ refused : TokenRefused(t)
  \/ \E u \in Users : GetConnectedAccounts(u) \/ \E i \in DOMAIN person[u] : AvatarAges(u, i)
  \/ \E id \in AvatarIds : RefreshStarts(id)
  \/ RefreshWrites \/ RefreshRefused \/ RefreshMarks \/ RefreshFails \/ RefreshDies

AccountsSpec == AccountsInit /\ [][AccountsNext]_accountVars
-----------------------------------------------------------------------------
(* Properties *)

AccountsTypeOK ==
  /\ \A u \in Users : person[u] \in Seq(PersonDoc) /\ Len(person[u]) <= Cardinality(Requests)
  /\ org \in [Users -> [Orgs -> OrgDoc]]
  /\ refused \subseteq 1..accountCalls
  /\ \A c \in Requests :
       /\ asks[c].at \in {"idle", "matching", "saving", "inserting", "sharing", "copying",
                          "checking", "storing", "deactivating"}
       /\ asks[c].t \in 0..accountCalls
  /\ avatarJob \in [AvatarIds -> [st : {"none", "waiting", "active", "failed"},
                                  tries : 0..RefreshAttempts]]
  /\ refresher.at \in {"rest", "asking", "marking"}
  /\ refresher.at # "rest" => avatarJob[refresher.id].st = "active"

\* A LinkedIn member is connected to one user, and a user is one member, as
\* long as requests do not overlap: connected once is owned for good, whether
\* the account is active or not (LINKEDIN_ACCOUNT_ALREADY_CONNECTED). An account
\* is found by its metadata too, and metadata a refresh wrote back over a newer
\* connection names a member that may be another user's by now.
OneOwner ==
  ~overlapped => /\ \A u \in Users : Len(person[u]) <= 1
                 /\ \A u, v \in Users : u # v =>
                      \A i \in DOMAIN person[u], j \in DOMAIN person[v] :
                        <<u, i>> \notin stale /\ <<v, j>> \notin stale =>
                          person[u][i].member # person[v][j].member

\* The cap is checked before an account is stored and not for known accounts:
\* apart from those made active again, each request beside another one can add
\* one account beyond it, and none when requests do not overlap.
CapOvershootBounded ==
  \A u \in Users :
    Cardinality(ActiveAccounts(u) \ reactivated) <=
      Cap + IF overlapped THEN Cardinality(Requests) - 1 ELSE 0

\* No company page stays active without the person whose token it uses, unless
\* it was being connected beside the disconnection.
PagesFollowPerson ==
  \A u \in Users \ torn :
    (\E o \in Orgs : org[u][o].active) => \E i \in DOMAIN person[u] : person[u][i].active

\* profileMetadata, which callbacks, disconnections and the refresh all write
\* whole or in part, agrees with the document: it names its member, says
\* whether it is disconnected, and a recorded failure is about the token in
\* use. Only a refresh that read the document before it was rewritten breaks it.
MetadataIsCurrent ==
  \A u \in Users : \A i \in DOMAIN person[u] :
    LET d == person[u][i] IN
    <<u, i>> \notin stale => /\ d.metaMember = d.member
                             /\ d.gone = ~d.active
                             /\ d.active /\ d.mark # 0 => d.mark = d.token
=============================================================================
