# Verification of linkgenserver

linkgenserver is the NestJS server of a product that generates LinkedIn content
(posts, polls, carousel documents) with a language model, keeps it as versions
of an artifact, and publishes it to its users' LinkedIn accounts, at once or on
schedule. This directory holds TLA+ models of its core, the TLC runs that check
them and the TLAPS proofs about them. The repository's code is under
`src/src/`; its design documents under `src/docs/`.

## 1. The system

### Processes and stores

Two kinds of process run the same code base: the **API** (HTTP handlers) and
the **worker** (`workflow/workers/workflow.worker.ts`), which starts one BullMQ
`Worker` per queue. They share

* **MongoDB**: `artifacts` (one document per family, its versions embedded),
  `workflowruns`, `posts`, `usages` (counters per user and billing period),
  `subscriptions`, `connectedaccounts`, `users`. No transaction is used; safety
  rests on single-document updates whose filter repeats a condition, on the
  `__v` check of Mongoose's `save()`, and on unique indexes;
* **Redis**: the BullMQ queues `workflow`, `post-schedule`, `media-upload`,
  `linkedin-avatar-refresh`, `email`, and one stream per generation run;
* **external services**: LinkedIn, the language-model provider, search, object
  storage, Clerk (sign-in), Paddle (payment).

### Components, their state and operations

| component | state it keeps | operations | what makes it correct | status |
|---|---|---|---|---|
| Artifact store (`artifact.service.ts`) | family: `currentVersion`, versions with status GENERATING / READY / FAILED and content, `pinRevision`, `deletedAt`; PDFs in object storage | create, append a refine version, fill, fail, edit, delete, list | only the head generates; a version is appended once; an edit never changes what a scheduled post pins; a READY deck has its PDF; a page hides nothing that stood still | modelled |
| Generation launch (`artifact-generation.service.ts`) | none; writes artifact, run record, job | `launchInitialRun`, `launchRefineRun` | two refines never both append; a lost link of the chain is visible | modelled |
| Engine, steps, worker | attempt in memory; BullMQ job (`attemptsMade`, stalled count) | pick up, step, fail attempt, complete, commit, announce, terminal-failure handler; crash, stalled job | a run is decided once; the failure handler never races an attempt; every run ends | modelled |
| Run records | status, credits used, progress | create, complete, fail | agrees with what the client is told | partly |
| Agent runner and credit meter | a conversation of one call; credits of the attempt | research loop, draft, repair, rendering, commit | ends within its caps; what is billed is what was used; one debit per successful run | modelled |
| Run event stream and relay | Redis stream with expiry; a number per attempt's event; a cursor per connection | emit, write, expire, connect, live and terminal relay, reconnect | no gap, no repeat, the end is told and is true | modelled |
| Posts and publishing (`post.service.ts`) | status, pinned version, scheduled flag; delayed job; what is on LinkedIn | create, update, schedule, unschedule, publish now, publish when due, delete, list | one LinkedIn post per post; job and status agree; quota; pinned versions stay | modelled |
| Post media upload (`linkedin-media.service.ts`) | media entries PENDING / UPLOADING / READY / FAILED; objects; upload jobs | presign, complete, edit, remove, upload job, terminal handler | the worker never revives removed media; a confirmed upload settles; the object is kept as long as it is needed | modelled |
| Feature gating and usage | counters per period | assert, increment, dashboard | a check and the dashboard agree; limits are overshot only as far as the requests in flight | modelled |
| Payment and subscriptions | subscription status and period, webhook keys | webhook, cancel, summary | an answered event is applied; the user is served what is paid for | modelled |
| Connected accounts, avatar refresh | account, token, metadata, refresh job | connect person and pages, disconnect, delete, refresh | one owner per member; the cap; no page without its person; metadata is current | modelled |
| Clerk sign-in and provisioning | users, their unique indexes | provision on first request, Google sign-in, index migration | one user per identity; a lost race is resolved | modelled |
| Language-model layer, renderer, object storage, users and tiers | little of their own | one call each | their failures reach the run, the objects they keep | partly |
| Onboarding, mail, prototypes, feedback, other scripts | little or none of their own | | | not modelled |

PROJECT.json gives every component its source files, modules and the reason
for what is left out.

### How they interact

    request --(1) append version--> artifact          worker --fill / fail--> artifact
            --(2) create run------> run record               --complete/fail-> run record
            --(3) add job---------> workflow queue --job-->  --debit---------> usage
                                                             --events--------> stream --relay--> browser
    request --schedule--> schedule queue --due--> worker --publish--> LinkedIn
            --pin-------> artifact (pinRevision) <--edit-- request
            --count-----> usage

    browser --PUT--> object storage --upload job--> worker --asset--> LinkedIn
    Paddle --webhook--> subscription --read by--> checks, dashboard, plan page
    Clerk / Google identity --first request--> user <--owner-- connected accounts
    avatar URL near its expiry --refresh job--> worker --> profileMetadata

(1), (2) and (3) are three awaits of one handler with nothing to undo them.
Scheduling touches five things in a row: pin revision, old job, new job, post,
usage counter. Publishing sends to LinkedIn and then saves.

### What is hard here

* **Interleavings**: every handler loads a document, awaits, and saves. Two
  requests for one post or family, or a request and the worker, interleave at
  each await.
* **Retries**: a job's attempt re-runs everything from the first step, with
  effects of earlier attempts in place.
* **Crashes**: a worker may die between any two awaits. BullMQ finds its job
  stalled and re-runs it, at most `maxStalledCount` = 1 times; what was only in
  memory (a terminal-failure handler, unwritten events) is gone.
* **Partial failure**: a write may fail, or succeed with its answer lost, while
  the code around it goes on.
* **Stale reads**: the billing period is looked up again when a schedule is
  counted; the relay reads the record before the stream; the editor checks the
  pins before it writes; a check reads tier, period and counter one after the
  other; a page of a list is a query of its own.
* **At least once**: Paddle repeats a webhook until it is answered, BullMQ
  repeats a stalled job, a browser repeats a request.

Each such place is in PROJECT.json under `hazards`, with the properties that
would catch it going wrong.

## 2. The modules

| module | models | rests on |
|---|---|---|
| `ArtifactStore` | the writes of a family document and their conditions | |
| `ArtifactRun` | launch, queue, attempts, debit, failure handler, crashes | `ArtifactStore` |
| `RunContract` | what a run promises, without queue, attempts or processes | |
| `ArtifactRunInv`, `ArtifactRun_proofs` | the inductive invariant of `ArtifactRun`; theorems; `ArtifactRun` implements `RunContract` | `ArtifactRun`, `RunContract` |
| `AgentRun` | inside an attempt: turns, searches, repair, rendering, and what each costs | |
| `RunEvents` | emitter, Redis stream, relay, reconnecting browser | |
| `RunEvents_proofs` | its inductive invariant; theorems | `RunEvents` |
| `PostPublishing` | posts, the schedule queue, quota, disconnection, edits | `ArtifactStore` |
| `PostPublishing_proofs` | its inductive invariant; theorems | `PostPublishing` |
| `PostClaims` | a sentence of the documents the code does not keep | `PostPublishing` |
| `MediaUpload` | the media of a post from the presigned slot to the LinkedIn asset | |
| `MediaUpload_proofs` | its inductive invariant; theorems | `MediaUpload` |
| `Billing` | Paddle's subscription, its webhooks, the record here | |
| `FeatureGating` | the checks and the dashboard, beside moving subscriptions | `Billing` |
| `LinkedinAccounts` | connected persons and pages, the cap, the avatar refresh | |
| `LinkedinAccounts_proofs` | its inductive invariant; theorems | `LinkedinAccounts` |
| `UserProvisioning` | sign-in, first requests, the index migration | |
| `UserProvisioning_proofs` | its inductive invariant; theorems | `UserProvisioning` |
| `Paging` | reading a changing list page by page | |
| `Library`, `Feed` | the list of artifacts and their PDFs; the list of posts | `Paging` |
| `MCArtifactRun`, `MCPostPublishing`, `MCMediaUpload` | model values and symmetry | the module named |
| `MCServices` | sign-in, accounts, billing, gating and metered runs in one run | those modules |
| `MCServices_proofs` | inductive invariants of `Billing`, `FeatureGating`, `AgentRun` and of the composition; theorems | `MCServices`, the proofs of users and accounts |
| `MCLibrary` | the two lists and the PDFs in one run | `Library`, `Feed` |
| `MCLibrary_proofs` | inductive invariants of `Paging`, `Library`, `Feed` and of the composition; theorems | `MCLibrary` |

Definitions keep the names of the functions they translate; PROJECT.json maps
each to its lines. A definition `X_How` beside a definition `X` is a small
deviation a programmer could make (a dropped guard, a missing reset, a wrong
order). It is used by no specification: putting it in place of `X` makes a
property fail, which shows that the property says something. PROJECT.json lists
them under `mutants`.

### ArtifactStore and ArtifactRun

One family with up to `MaxVersions` versions. A version is appended by one
request and gets at most one run, so version, run record and job share an
index. `vstatus`, `vcontent`, `currentVersion`, `pinRevision` and `deletedAt`
are the document; each write operator has as guard the filter of its
`updateOne`, and a write whose filter does not match changes nothing and
throws, as in the code.

A request is cut at its awaits: `ReadForRefine` reads the head, `WriteRefine`
appends under the condition that the head is still the one read and settled,
`CreateRun`, `AddArtifactRunJob`; `LaunchFails` breaks the chain after any of
them. An attempt is cut at its awaits as well: guards, each step of
`buildWorkflow`'s list, `complete`, `commit`, the announcement, the return to
the queue. `FailAttempt` is the throw, the queue's decision to retry and
`onFailed`'s own decision, which are two functions in two libraries that must
agree. The failure handler's three isolated writes are three actions. A
`Crash` takes the attempt and the handler with it; `Stalled` puts the job back.

Data is cut to what the properties tell apart: content is *empty*, *generated*
or *edited*; a metered call costs a value of `Costs`; the outcome of a step is
success, a retryable or a terminal error.

`RunContract` states the promise: a run is accepted, then decided once;
a success has filled the version; a debit comes after a success, at most once;
one terminal event tells the decision. `KeepsContract` is the refinement, with
*failed* meaning the queue has given the job up and *succeeded* a COMPLETED
record before that.

### PostPublishing

`post` is the Mongo document, `act[a].doc` the copy a request or worker loaded.
`Save` is `document.save()`: only the modified fields are written, it fails if
the document is gone, and if an array was modified it fails unless `__v` is
the one loaded. `job` is the schedule queue's job, whose id is the post's, so a
kept failed job swallows a new one. `live` counts what is on LinkedIn.
`counted[t]` is the set of posts counted in period t.

History variables, which no guard reads: `overlaps[p]` counts the disturbances
of p (two requests, or a request and the worker, on it at the same time; a
death; an answer or save lost), `returned` records that an earlier billing
period came back, `act[c].ps` what the editor found in flight.
`Undisturbed(p)` means `overlaps[p] = 0`; `Quiet(p)` that nobody works on it.

Abstractions: posts carry no uploaded media, which are in `MediaUpload`; reads
that follow each other without a write of the same handler in between
(`ScheduleChecks`, `PublishChecks`) are one step; a confirmation e-mail changes
nothing modelled; LinkedIn is a counter, its DELETE idempotent.

### RunEvents

`emitter` numbers the emitters: each attempt builds one, a failed job keeps the
one of its last attempt for `run.failed`. `tail[e]` is the promise chain: emitted,
numbered, not yet written. `log` holds every entry ever written, its positions
are the stream ids, and the first `gone` of them have expired. The relay's
request is cut at its awaits: reading the record, each XREAD, XLEN. A batch and
its arrival in the browser are one step that may lose any suffix of the batch
with the connection; nobody but the browser can tell when exactly frames
arrive. A page closes its `EventSource` on a terminal event or forgets to.
Left out: the trimming beyond 1000 entries and ioredis resending a command
after a reconnection.

### MediaUpload

One post with the slots `MediaIds`. A slot is *free*, *taken* by a presigned
URL, *open* once the browser may put its object, or *expired*; `r2` is the set
of objects. A request loads the post into `act[c].doc`, awaits R2 or the queue,
and saves; a save that touched the array replaces it whole and is refused when
`__v` moved on. The worker updates single entries with `arrayFilters`, which
does not move `__v`: that is where its write and a request's can pass each
other. `job[i]` is the upload job of a confirmed batch, filed under one of its
items, with attempts, stalls and the failed handler. `undone` (entries a
request saved back to UPLOADING over a settled status) and `forgotten` (entries
nobody is left to settle) are histories, as is `overlaps`.

### Billing and FeatureGating

`paddle` is the subscription at Paddle; each change appends its snapshot to
`events`. A handler files the event id, processes, and removes the id again if
that failed. `Billing` has the four places that decide what a user is entitled
to, as four operators (`ResolveEntitlement`, `ResolveUsagePeriod`,
`GetEntitlementTier`, `GetBillingSummary`), since in the code they are four
copies of one rule. `FeatureGating` reads them at different moments: a check
awaits tier, period and counter one after the other while webhooks rewrite the
record and periods end. Calendar months, used without a subscription, turn over
together with billing periods, and both are numbered.

### LinkedinAccounts

`person[u]` is the sequence of person documents of a local user (more than one
only after a race), `org[u]` the pages. A token is the serial number of the
callback that obtained it, which tells tokens of different authorisations
apart. `MemberIndexed` says whether the second index of
`connected-account.schema.ts` is in force: its `partialFilterExpression`
contains `$ne`, which MongoDB does not accept there, so the runs set it to
FALSE. Overlap, reactivation, a page connected beside a disconnection and a
refresh over a rewritten document are histories.

### UserProvisioning

A user document is named by its e-mail, whose unique index is never touched and
whose value no code changes. `visit[c]` is a request between its awaits; `seen`
is the Clerk id of the e-mail's owner as it was read, because `linkEmailOwner`
decides on the copy and writes under a condition. The migration creates the new
unique indexes one by one, drops the legacy ones only then, and may die between
any two steps. The welcome e-mail is best effort.

### AgentRun

The research loop takes turns, each with a wave of parallel searches that fail
or succeed one by one, within the caps; then a turn without tools, the draft, at
most one repair, and for a document the rendering. Every answer of a provider
adds to `credits[r]`; `got[r]` records what providers gave, independently of the
meter. A tool turn whose arguments do not parse is not billed, and `got` does not count
it either: the code throws before it reads what the turn cost.

### Library, Feed and Paging

`Paging` has one client that reads pages with `skip` and `limit` while the list
changes; it counts what left (`left`) and what came to the front (`came`)
meanwhile. A list is a set of items with ranks, and the place of an item is how
many of the list have no larger rank; a page is the items whose places it
covers. `Library` ranks artifacts by their last update (`shelf`, 1 the latest:
a write puts its artifact first and moves back those that were before it),
`Feed` posts by creation. `Library` also has the PDF of a document version, stored under a key
that the attempts of a run share.

## 3. The runs

| run | bounds | states | what it checks |
|---|---|---|---|
| `run_safety` | 2 requests, 1 worker, 2 versions, 2 attempts, 1 lost write, 2 crashes | 1.8 M | the safety of launches, attempts, debits and failures |
| `run_contract` | 2 requests, 2 workers, 2 versions, a researched DOCUMENT (all five steps), 1 lost write, no crash | 51 k | `KeepsContract` |
| `run_settles` | 1 request, 1 worker, 2 crashes, fair | 214 k | `RunSettles` |
| `post_safety` | 1 post, 2 requests, 1 worker, 2 versions, 2 calls, 1 fault | 1.8 M | what LinkedIn has, what the queue holds, what is counted and pinned agree with the post |
| `post_quota` | 3 posts, 2 requests, 2 periods, quota 1 | 1.0 M | `QuotaOvershootBounded` |
| `post_fires` | 2 posts, 1 request, 1 worker, 2 versions, fair | 0.3 M | `ScheduledFires` |
| `run_events` | 2 attempts, batch 2, 1 trouble (lost stream or record write, crash), 1 cut, fair | 1.0 M | the stream, what the browser sees, and that it stops |
| `media_safety` | 2 images, 2 requests, 1 worker, 2 attempts, 3 calls, 2 failures or deaths | 254 k | no request loses or revives another's media; what is shared is there; no object is deleted too soon |
| `media_settles` | as above with 1 request, fair | 165 k | `UploadSettles` |
| `services` | two of everything; 3 sign-ins, 3 account calls, 4 webhook events, 2 checks, 2 runs; 1 fault each; one part moves | 851 k | who is served, who owns an account, what is paid for, what is spent |
| `library` | 3 posts or 2 artifacts read in pages of 1 while 5 or 3 calls are made; or 1 document, 2 versions, 2 attempts, 4 calls, 1 fault | 297 k | `DeckShown`, `PagesCover` |
| `claim_scheduled_publishes` | 1 post, 1 request, 1 worker, fair | | a sentence of the documents that fails (section 5) |

**Why these bounds suffice for the cases of interest.** Two versions give a
refine race and a stale run; two attempts a retry and a last attempt; two
crashes exceed the stalled budget of one, so both the re-run and the giving up
happen; two requests are what every race in the code is between, and three
posts exceed the quota of one by more than the two requests can overshoot. A
batch of two splits the stream in the middle and puts a terminal event inside a
batch. Two media make an array whose other entry can be lost, and three calls
allow confirming, removing and publishing one post. Three sign-ins are a race
of two and a later request that sees its outcome. Four webhook events are a
subscription, a change, a renewal and an end, delivered in any order and twice.
Page size one puts a page border between any two items. Periods, posts,
requests, workers, media and identities that do not differ are interchangeable,
which the safety runs use as symmetry; liveness runs use none. In `services` and
`library` one part moves in a behaviour and the others rest: no step of one part
reads what another writes (the checks of `FeatureGating` read the subscription,
and have it move themselves), so an interleaving reaches nothing that the parts
do not reach alone.
Deadlock is not checked: a system in which every request and job has ended
rightly stops.

### The properties

*Generation* (`ArtifactRun`): `OnlyHeadGenerates` (racing refines),
`FailureIsFinal` (no attempt runs or will run once a failure is handled),
`DebitedOncePerHandout`, `SettledVersionsStay`, `RunSettles`, and the refinement
`KeepsContract`.

*Spending* (`AgentRun`): `BilledAsUsed`, `OvershootBounded` (the balance is
checked and not reserved).

*Events* (`RunEvents`): `NoGapNoRepeat`, `SeqFollowsStream`, `ToldIsRecorded`,
`ClientStops`.

*Posts* (`PostPublishing`): `DuplicatesBounded` (each duplicate on LinkedIn takes
a disturbance of its own), `JobsFollowStatus`, `ConfirmedPostsKeep`,
`EditsRespectPins`, `ScheduledIsCounted`, `QuotaOvershootBounded`,
`ScheduledFires`.

*Media* (`MediaUpload`): `EntriesKept`, `ShareHasItsMedia`, `ObjectKept`,
`UploadSettles`.

*Subscriptions and limits* (`Billing`, `FeatureGating`): `AnsweredIsApplied`,
`ServedAsPaid`, `AnswersAgree` (a check, the dashboard, the plan page and the
next debit look at one tier and one period).

*Accounts and users* (`LinkedinAccounts`, `UserProvisioning`): `OneOwner`,
`CapOvershootBounded`, `PagesFollowPerson`, `MetadataIsCurrent`;
`IdentitiesUnique`, `SignInsResolve`.

*Reading* (`Library`, `Paging`): `DeckShown`, `PagesCover`.

Several carry an exception, which is where the code gives no more:

* after a crash a finished run may be re-run and debited again
  (`DebitedOncePerHandout` counts hand-outs);
* the failure handler lives in the memory of the worker whose attempt failed: if
  that worker dies, the record stays RUNNING and the version GENERATING for
  good (`RunSettles`);
* a `complete` that fails on the last attempt makes the handler fail a version
  that is READY (`SettledVersionsStay` assumes no fault);
* a handler that saves over a post without repeating the status it read can undo
  a publication (`ConfirmedPostsKeep` assumes no overlap);
* a disconnection removes the jobs of its posts one after the other and throws
  at one the worker holds: posts whose jobs went before that stay SCHEDULED
  without a job (a disturbance of theirs in `JobsFollowStatus`);
* the quota check and the count may look at different periods; once a period has
  come back (a subscription ends within the month) the overshoot has no bound
  (`QuotaOvershootBounded`);
* every attempt numbers its events from 1, so the numbers are per attempt, not
  "Monotonic per-run" as `run-event.types.ts` says (`SeqFollowsStream`);
* a dropped terminal event leaves a connected browser waiting, and a page that
  does not close gets snapshots for ever once the stream has expired
  (`ClientStops`);
* a request that loaded the media before the worker settled an entry saves the
  array back with UPLOADING, and the job is over (`UploadSettles` excepts
  `undone` entries, and `forgotten` ones: a death after the last retry, a
  confirmation that died before its enqueue);
* an event whose processing dies with its key stored, or that fails after an
  overlapping delivery was answered as a duplicate, is dropped
  (`AnsweredIsApplied` excepts `lost`); events are applied in the order they
  arrive, so an older one may overwrite a newer one (`ServedAsPaid` excepts
  `late`);
* a check that overlaps a change of the subscription may use one record's tier
  with another's period (`AnswersAgree` excepts `overtaken` checks);
* two callbacks may connect one member twice or pass the cap together, and
  making a known account active again is not checked against the cap
  (`OneOwner`, `CapOvershootBounded`); a callback also finds an account by its
  metadata, and a refresh that writes back metadata of an earlier connection
  leaves a member findable under a user it no longer belongs to (`OneOwner`
  excepts `stale` documents); a page connected beside a disconnection
  stays active (`PagesFollowPerson` excepts `torn`); a refresh writes
  `profileMetadata` back whole over a callback that came meanwhile
  (`MetadataIsCurrent` excepts `stale`);
* an identity whose e-mail moved can meet another user's document, and under
  the legacy indexes `googleId_1` admits one user without a Google id only
  (`SignInsResolve` excepts both);
* overlapping attempts of one run share the key of the PDF, and an edit does
  not render it again (`DeckShown`).

### Fairness

Only what the processes do by themselves is fair: a live worker takes jobs,
runs the attempts and handlers it started (BullMQ's loop), those of the media
queue included; the stalled check and a job's delay are timers; the server
carries a request it has accepted to its end (an async function is resumed by
the event loop once its await settles); Redis answers; an `EventSource`
reconnects by itself. Users owe nothing: no request, refine, edit or delete is
fair, and neither is a fault, crash, expiry, cut or a change of period. Weak
fairness is enough everywhere: no fair action is disabled again and again by
others. The parts in `services` and `library` are checked for safety only.

## 4. The proofs

### ArtifactRun

`ArtifactRun_proofs` proves, for any sets of requests and workers and any
number of versions, attempts, stalls, faults and crashes, that every behaviour
of `Spec` satisfies `IInv`, and from it `TypeOK`, `OnlyHeadGenerates`,
`FailureIsFinal`, `DebitedOncePerHandout`, `FailedRunsAreFree` and the action
property `VersionAppendedOnce`. The last two are proved without a run of their
own. The assumptions are `MaxVersionsAssumption` and `RunAssumption`: the bounds
are naturals, at least one version and attempt, and `NoWorker` is no worker.

None of these properties is inductive by itself. `IInv` adds:

* `ExecutionInv`: an attempt has a place in the engine exactly while its job is
  active in a live worker. `FailureIsFinal` needs it to know that a failed job
  is not executing, and `FailureInv` that a failed job stays failed;
* `RequestInv`: a request between its append and its enqueue owns its version,
  so two requests never enqueue one job, and a job is added only once;
* `RefineInv` and `BeyondHeadInv`: a request about to append still finds the
  head settled if it is the one it read, and nothing exists beyond the head.
  `OnlyHeadGenerates` needs both: the append makes a new head, and the old one
  must have been settled;
* `DebitInv`: the debits of a run are at most its lost hand-outs, plus one only
  if the present hand-out has passed its commit. `DebitedOncePerHandout` and
  `FailedRunsAreFree` follow.

`Inductive` has one lemma per conjunct. Each splits `Next` into its actions;
lemmas named `...Frame` dispose of the actions that leave the conjunct's variables
alone.

### ArtifactRun implements RunContract

`ContractKept` proves `KeepsContract` step by step: if no worker may crash,
every behaviour of `ArtifactRun` is one of `RunContract` under the mapping of
section 2. Each action of the launch, the attempt, the failure handler and the
editor accepts, decides, fills, debits or tells one run, or changes nothing the
contract sees. That needs `IInv` and, on top of it,

* `RecordInv`: the record says how far the job has come, RUNNING until the
  attempt completes it. The outcome of a run is read from the job and the record,
  and `RecordInv` shows that it is decided by one step only;
* `FillInv`: an attempt past PERSIST_VERSION has left content, which stays. So
  the step that makes a run succeed finds its version filled;
* `TellInv`: nothing was told before the last step of the attempt or of the
  handler, so what is told is the first and only terminal event;
* `LostInv` and `LaunchInv`: without a crash no job stalls, and a request between
  its append and its enqueue has a version nobody has touched.

The debit "at most once, after the success" comes from the place of the commit
between `complete` and the announcement. With crashes the refinement is false,
as `DebitedOncePerHandout` shows, which is why the theorem assumes
`MaxCrashes = 0`; the run has the same bound. Lost writes are allowed.

`SettledStay` proves `SettledVersionsStay` from one more part, `UnsettledInv`:
as long as no write was lost and nobody died, a version that an attempt or the
handler may still write is GENERATING and empty. The unconditional writes of
`setVersionContent` and `failVersion` rest on that alone.

### UserProvisioning

`UserProvisioning_proofs` proves, for any sets of identities, e-mails and
requests, any number of sign-ins, moved e-mails and dead migrations, that every
behaviour of `UsersSpec` satisfies `UsersInv`, and from it `IdentitiesUnique`,
`SignInsResolve` and `UsersTypeOK`. The only assumption is
`IdentitiesAssumption`: Clerk's and Google's identities are disjoint, `NoOne` is
neither, and the bounds are naturals.

Uniqueness rests on the database: a write is permitted only if the index in
force permits it. Its proof needs that one is always in force, which `IndexInv`
says through the migration: the legacy indexes are complete until the new ones
are, since one is dropped only when nothing is left to create. That a sign-in
ends well rests on what a request knows staying true while it waits:

* `SeenInv`: a user that was there is there for good, and a Clerk link once set
  never changes (`UsersStay`), so the refusal decided on the copy `seen` is still
  right when it is given, and a request that lost the conditional update finds
  the owner linked to another identity;
* `MailInv`: an identity whose e-mail has not moved is linked under that e-mail
  only. So a request whose upsert hits a unique index finds either its own
  identity or the owner of its e-mail, and is never left with a bare error;
* `PhaseInv` and `UnknownInv`: Clerk's phases have Clerk identities, and a
  document that is not there names nobody.

The lemmas named `...Does` state once what a step does to its own request and to the
one user it may write; the preservation lemmas (one per conjunct) use only
those facts.

### RunEvents

`RunEvents_proofs` proves `TypeOK`, `NoGapNoRepeat`, `SeqFollowsStream` and
`ToldIsRecorded` for any number of attempts, stalls, troubles and cuts and any
batch size (`EventsAssumption`: naturals, the first three positive).

* `CountInv`: every hand-out of the job has built one emitter, and all but the
  last were ended by a failed attempt or a dead worker. It bounds the emitters,
  without which `seq` and `tail` have no domain to be typed over;
* `CursorInv`: the cursor of an open connection is the last id the browser saw,
  so what the relay sends next continues what it has. `NoGapNoRepeat` follows,
  expired entries aside;
* `ChainInv` and `StreamInv`: what an emitter has written or lost precedes, number
  by number, what is still in its chain; entries of one emitter stand in the
  stream in rising order, and with no write failed and nobody dead none is
  missing. `SeqFollowsStream` is the part of it one can observe;
* `EndInv` and `RelayInv`: until a record write fails or a worker dies, terminal
  events in a chain, in the stream and in a replayed snapshot agree with the
  record, and the record with the state of the job.

### PostPublishing

`PostPublishing_proofs` proves all invariants and action properties of the module
for any sets of posts, requests and workers, any quota and number of periods,
versions, calls, stalls and faults. `PostAssumption` asks that requests and
workers are finite and disjoint sets, that there is a request, and that the
bounds are naturals. The posts may be infinitely many.

* `DuplicatesBounded` needs `SendInv`, which counts people: how many actors hold a
  copy of a post loaded before its publication, how many are about to load one,
  and how many have sent it and not saved. As long as the post may still be
  published and nobody is between send and save, what is on LinkedIn and all but
  one of these actors together are at most the disturbances; from the send on,
  each actor that still holds an old copy counts, and one more is allowed, the
  publication itself. Its lemmas are about the cardinalities of these teams when
  one actor changes its role;
* `JobsFollowStatus` needs `StageInv`: what status and job an actor finds at each
  of its awaits if it is alone (`AloneInv`) with the post. That is the code's
  sequential reasoning, written down: `scheduleArtifact` has the job replaced
  before the status is saved, `publishPost` publishes a post that was
  schedulable, and a handler's copy is the document;
* `QuotaOvershootBounded` needs the requests that have passed the check and not
  counted yet (`Pending`): counted and pending posts of the present period
  together stay within `Quota + Cardinality(Clients) - 1`, later periods are
  empty, and earlier ones keep what they had. The "- 1" is the request that
  looked last and found room;
* `ScheduledIsCounted` needs `UsageInv`: the flag of a post, stored or in a copy,
  is set only after some period has counted it;
* `EditsRespectPins` needs `EditInv`: while the pin revision is the one the editor
  read, no actor the editor did not know of is past its pin. That is what makes
  one revision per family enough for all of its posts;
* `ConfirmedPostsKeep` follows from `StageInv` and `CopyInv`.

### MediaUpload

`MediaUpload_proofs` proves `TypeOK`, `EntriesKept`, `ShareHasItsMedia` and
`ObjectKept` for any sets of requests and workers and any finite set of slots.
`MediaAssumption` also asks that `NoId` is no slot and the bounds are naturals,
the limit on files and the attempts positive. TLC checked the invariant first,
also with two workers and three faults.

* `EntriesKept` needs `Copies`: as long as `__v` is the one a request loaded, its
  copy agrees with the stored array, except that the worker has settled entries
  that were UPLOADING and that the purge left out PENDING entries whose slot
  expired. A save that `__v` lets through can lose nothing else; `SavedEntry`
  says what it makes of one entry;
* `Claims` says what a request may rely on after its awaits: the slots it took are
  its own, and the entries it confirms are PENDING in its copy and, if the copy
  is current, still have their objects;
* `ObjectKept` needs `Confirmations` and `Executions`. An entry is confirmed once
  and is filed in at most one job, a job is run by one worker at a time and has
  attempts left while it is, and an object goes only when its entry is `Over`:
  settled, put back by a request, or with nobody left to settle it;
* `ShareHasItsMedia` needs `Shares`, the sequential reasoning: a request that is
  alone and past `assertMediaReadyForPublication` holds exactly the stored
  media, all READY, and what is READY is neither purged nor settled again.
  `Kinds`, that the media of a post are of one type, makes the composed share
  complete;
* the bound on `rev` in `TypeOK` counts the saves each request has left (`Revs`).

`StepForms` reduces the actions to six forms (a load, a save, a request going on,
a request of one step, the environment, a worker), each saying field by field
what a step does. The preservation lemmas, one per conjunct, use only the forms.

### LinkedinAccounts

`LinkedinAccounts_proofs` proves the four invariants of the module for any sets of
users and members, finite sets of requests and pages, any positive cap, and with
or without the second unique index. `AccountsAssumption` also asks that pages
are no numbers, which keeps the ids of persons and of pages apart.

* `CapOvershootBounded` needs `CapInv`: the accounts under the cap, and the
  requests on their way to add one, together exceed it by no more than the other
  requests. Whoever joins has found room when it looked; whoever is already on
  the way was not seen. `LengthInv` and `AloneInv` count the requests;
* `OneOwner` needs `OwnerInv`: a callback past its check has a member nobody else
  has, or a user whose metadata are out of date;
* `PagesFollowPerson` needs `TakesDown`: a request about to deactivate a person
  has every active page of the user in its list, or the user is `torn`; and one
  that stores pages still has its person active. `KnownInv` ties pages to
  persons;
* `MetadataIsCurrent` needs `CopyInv`: the copy a refresh works on is that of the
  document unless it is `stale`, and `TokenInv`: a new token is unlike all that
  were refused before.

A step writes one document at most, and records with many fields make the
provers slow. So the lemmas named `...Effects` and `...Fields` first say field by
field what a step does, and the preservation lemmas use only those.

### Billing and FeatureGating

`MCServices_proofs` has both modules. `BillingAssumption` says that the default
tier has no price at Paddle (`tier-seeds.ts`), so nobody subscribes to it;
`GatingAssumption` that a limit is a natural number or -1.

* `AnsweredIsApplied` needs `FiledInv`, the same statement about the events filed
  in Redis: a delivery that finds its key is answered at once, so an event whose
  key is there must be applied, lost or in work. Its proof goes over the ways a
  webhook request ends (`RestsInv`);
* `ServedAsPaid` needs `LastInv`, that the last subscription event describes
  what Paddle has, since every change reports itself; `SubInv`, that the record
  is that of the last event once it was applied and nothing older came after it,
  which a cancellation marked here does not change as long as Paddle still means
  to cancel; and `PeriodInv`, that a running subscription is in the present
  period;
* `AnswersAgree` needs `FreshInv`: what a check has read so far still stands
  unless the subscription moved since. It is kept by steps of the same check and
  of others (`OneCheck`), and counters only grow.

### AgentRun

`MCServices_proofs` proves `AgentTypeOK`, `BilledAsUsed` and `OvershootBounded` for
any finite set of runs, any finite sets of prices, any caps, and any number of
attempts and faults. `AgentAssumption` asks that prices and bounds are naturals,
that there is a price for a completion and for a rendering, that a credit is at
least one unit, a run may take a turn and find something, and that the tier has
credits at all.

* `MeterIsBill` needs `Billed`, the same equation kept at every phase and with
  the part of the turns by itself: a completion adds to the meter what it adds
  to the sum over `got.turns`. The sum is a fold over the set of prices. What a
  fold computes is an induction, which the prover cannot take from a library
  theorem; but the counterexamples to it form a set of numbers, and a set of
  naturals has a least element (`LeastNumber`). `SumUnfolds` and `SumAdds`
  follow: a sum grows as one of its terms does.
* `OvershootByRuns` needs `MeterFits`: what the meter may show at each phase. The
  research loop spends at most a turn price per step and a search price per
  success, those that are still to come included (`LoopFits` keeps the successes
  of a wave and the calls under way within the cap together), so a run that is
  debited is no dearer than `MaxRunCredits`. `Within` holds the runs under way
  against the limit: one that has passed the balance check found the usage below
  it, and the debit that ends it gives its allowance to the runs that rest.

### Library, Feed and Paging

`MCLibrary_proofs` proves `PagesCover` and `DeckShown` for any number of items,
versions, attempts, calls, faults and months, and any page size.
`PagingAssumption`, `LibraryAssumption` and `FeedAssumption` ask for naturals,
and at least one item on a page, one month, one version and one attempt.

* `PagesCover` is an end-to-end promise; `Amid` says what is true between two
  pages. Of the items that stood still, those the reader has passed without
  seeing them are at most as many as left the list, and those it has seen and
  that stand before it again, with those it has seen again already, at most as
  many as came. `ReaderSees` is the step: one write moves one item. If it
  left, one place before the reader may have been taken by an item behind it; if
  it came or went to the front, one item that was seen may be pushed behind the
  border of the page. `PlacesFilled` says that a list has no gap between its
  places, from which the last page is one after which nothing is left
  (`PagesDivide`), by number or by length.
* `Library` needs `ShelfInv` (the places of artifacts are one each, without a
  gap), `Feed` that posts are created in the order of their numbers.
* `DeckShown` needs `VersionInv`: an attempt that has rendered has left a PDF, a
  READY document has its key, its slides and its PDF, and while no attempt was
  repeated the PDF and the slides are the first attempt's or an editor's.

### The services and the lists in one run

`MCServices` and `MCLibrary` are what the runs `services` and `library` check, and
theorems are stated of them too: `ServicesTyped` and `ServicesKeep` have all twelve
invariants of the one, `ClientTyped` and `ClientReads` the three of the other.
`ServicesInv` says what a service that rests does not lose. `FeatureGating` shares
the subscription with `Billing`: where checks move it, nothing of Billing's
history is claimed but that the record is well typed (`WebhooksRest`).

### What the proofs found

* `OneOwner` without its exception for `stale` documents is false, beyond the
  depth of the run: six requests, none overlapping another, break it. User u
  connects member m, and a refresh reads the account. u disconnects, connects
  member n, and v connects m, which nobody has now. The refresh then writes the
  old metadata, m's, back into u's document.
  `getLinkedinPersonalAccountByMemberId` looks members up by
  `profileMetadata.memberId` too, so m is found with both; once u has
  disconnected n, its callback for m may be let through, and m belongs to u and
  to v. The second unique index would refuse that, but is not in force. The
  proof of `OwnerInv` failed at the refresher's write; the property now names the
  exception.
* `StageInv` failed for a disconnection with two posts, of which one has its job in
  work: `remove()` throws after the other post's job is gone, and that post
  stays SCHEDULED for good. With the single post of `post_safety` this cannot
  happen. The model counts it as a disturbance of the post.
* `ShareHasItsMedia` had allowed a SCHEDULED post to have entries whose slot
  expired. The proof did not need the exception: as long as requests follow one
  another, the purge is saved before a post is scheduled and nothing is added
  after. The property is now stated without it.

### Only model-checked

Liveness: `RunSettles`, `ScheduledFires`, `UploadSettles` and `ClientStops`, since
fairness and ENABLED are out of the prover's reach. Every invariant and every
action property of a passing run is stated by a theorem. The refinement is proved
for the safety of `RunContract`, which has no fairness.

Library theorems that take an operator as a parameter, induction among them,
cannot be instantiated here. Where the proofs need induction they argue by a
least counterexample, and where they count they use the theorems on finite
sets. No module declares a RECURSIVE operator. This version of the prover
misreads two forms of EXCEPT, one that updates the same element twice and an `@`
inside the `@` of another; no proved module has them.

## 5. Where documents and code disagree

One disagreement has a run, since it takes several actors to see:

| run | the document | the code |
|---|---|---|
| `claim_scheduled_publishes` | `post-schema-and-publish-flow-design.md`: a scheduled post "publishes the version approved today, even if the artifact is refined" | publishing requires the pin to be the current version and throws outside its error handling: the post stays SCHEDULED without a job |

The others are seen in the models and need no run of their own:

* `workflow-engine-design.md`: "users are charged once, only for successful
  runs". The debit carries no run id; a worker that dies after it is re-run and
  debits again. `DebitedOncePerHandout` is what holds.
* `api/posts.md`: "`PUBLISHED` is terminal". Handlers that loaded the post before
  save another status over it. `ConfirmedPostsKeep` is what holds.
* `sse-progress-contract-design.md`: 204 only if the `Last-Event-ID` already
  covers the terminal entry. The relay answers 204 as soon as the record is
  terminal and nothing newer is in the stream, and the record is written before
  the event.
* `presigned-media-upload-spec.md`: a confirmed upload goes from UPLOADING to
  READY or FAILED. A save of the whole array can put UPLOADING back for good.
* `artifact-schema-and-library-api-design.md`: the PDF is "re-rendered on every
  refine or slide edit". `updateArtifact` changes the slides and leaves the PDF.
* The seeds describe a tier's scheduled posts as unlimited (-1), which the check
  honours; the dashboard shows none left (`calculateRemaining`). A cap of -1 on
  connected accounts refuses every account.

## 6. Not modelled, and what is left

Not modelled:

* onboarding: one profile per user, saved by single requests. Initialising again
  between a load and a save mixes the answers of two rounds, and a stale step
  save leaves the complete flag; nothing says what two requests at once should
  leave, so there is no property to state;
* the e-mail queue: best-effort jobs nothing depends on;
* the language-model, LinkedIn, renderer and storage clients beyond their
  outcomes, templates, prompts and layout;
* prototypes, seeds, the credit report, single reads, feedback, encryption.

In `Library`, titles, text search and PDF pages are left out; in `Billing`,
signatures and checkout, which change no state here; in the run record, the
cached research and the progress fields. The month filter of both lists matches
`updatedAt` in local time while the months offered are those of `createdAt` in
UTC; the models have one calendar.

Left for later: `MediaUpload` composed with the schedule queue, which both now
model by the post's status alone; and the run `services` with more than one
fault, which its theorems allow and its bounds do not.
