# TLA+ verification of emg-cms-api

emg-cms-api is the REST backend of a multi-tenant CMS: agency clients edit
reviews and jobs in a dashboard, and a worker pushes the result to their Astro
or WordPress sites. This directory holds TLA+ models of the parts of it that
are hard to test, the TLC configurations that check them, and TLAPS proofs.

Every definition is translated from the source; `PROJECT.json` ("map") names
the lines each one stands for. Paths below are relative to the repository.

## 1. Inventory

One Node process serves HTTP requests (Express) and runs the delivery worker
(node-cron); all durable state is in PostgreSQL through Prisma. Node runs one
callback at a time, but every `await` of a query or of `fetch` lets any other
request or worker tick run. So **a handler is a sequence of steps, one per
awaited call, and what it read before an `await` may be stale after it**. Only
`updateUser` and `deleteUser` use database transactions.

| Component | State | Operations | Interaction | Hard behaviour | Correct when |
|---|---|---|---|---|---|
| Delivery worker `src/delivery/worker.ts` | `SyncJob` rows | tick: reset stuck rows, fetch due rows, claim, dispatch, final write | reads org, reviews, jobs; calls the clients; a tick every 5 s, also when one is running | overlapping ticks, crash between claim and final write, retries and backoff, a dispatch slower than `STUCK_MS` | no row dispatched twice at once; bounded attempts; settled rows stay settled; every row settles |
| Publish and retry `services/delivery.service.ts`, `deliveryJobs.service.ts` | `SyncJob` rows, `config.delivery` | publishNow, retryDeliveryJob | writes rows the worker is working on | look-then-insert, update of a row read earlier | "success" covers what the user published |
| Delivery clients `delivery/*.client.ts` | the site | one POST each | called by dispatch | error before or after the effect | an error is never taken for success |
| Organization config | `Organization.config` (JSON) | patchConfig, touchLastRefreshed, updateOrganization | written by content edits, publishes, imports and the settings form | read-modify-write of a whole column | the indicator is honest |
| Users and organizations `services/user.service.ts`, `organization.service.ts` | `User`, `Organization` rows | create, update, delete | foreign key `ON DELETE SET NULL` | decisions on a read outside the transaction | a super admin remains; role and organization fit |
| Authentication and sessions `services/auth.service.ts`, `lib/jwt.ts` | `passwordHash`, `tokenVersion`, `mustChangePassword`; tokens held by clients | login, refresh, changePassword, reset, logout-all | access tokens carry role and organization unchecked | tokens issued from a stale read; change racing a reset | no refresh with a token older than the last password change |
| Tenant isolation `lib/prisma.ts`, `middleware/tenant.ts` | AsyncLocalStorage context | withTenant, query extension | wraps every query on five models | lazy promises awaited outside the context | no query leaves its tenant |
| Permissions, feature gate `auth/permissions.ts`, `middleware/permission.ts` | none, `Organization.features` | requirePermission, requireSuperAdmin, requireFeature | in front of the routes | flag read before the handler | only permitted principals get through |
| Reviews `services/review.service.ts` | `Review` rows | CRUD, import, refresh, reverse import | marks the content as changed, touches `config.reviews` | check-then-insert, deduplication across sources, mixed time units | an import brings all and doubles nothing |
| Review sources `services/reviewSource/` | none | fetch from Places or GBP | called by refresh | paging, missing fields | every review has an id and a rating |
| Jobs `services/job.service.ts` | `Job` rows | CRUD, reverse import | as reviews | slug derivation, deduplication | importing again inserts nothing |
| Public feed and snapshots `services/public.service.ts`, `delivery/serializers.ts` | none | publicJobs, publicReviews, buildReviewsData, buildJobsData | read by consumers and by dispatch | several queries per snapshot | drafts withheld, totals over all rows |
| Uploads `services/upload.service.ts` | `Upload` rows, R2 objects | upload, delete | two stores | one of the two writes fails | a row has its object |
| Consumer tokens `services/token.service.ts`, `middleware/consumerAuth.ts` | `ApiToken` rows | create, list, revoke | principal of the public feed | organization deleted under a token | a revoked token reads nothing |
| Audit log `services/audit.service.ts` | `AuditLog` rows | recordAudit | called by handlers with and without a context | failures are swallowed | an entry lands in its own organization |
| Custom fields, schemas, rate limits, server, encryption, scripts | see `PROJECT.json` | | | | |

`PROJECT.json` lists every component with what is modelled of it, and every
hazard with its line and the properties that cover it.

## 2. Modules

| Module | Contents |
|---|---|
| `JobLifecycle` | abstract: what a SyncJob row promises to those who publish |
| `Delivery` | publish, retry, cron ticks, dispatch, crashes, failing queries, slow dispatches; implements `JobLifecycle` |
| `MCDelivery` | instances of `Delivery` |
| `DeliveryProofs` | theorems about `Delivery`: types, exclusion, settled rows, coverage of publishes |
| `DeliveryRefinement` | the proof that `Delivery` implements `JobLifecycle` |
| `DeliveryBudget` | theorems about `Delivery` with slow dispatches: attempts, honest success |
| `OrgConfig` | composes the config column and its writers with the worker's commits and the unpublished-changes indicator |
| `MCOrgConfig` | instances of `OrgConfig` |
| `OrgConfigProofs` | theorems about `OrgConfig` |
| `Content` | reviews and jobs, Google, and the data files in the repository: deduplication, imports, refresh, publish round trip |
| `MCContent` | instances of `Content` |
| `ContentProofs` | theorems about `Content` |
| `Tenancy` | principals, tenant contexts, the Prisma extension, and the operations under them; uploads, consumer tokens, the deletion of organizations |
| `MCTenancy` | instances of `Tenancy` |
| `TenancyProofs` | theorems about `Tenancy` |
| `Accounts` | user management and organizations |
| `MCAccounts` | instances of `Accounts` |
| `AccountsProofs` | theorems about `Accounts` |
| `Sessions` | login, refresh, logout, password changes and resets of one user |
| `MCSessions` | instances of `Sessions` |
| `SessionsProofs` | theorems about `Sessions` |

### Delivery

A tick (`pc`, `todo`, `cur`, `att`, `snap` per tick) goes through
`processDueJobs`, one action per awaited call:

    idle --TickStart--> fetch --FetchDue--> next --Claim--> claimed --Load--> loaded
      --Prepare--> send --Land--> sent --Reply--> ok --Succeed--> next or idle
    send, sent --HttpError--> err --GiveUp or Backoff--> next or idle

`Skip` is the claim that matched no row. `TryFails` is an exception inside the
`try` block of `processJob`, `TickFails` one outside it, which ends the tick and
leaves the row `running`; `Crash` ends all ticks and requests. A publish is
`PublishFind`, then `PublishCoalesce` or `PublishCreate`. `Retry` is one UPDATE.

Abstractions. Time is what the code compares: `due[j]` for `scheduledAt <= now`,
`stale[j]` for `startedAt < now - STUCK_MS`, and `older`, the order of
`scheduledAt` among the rows that are or were due; `BecomeDue` and `BecomeStale`
let it pass. A batch holds the oldest due rows (`Oldest`); the order in which a
tick handles them is left open, and so is the length of a backoff. A publish
takes its time before its look-up, so its row may get in front of rows that were
scheduled since (`Somewhere`). Content is one version number per
organization, a snapshot the version it read. `Land` separates the effect of a
POST from its answer, so an error can follow an effect. `want` and `delivered`
are history variables: no action's guard reads them. A SyncJob row and its
organization cannot disappear (no code deletes rows, the foreign key is
`RESTRICT`), so the two not-found branches of `processJob` have no action.
An organization without `git`, hook or cache-bust URL has `Target` "none". Its
configuration does not change while a row is dispatched.

`ImplementsLifecycle` is the refinement. `JobLifecycle` knows no ticks, claims,
attempts or faults: a row is asked for a version, versions are sent for it, it is
done only when what was asked has been sent, or failed and then perhaps reopened.
`PhaseOf` maps `pending` and `running` to "open", `want` to `asked`, `delivered`
to `got`; claims, backoffs, stuck resets and crashes become stutters. A publish
that read a pending row may join it when it is done already: the abstract `Ask`
allows it only if the row has brought what this user saw.

Hooks and cache busts make the site pull later; `delivered` counts what that
pull sees at least.

### Accounts

`UpdateRead` and `DeleteRead` are the handler up to its transaction: they fix,
from the row as read, the fields to write and whether the last-super-admin
guard applies. `UpdateCommit` and `DeleteCommit` are the SERIALIZABLE
transactions, one step each; they may fail, and then nothing is written.
`CreateUser` is one step: what its look-ups decide does not change (an email
taken meanwhile fails on the unique index). `DeleteOrgCheck` and `DeleteOrg` are
the counts and the DELETE, whose foreign key clears `organizationId`. Ids are
never used again ("gone"); an organization id is, which only adds behaviours.
Requests need a super admin's access token, valid until it expires whatever
happens to its owner.

`stale` and `strayed` are history: the requests whose user was written after they
read it, and the users last written by such a request or by the delete of their
organization. A comment of `updateUser` promises that the guard of the last super
admin is atomic with the demotion: `SuperAdminRemains`, which is false
(section 5). `LossOvertaken` and `PairUnlessOvertaken` say what the code keeps of that
and of the pair of role and organization: only requests in `stale` break them.

### OrgConfig

One organization. Each handler commits its rows first (`Change`, `Ingest`,
`Enqueue`) and then goes through the read and the write of patchConfig and
touchLastRefreshed (`MarkRead`, `MarkWrite`, ...). `FormOpen` and `FormSave` are a
GET of the organization and the PATCH that stores the edited copy: the API
takes the config as a whole, and the dashboard, which is not in this repository,
is taken to send back what it was given with its edits. A request does not stop
half-way here, as it may in `Delivery` (`Crash`). `settings`
stands for all keys without a stamp.

The worker's dispatch is `ShipClaim`, a `ShipRead` for the reviews and one for the
jobs, and one commit of both files (`ShipDone`). `ShipFails` is an error at any
point, also after the commit took effect: the row goes back to pending or, out of
attempts, to failed, from where `Retry` brings it back. `IndicatorHonest` is about a
quiet system: a failed or pending row is shown to the dashboard in its own list.

### Content

One organization: `reviews` and `jobs` are its rows, `google` the list a provider
returns, `file` and `jobsFile` the data files in its repository. A handler that
awaits between a read and a write is a sequence of steps: a repository import is
`RepoRead` (readFile, parse, size check), `RepoCompare` (findMany of what is in the
CMS, filter) and `RepoInsert`; a Business Profile refresh is `RefreshStart`, a
`RefreshPage` per page, `RefreshStore`, with `RefreshFails` when a page answers with
an error; a Places refresh is one answer. The handlers of the form and the bulk
import are one statement each. `Publish` writes both files from the rows in one
step (`OrgConfig` has the separate queries), so that files go round from the CMS
to the site and back.

A time is a unit and an instant, since the column holds seconds for some rows and
milliseconds for others. `externalId` is what the code makes of it: the hash of
body and time as stored, a provider's id, or null, which is never a duplicate.
createMany with skipDuplicates keeps one row per new key, any one (`Inserted`).
`ContentOf` is what the repository import compares, in seconds. `due`, what an
import or a refresh has to bring, and `since`, the rows that have been there,
unchanged, ever since a repository import began, are history; `TakenOut` takes from
both what a user edits or deletes meanwhile. UpdateJobSchema is the partial of a schema with
defaults, and Zod 4 fills these in: `UpdateJob` writes "active" when the body does
not name a status.

A posted list has one item or several, each with or without a time and an
`externalId` (`PostedItems`), and so may a file edited by hand; the worker writes none.
Google's reviews may lack a rating, a date or an id: `RefreshPage` drops what has no
id, `Usable` what has no rating or no id, and a missing date becomes the present.

Slugs are opaque; the source of an organization does not change. `uses` is a bound: no
handler relates reviews to jobs, so an instance may have an organization with the ones
and another with the others, whose states add up instead of multiplying. The marks and
stamps that follow a mutation are in `OrgConfig`.

### Tenancy

`als` is the AsyncLocalStorage store of each call chain. `TenantScope`, `WithTenant`
and, for the extension, `Admits`, `Visible` and `Created` are operators on contexts,
translated from `tenant.ts` and `prisma.ts`; every query of the handlers goes through
them. `Arrive` and `ArriveConsumer` are the middleware of a route, up to the first
awaited call of its handler: the principal of a JWT (whose role and organization
are those of its sign-in) or of a consumer token, `?orgId`, tenant scope,
requireSuperAdmin, requirePermission over the role table, requireTenant. Requests that are
rejected change nothing and have no action.

`rows` stands for the five tenant-scoped models: reviews (a job has the same
handlers), uploads and audit entries. An upload is `PutObject`, then `InsertUpload`; its
deletion `FindUpload`, `RemoveObject`, `DeleteRow`; each call may fail. multer leaves
the upload controllers without a context, and they set it again
(`UploadContext`). `CountRows` and `DeleteOrg` are deleteOrganization: the counts run in
the context of the organization, the DELETE some time later, with the foreign
keys of the rows (restrict) and of the tokens (set null). `Audit` is recordAudit
in a sign-in, which has no context; `Snapshot` is the worker reading the rows of an
organization in a context nested in its own.

`strays`, `refused` and `faults` are history: queries that touched a row of another
organization than the one they were made for, operations that the extension
threw on, calls that failed.

### Sessions

One user: neither tokens nor passwords of two users meet. `Login` and
`ChangeRead` are the handlers up to the comparison with the hash they read;
bcrypt runs for a long time outside of JavaScript, and other requests between. `ChangeWrite` is
the UPDATE, which names the user by id only, and `Issue` the signing of the two
tokens, with the version of the row that the handler read (login) or wrote (changePassword).
`Reset` is `resetUserPassword` and the password part of `updateUser`: one write,
for which nothing they read matters; `overtaken` (history) are the changes under way
when it came. `Proved` is the password that the comparison makes the caller know. `Refresh` has no `await` between its read and
its answer. A request whose password is wrong changes nothing and has no action.

`cookies` are the refresh tokens that some client holds, with the password its
holder had proved to know (history); `access` are the token versions of the
sessions that still have an access token, which is all the API asks for in
changePassword and logoutAll. The code never checks `mustChangePassword` in a
route: it is told to the dashboard, which asks for a new password. Signatures
and hashes are taken as unforgeable.

## 3. Runs

| Run | Instance | States | Question |
|---|---|---|---|
| `Delivery_safety` | 1 organization, 2 rows, 2 ticks, 1 publisher, 2 attempts, 2 content versions, batches of 1, 1 crash or failing query | 1.05 million | exclusion, coverage of publishes, settled rows, the promise of `JobLifecycle` |
| `Delivery_live` | 2 organizations (hook, nothing), a row each, 2 ticks, batches of 1, 1 fault, also a slow dispatch | 184 thousand | every row settles; attempts and honest success when a row is dispatched twice at once |
| `Accounts_core` | 2 users, 2 organizations, all bodies, 2 overlapping requests of any kind, deletes of organizations | 1.3 million | what of the last super admin, and of the pair of role and organization, only an overtaken request can break |
| `Accounts_stale_demotion` | 3 users, 2 overlapping requests | - | violated, see 5 |
| `OrgConfig_serial` | 1 request and 1 dispatch at a time, 2 content versions per collection, 2 settings | 229 thousand | the indicator when requests do not overlap |
| `OrgConfig_lost_change`, `OrgConfig_stale_site` | 2 requests; 2 dispatches | - | violated, see 5 |
| `Content_core` | 2 Google reviews, one without rating and date, pages of 1, both sources, 1 form row, lists of up to 2 items with or without time and id, a file edited by hand, edits, an import and a refresh overlapping; in another organization 2 jobs, 3 statuses and an import | 719 thousand | an import doubles nothing that was there since it began, imports and refreshes bring everything, rows are dated, rated and of a known status |
| `Content_race` | 1 Google review and a file | - | violated, see 5 |
| `Tenancy` | 2 organizations, 2 overlapping requests, all operations, 3 ids, 1 failing call | 584 thousand | isolation, contexts, rows and objects, no row without its organization |
| `Sessions_core` | 2 requests, 3 passwords, 2 changes of the version | 20 thousand | refresh tokens, what escapes a forced change, the end of old sessions |
| `Sessions_lost_reset` | 2 requests | - | violated, see 5 |

Bounds. Two ticks are enough for every pairwise race. Two attempts (three in the
code) give one attempt that backs off and one that gives up. Two rows and batches
of one (25 in the code) make every second due row compete for the batch, which is
what the order of `scheduledAt` is for. `MaxContent`, `MaxFaults`, `MaxTime` and
`MaxSettings` bound counters. `Jobs` bounds the rows ever created: when it is used
up, a publish that would insert waits. `MaxTime` in `OrgConfig` and `MaxVersion` in
`Sessions` are checked when a request starts, so a request under way always
finishes. Three passwords tell the old one, the one an administrator set and the
one the user chose apart.

In `Content` one import and one refresh can overlap with each other and with the
form, which is every pair of kinds. Pages of one review make a list of two grow while it
is being paged. `MaxReviews` stops the form and the posted lists, not imports and
refreshes, so the corpus does grow beyond it. The texts are one that
the file may hold with blanks around it, one without a rating and an empty one; users
enter the first without blanks (`Typed`), may change a time to the past instant in
seconds (`EditTimes`), and one instant is past, the other the present. `Limit` is 2 so that
the display set may leave rows out. A Google review without an id (`NoId`) is in no
instance: the theorems have it.

In `Tenancy` every organization starts with a review, and one id is left,
for an upload, a review or an audit entry; when it is used up a request that
needs another waits for ever, so `CHECK_DEADLOCK FALSE` is set there. It is also set
in `Accounts_core`, where the last super admin can go (section 5) and nobody is left
to act.

Ticks, publishers, requests, organizations in `Tenancy` and, in
`Delivery_safety`, where all belong to one organization, rows are interchangeable
and declared symmetric in safety runs. No symmetry is used with liveness.

One passing run excludes what the code does not: `OrgConfig_serial` has a single
request and a single dispatch at a time, and the violation runs `OrgConfig_lost_change` and
`OrgConfig_stale_site` have two (section 5). In the others nothing is kept apart: where
a race breaks what the code promises, the passing property says what is left of the
promise (`LossOvertaken`, `PairUnlessOvertaken`, `OnlyOvertakenEscape`, `NoDoubling`), and a
violation run or section 5 shows how the promise itself is broken. `Delivery_safety` has no
slow dispatch, which `Delivery_live` has.

Every property of a passing run has a mutant in `PROJECT.json`: a definition
changed as a plausible bug would change it, under which the run fails. The
mutated operators stand next to the definitions, marked "Mutant".

### Fairness

`Delivery_live` assumes weak fairness of each tick's own steps and of the passing
of time, nothing of users and faults. node-cron fires every five seconds;
queries return or throw; `fetch` has undici's header and body timeouts; the due
and stale times are clock comparisons. A tick step includes success as well as
error of the POST, so fairness does not promise that the remote side ever
answers well: the rows settle as "failed" then. At most one fault happens in the
instance; a system crashing for ever settles nothing.

`EventuallySettles` excepts the runs in which somebody never stops publishing
(`Impatient`). Each publish gives the row it joins the present time, so it goes to
the end of the line; without the exception TLC finds a row that stays there while
the other organization's row fails and is retried. Without the order of the batch
query (its mutant) a row starves without any publish.

`Sessions_core` assumes weak fairness of the second halves of login and
changePassword, whose awaits are bcrypt and queries, and of `Expire`, the clock of
`JWT_ACCESS_TTL`; nothing of what users do. Cookies may stay in a browser for
ever, so the property rests on the comparison in `refresh`.

## 4. Proofs

Every safety invariant, every action property and the refinement that the passing
runs check is also a theorem, for every value of the constants. What each rests
on:

| Theorem | States | From |
|---|---|---|
| `DeliveryProofs!TypeCorrect` | `Spec => []TypeOK` | `DeliveryAssumption` |
| `DeliveryProofs!Exclusive` | `Spec => []ExclusiveDispatch` | and `Timely` |
| `DeliveryProofs!SettledForever` | `Spec => Settled` | and `Timely` |
| `DeliveryProofs!CoversPublish` | `Spec => []SuccessCoversPublish` | and `Timely` |
| `DeliveryRefinement!KeepsPromise` | `Spec => ImplementsLifecycle` | and `Timely` |
| `DeliveryBudget!AttemptsBounded` | `Spec => []AttemptBudget` | `DeliveryAssumption` |
| `DeliveryBudget!SuccessSent` | `Spec => []SuccessWasSent` | `DeliveryAssumption` |
| `AccountsProofs!AccountsTypeCorrect` | `Spec => []TypeOK` | `AccountsAssumption` |
| `AccountsProofs!LossOnlyOvertaken` | `Spec => LossOvertaken` | `AccountsAssumption` |
| `AccountsProofs!PairKept` | `Spec => []PairUnlessOvertaken` | `AccountsAssumption` |
| `OrgConfigProofs!OrgConfigTypeCorrect` | `Spec => []TypeOK` | - |
| `OrgConfigProofs!IndicatorTrusted` | `Spec /\ []AllApart => []IndicatorHonest` | - |
| `ContentProofs!ContentTypeCorrect` | `Spec => []TypeOK` | `ContentAssumption` |
| `ContentProofs!ImportsBring` | `Spec => BringsAll` | `ContentAssumption` |
| `ContentProofs!ImportsDoubleNothing` | `Spec => NoDoubling` | `ContentAssumption` |
| `TenancyProofs!TenancyTypeCorrect` | `Spec => []TypeOK` | `TenancyAssumption` |
| `TenancyProofs!TenantsIsolated` | `Spec => []Isolation` | `TenancyAssumption` |
| `TenancyProofs!ContextNeverLost` | `Spec => []ContextKept` | `TenancyAssumption` |
| `TenancyProofs!StorageMatchesRows` | `Spec => []ObjectsMatchRows` | `TenancyAssumption` |
| `TenancyProofs!NothingOrphaned` | `Spec => []NoRowsLeft` | `TenancyAssumption` |
| `SessionsProofs!SessionsTypeCorrect` | `Spec => []TypeOK` | `SessionsAssumption` |
| `SessionsProofs!RefreshSafe` | `Spec => []RefreshKnowsPassword` | `SessionsAssumption` |
| `SessionsProofs!ForcedChangeEscapes` | `Spec => OnlyOvertakenEscape` | `SessionsAssumption` |

The assumptions named after a module say what its constants are; TLC evaluates
them in every run. The other hypotheses name what the code takes for granted and
does not enforce:

- `Timely`: no dispatch outlives `STUCK_MS` ("slow" is not among the faults). Without
  it the exclusion and the settled rows are lost, as `worker.ts` leaves no way for a
  slow dispatch to find out that its row was given away. What is true all the
  same is in `DeliveryBudget`.
- `ReadWritesApart`, `AllApart` are about behaviours, not constants: requests and
  dispatches overlap in any number, but no two requests are between the read and
  the write of the config column at once, no other request
  is under way from the row of a publish to its stamp, and dispatches do not
  overlap. The runs use the stronger "one request, one dispatch"; the runs
  that leave it out (section 5) show that something has to be kept apart, and the
  theorems that no more than this has to be.

Each inductive invariant below was checked by TLC, on the instance of the run that
checks the property, before it was proved.

### Delivery

`ExclusiveDispatch` is not inductive: nothing in it keeps a
row that a tick holds from being claimed by another. `ExclusiveInv` adds
`HeldRunning`, that a held row is `running` (so the claim, which wants `pending`,
cannot match it), and from `TypeInv` that a tick in `processJob` holds a row. Each
action keeps it: the claim because the row was `pending`, so held by nobody; the
final writes because they free the only holder; the reset because a stale row has
no holder. `Settled` follows from it without further invariants, since only
`running` rows reach a final write. For `SuccessCoversPublish`, `CoverInv` adds that what
is wanted of a row is covered by what was delivered for it or by the tick
carrying it (`WantCovered`), and that a publish that found a row does not want
more than what that row can still carry (`FoundCovered`): content read when the
publish looked is at most the content any later dispatch reads, and a row that
has passed its read since cannot have been `pending` when the publish looked.

The refinement needs `CoverInv` and two facts more (`RowInv`): a publish only ever
joins rows that exist, and nothing is asked of one that does not. Each action is
then a step of `JobLifecycle` or leaves `phase`, `asked` and `got` alone: `PublishCreate` and
`PublishCoalesce` ask, `Land` sends, the final writes finish or give up, `Retry`
reopens, and the rest, crashes and resets among them, stutters.

`AttemptBudget` holds even when a row is given to a second tick while the first
still works on it, and its invariant counts why. A row can become `pending` again
through each tick that has it and fails below the last attempt (`LiveHolders`), and
through itself, if it waits or the stuck reset will make it wait (`Waiting`). `Budget`
says that the attempts made and these ways back together are at most
`MAX_ATTEMPTS` plus the faults, and that holders and free rows are at most one more
than the faults (`Retry`, which gives a row all its attempts again, needs that). A
claim moves one from the row to the tick and, with the last attempt, takes one
away; a final write moves it back or ends it; only a fault (a slow dispatch, a
crash, a failing query) adds one. Each way in which a step can bear on a row is a
lemma (`Stays`, `Takes`, `Leaves`, `Works`, `Passes`, `Restarts`, `Vanishes`) about
cardinalities, and each action is an instance of one of them.

### Accounts

For `LossOvertaken`, `SuperInv` adds that a request under way which is not in `stale` and
takes the role from a super admin carries the guard, and that no row is created under
the id of a request's user. A demotion without the guard has read a user who was no super
admin; to find one at its commit, the row must have been written in between, and every
write of a row makes its other readers stale. With the guard, the count is made inside
the transaction and another super admin is left. Deletes of organizations, promotions
and creations of users are free to run at any time.

Neither property needs a hypothesis. For `PairUnlessOvertaken`, `PairInv` adds that a request which is not
in `stale` has decided on the row as it is: the role and the organization that its
commit would leave fit each other. Every write of a row makes the other requests on
it stale, so only the row of a stale request, or of an organization that is
deleted, ends up without that guarantee, and `strayed` has it.

### OrgConfig

`CopyCurrent`: what a request holds of the column between its read and its write
is the column, and the stamp it is about to write is later than those there.
`ChangesShown` says that either the site has or will get
the present rows (`Covered`: a row is pending or failed, a dispatch has read nothing
that has changed since, or the last commit is up to date) or the change shows,
or a request is about to mark it; and that a publish about to stamp is covered.
`IndicatorHonest` is this in a quiet system.

### Content

An import inserts later what it read earlier, so types are proved of files and
items together with those of the rows (`TypeInv`); nothing is assumed of what an
organization's files hold but their form. `DueOf` says where each review is that a
request has still to bring: among its items, on a page to come (`Ahead`: a post moves
a review to a later position, never to an earlier one), or, at the insert of a
repository import, in the CMS. The last is not disturbed by others: inserts only add,
and what a user edits or deletes is not due any more. `FreshOf` says that what is
about to be inserted differs from every row of `since`: the comparison saw all of
them, and no row joins `since` afterwards. `NoDoubling` follows for dated reviews: for
them the comparison in seconds and the row that is inserted agree, whatever key or
unit the other row has.

### Tenancy

`TenancyInv` consists of the four properties and of: the context of every request
under way is that of the tenant it acts for, and only super admins act for none
(`ScopeInv`), from which `Isolation` and `ContextKept` follow with one lemma per kind
of query; ids are given out once (`IdInv`); an upload between its object and its
row owns both its id and its object, and no deletion can have found it
(`UploadingInv`); a deletion between its calls names a row of its own
tenant, whose object is gone by the time the row is deleted (`RemovingInv`).
`NoRowsLeft` rests on the foreign key, which refuses the DELETE whatever the
counts said before.

### Sessions

`RefreshKnowsPassword` says nothing of a token that is about to be signed, so it is not
inductive; `SoundInv` says of cookies and of requests before their `Issue` alike that
their version is not ahead of the user's and that, if it is the user's, the password is
too. Every write of a password bumps the version, which keeps it. `ForcedInv`
says that, while the flag is set, every change under way compared with the
password in force or is in `overtaken`. A reset sets the flag and makes every change
under way overtaken; a change that begins later has to prove the new password.

### Only model-checked

`EventuallySettles` and `OldSessionsEnd`: liveness under fairness, and the
ENABLED that fairness rests on, are out of the prover's reach. TLC checks them on
`Delivery_live` and `Sessions_core`.

## 5. Where the code and its documentation disagree

Five are runs in which TLC finds the violation; `PROJECT.json` ("findings") quotes
the lines.

- `Accounts_stale_demotion`: a demotion that read the user before a promotion
  escapes the guard of the last super admin.
- `OrgConfig_lost_change`: of two overlapping writers of the config column one is
  lost; if that is the mark of a change, the dashboard shows nothing to publish.
- `OrgConfig_stale_site`: two dispatches for one organization overlap, the one that
  read the older rows commits last, and the site is put back with no change shown.
- `Content_race`: a refresh or a posted list stores a review between the comparison and
  the insert of a repository import, which inserts it again.
- `Sessions_lost_reset`: a changePassword that compared with the old hash overwrites an
  administrator's reset made while it was hashing, and the forced change with it.

Others came up while modelling. The models have their steps, and no run of their own
shows them:

- Two publish requests that both look before either inserts give two rows and two
  builds, against "so a double-click (or a burst) collapses into a single build"
  (`delivery.service.ts:35-36`).
- Of two updates that read the same user, one changes the role and the other leaves
  the organization as it was read: a super admin with an organization, or an ADMIN
  without one, is persisted. A user who joins an organization between the count and
  the DELETE of its deletion is left as an ADMIN without one. `strayed` holds exactly these.
- "Idempotent AND cross-source safe" (`review.service.ts:166`) is false of the reverse
  import in two more ways: an undated review gets the time of its import, so importing
  the same file later inserts it again, and a review stored with blanks around its text
  comes back from the worker's file trimmed, as another one. `NoDoubling` speaks of
  dated reviews and compares the stored text for this reason.
- A PATCH of a draft that does not name its status publishes it: `UpdateJobSchema`
  (`schemas/job.ts:20`) is the partial of a schema whose status has a default.

## 6. Plan

1. *(done)* `Delivery`, `Accounts`, `OrgConfig`, `Sessions` with their runs; the
   theorems of `DeliveryProofs` and `SessionsProofs`.
2. *(done)* `JobLifecycle` and the refinement; the order of due rows and
   starvation; `Content` with deduplication, both Google sources, imports and the
   publish round trip; `Tenancy` with the extension, consumer tokens, uploads and
   the deletion of organizations; separate reads and failing commits in
   `OrgConfig`.
3. *(done)* Theorems for every safety property and action property of the runs and
   for the refinement (section 4).
4. *(done)* Weaker hypotheses: `BringsAll`, `NoDoubling`, `PairUnlessOvertaken`,
   `OnlyOvertakenEscape` and `LossOvertaken` hold whatever overlaps.
5. Left: the safety part of `OldSessionsEnd`, that an access token of an old version is
   never followed by another one.

## 7. Not modelled

- Rate limits are the configuration of a library (`consumerApiRateLimiter` is called
  per token in its comment and counts per address). CORS, logging, the HTTP envelope
  and `server.ts` are wiring.
- Encryption, hashing and signing are taken as injective and unforgeable; the
  magic-byte and SVG checks of uploads and the custom-field schema builder are
  pure functions on data that nothing else reads.
- requireFeature reads a flag that no property depends on. The lists of the
  dashboard only read.
- The aggregate rating and the `lastUpdated` stamp of `buildReviewsData`: a change
  between its queries is marked as any other, and the next publish sends a whole
  snapshot (`OrgConfig` shows that).
- A crash between the commit of a row and markContentChanged. The two are in no
  transaction, so the indicator stays wrong until the next edit.
- An organization that switches between Places and Business Profile gets its
  reviews again under the other provider's ids.
- Whether a row that a user has edited is still the review it was imported as: its
  key says so, its content does not, and the code compares now the one and now the
  other. `BringsAll` counts it as that review.
- That the newest reviews are displayed: the column orders seconds before
  milliseconds. `Displays` follows the column, and no property claims more.
- Later runs of `create-user.ts` by hand.
