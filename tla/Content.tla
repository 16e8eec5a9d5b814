------------------------------ MODULE Content -------------------------------
(***************************************************************************)
(* The reviews and jobs of one organization and the two data files of its  *)
(* repository.  Reviews arrive from the dashboard's form, from a bulk      *)
(* import, from Google (Places or Business Profile) and from the           *)
(* repository itself; the worker writes the files back.  What keeps the    *)
(* corpus from doubling is a unique key in two of these ways and a         *)
(* comparison of contents in one, over times kept in two units.            *)
(*                                                                         *)
(* A handler is a sequence of steps, one per awaited call.  A commit is    *)
(* one step: OrgConfig has its separate queries.                           *)
(***************************************************************************)
EXTENDS Naturals, FiniteSets, Sequences

CONSTANTS
    Bodies,       \* name and text of a review
    Stars,        \* the rating that goes with a body, 0 for none
    Trim,         \* a body without surrounding blanks
    NoText,       \* the body of a rating without a comment
    Typed,        \* bodies that are entered in the dashboard
    EditTimes,    \* times that a review may be changed to
    Past,         \* instants that reviews may be dated with
    Present,      \* instants that Date.now() may return
    PostedIds,    \* external ids that the items of a list or a file may have
    GoogleIds,    \* reviews that may get posted on Google
    OnGoogle,     \* body and time of each
    NoId,         \* those that Google returns without an id
    FormIds,      \* rows without an external id (bound)
    Slugs,        \* slugs of jobs
    JobStatuses,  \* the statuses in use: "active", "draft", maybe "expired"
    Imports,      \* requests that import from the repository (bound)
    Refreshes,    \* requests that refresh from Google (bound)
    Uses,         \* sets of collections: what an organization may use (bound)
    Sources,      \* config.reviews.source, as an organization may have it
    FirstFiles,   \* reviews.json files an organization may start with
    FirstJobs,    \* jobs.json files it may start with
    PageSize,     \* pageSize of the Business Profile source
    PlacesMax,    \* what Places returns at most
    MinRating, Limit,   \* config.reviews: what is displayed
    MaxRepoImport,      \* MAX_REPO_IMPORT
    MaxBulk,            \* the most items of a posted list
    MaxReviews          \* nobody adds to so many (bound)

Units == {"s", "ms"}
Times == [unit : Units, at : Past \cup Present]
Reqs == Imports \cup Refreshes
Ms(t) == [unit |-> "ms", at |-> t]
NoTime == [unit |-> "none", at |-> 0]
NoExt == <<>>

ASSUME ContentAssumption ==
    /\ Typed \subseteq {b \in Bodies \ {NoText} : Stars[b] >= 1}
    /\ \A b \in Bodies : Stars[Trim[b]] = Stars[b]
    /\ NoExt \notin PostedIds
    /\ Uses \subseteq SUBSET {"reviews", "jobs"}
    /\ Past \cup Present \subseteq Nat
    /\ Past \cap Present = {}
    /\ EditTimes \subseteq Times
    /\ "active" \in JobStatuses /\ JobStatuses \subseteq STRING
    /\ FirstFiles \subseteq SUBSET [body : Bodies, time : Times \cup {NoTime},
                              ext : {NoExt} \cup PostedIds]
    /\ FirstJobs \subseteq SUBSET [slug : Slugs, status : STRING]
    /\ Stars \in [Bodies -> 0 .. 5]
    /\ Trim \in [Bodies -> Bodies]
    /\ OnGoogle \in [GoogleIds -> [body : Bodies, time : {Ms(t) : t \in Past} \cup {NoTime}]]
    /\ NoId \subseteq GoogleIds
    /\ PageSize \in Nat \ {0}
    /\ Limit \in Nat \ {0}

VARIABLES
    source,      \* "gbp" or "places"; nobody changes it
    uses,        \* the collections that there is ever anything in; likewise
    reviews,     \* Review rows: [key, body, time]
    jobs,        \* status of the job with a slug, "none" without one
    google,      \* the reviews on Google, newest first
    file,        \* reviews.json in the repository, {} if there is none
    jobsFile,    \* jobs.json in the repository, {} if there is none
    pc,          \* per request: where it is
    items,       \* per request: what it is going to insert
    page,        \* per request: position of the next page
    due,         \* history, per request: what it has to bring
    since        \* history, per repository import: the rows that have been in
                 \* the CMS, unchanged, ever since it began

fileVars == <<source, uses, file, jobsFile>>
historyVars == <<due, since>>
requestVars == <<pc, items, page>>
vars == <<source, uses, reviews, jobs, google, file, jobsFile, pc, items, page, due,
          since>>

\* Bodies with one to five stars, which every row has.
Rated == {b \in Bodies : Stars[b] >= 1}

\* Review.externalId: a hash of body and time, a provider's id, or null, which
\* is never a duplicate.
Keyed(k) == \/ k \in Bodies \X Units \X (Past \cup Present)
            \/ k \in {"gbp", "places"} \X GoogleIds
            \/ k \in {"form"} \X FormIds
            \/ k \in PostedIds

TypeOK ==
    /\ \A x \in reviews : Keyed(x.key) /\ x.body \in Rated /\ x.time \in Times
    /\ jobs \in [Slugs -> JobStatuses \cup {"none"}]
    /\ google \in Seq(GoogleIds)
    /\ pc \in [Reqs -> {"idle", "page", "compare", "insert", "store", "jobs"}]
    /\ page \in [Reqs -> Nat]
    /\ since \in [Reqs -> SUBSET reviews]

Init ==
    /\ source \in Sources
    /\ uses \in Uses
    /\ reviews = {}
    /\ jobs = [s \in Slugs |-> "none"]
    /\ google = <<>>
    /\ file \in IF "reviews" \in uses THEN FirstFiles ELSE {{}}
    /\ jobsFile \in IF "jobs" \in uses THEN FirstJobs ELSE {{}}
    /\ pc = [r \in Reqs |-> "idle"]
    /\ items = [r \in Reqs |-> {}]
    /\ page = [r \in Reqs |-> 0]
    /\ due = [r \in Reqs |-> {}]
    /\ since = [r \in Reqs |-> {}]

-----------------------------------------------------------------------------
(* Times, keys and contents.                                               *)

\* Mutant: a missing date stays missing.
NormalizedNever(time, now) == time

\* normalizeTime: a number as it is, a date string in ms, nothing as now.
Normalized(time, now) == IF time = NoTime THEN Ms(now) ELSE time

\* Mutant: the times are compared in the unit they are stored in.
ContentOfRaw(body, time) == <<body, time>>

\* Mutant: the times are not compared.
ContentOfText(body, time) == <<body>>

\* What contentHash is given when contents are compared (toSeconds).
ContentOf(body, time) == <<body, time.at>>

Contents == {ContentOf(x.body, x.time) : x \in reviews}

Keys(rows) == {x.key : x \in rows}

\* importReviews: the row of an item; contentHash is injective.
RowOf(i, now) ==
    LET time == Normalized(i.time, now)
    IN  [key |-> IF i.ext # NoExt THEN i.ext
                 ELSE <<i.body, time.unit, time.at>>,
         body |-> i.body, time |-> time]

\* createMany with skipDuplicates: the rows that get in, one for each new key.
Inserted(rows) ==
    LET new == {x \in rows : x.key \notin Keys(reviews)}
    IN  {S \in SUBSET new :
            Keys(S) = Keys(new) /\ Cardinality(S) = Cardinality(Keys(new))}

\* insertDeduped (its marks and stamps are in OrgConfig).
InsertRows(is) ==
    \E now \in Present : \E S \in Inserted({RowOf(i, now) : i \in is}) :
        reviews' = reviews \cup S

-----------------------------------------------------------------------------
(* Requests.                                                               *)

\* r goes from one step to the next with is to insert.
Go(r, from, to, is) ==
    /\ pc[r] = from
    /\ pc' = [pc EXCEPT ![r] = to]
    /\ items' = [items EXCEPT ![r] = is]

End(r, from) ==
    /\ Go(r, from, "idle", {})
    /\ page' = [page EXCEPT ![r] = 0]
    /\ due' = [due EXCEPT ![r] = {}]
    /\ since' = [since EXCEPT ![r] = {}]

\* parseReviewsFile: trims, and drops what has no text or no rating.
ParsedReviews(f) ==
    {[i EXCEPT !.body = Trim[i.body]] :
        i \in {x \in f : Trim[x.body] # NoText /\ Stars[x.body] >= 1}}

\* importReviewsFromRepo up to readFile and the size check.
RepoRead(r) ==
    LET parsed == ParsedReviews(file) IN
    /\ parsed # {}
    /\ Cardinality(parsed) <= MaxRepoImport
    /\ Go(r, "idle", "compare", parsed)
    /\ due' = [due EXCEPT ![r] = parsed]
    /\ since' = [since EXCEPT ![r] = reviews]
    /\ UNCHANGED <<reviews, jobs, google, fileVars, page>>

\* Its findMany: what is not in the CMS by content is fresh.
RepoCompare(r) ==
    /\ pc[r] = "compare"
    /\ \E now \in Present :
         LET fresh == {i \in items[r] : ContentOf(i.body, Normalized(i.time, now))
                                           \notin Contents}
         IN  IF fresh = {} THEN End(r, "compare")
             ELSE Go(r, "compare", "insert", fresh) /\ UNCHANGED <<page, historyVars>>
    /\ UNCHANGED <<reviews, jobs, google, fileVars>>

\* Its importReviews(fresh).
RepoInsert(r) ==
    /\ End(r, "insert")
    /\ InsertRows(items[r])
    /\ UNCHANGED <<jobs, google, fileVars>>

\* A provider's review as mapReview returns it.  A missing date becomes the
\* present time there; here it does when the row is inserted.
GoogleItem(from, g) ==
    [body |-> OnGoogle[g].body, time |-> OnGoogle[g].time,
     ext |-> IF g \in NoId THEN NoExt ELSE <<from, g>>]

\* Mutant: without a rating is let in.
UsableUnrated(is) == {i \in is : i.ext # NoExt}

\* The filter of refreshReviews.
Usable(is) == {i \in is : Stars[i.body] >= 1 /\ i.ext # NoExt}

\* refreshReviews with GbpSource: the access token, then page by page.
RefreshStart(r) ==
    /\ source = "gbp"
    /\ Go(r, "idle", "page", {})
    /\ due' = [due EXCEPT ![r] =
                  Usable({GoogleItem("gbp", google[n]) : n \in DOMAIN google})]
    /\ UNCHANGED <<reviews, jobs, google, fileVars, page, since>>

\* Mutant: the loop ends after a page whatever its nextPageToken.
LastPageAlways(next) == TRUE

\* No nextPageToken.
LastPage(next) == next >= Len(google)

RefreshPage(r) ==
    LET next == page[r] + PageSize
        got == {GoogleItem("gbp", google[n]) :
                   n \in {k \in DOMAIN google :
                            page[r] < k /\ k <= next /\ google[k] \notin NoId}}
    IN  /\ Go(r, "page", IF LastPage(next) THEN "store" ELSE "page",
              items[r] \cup got)
        /\ page' = [page EXCEPT ![r] = next]
        /\ UNCHANGED <<reviews, jobs, google, fileVars, historyVars>>

\* A page answers with an error: nothing is kept of the earlier ones.
RefreshFails(r) ==
    /\ End(r, "page")
    /\ UNCHANGED <<reviews, jobs, google, fileVars>>

\* refreshReviews with GooglePlacesSource: one answer, a few reviews.
RefreshPlaces(r) ==
    /\ source = "places"
    /\ \E S \in SUBSET {google[n] : n \in DOMAIN google} :
         LET got == {GoogleItem("places", g) : g \in S} IN
         /\ Cardinality(S) <= PlacesMax
         /\ Go(r, "idle", "store", got)
         /\ due' = [due EXCEPT ![r] = Usable(got)]
    /\ UNCHANGED <<reviews, jobs, google, fileVars, page, since>>

RefreshStore(r) ==
    /\ End(r, "store")
    /\ InsertRows(Usable(items[r]))
    /\ UNCHANGED <<jobs, google, fileVars>>

\* Bounds on what users do.
MayAdd == "reviews" \in uses /\ Cardinality(reviews) < MaxReviews

\* What ImportReviewItemSchema accepts.
PostedItems == [body : Typed, time : [unit : Units, at : Past] \cup {NoTime},
                ext : {NoExt} \cup PostedIds]

\* importReviews of a posted list: one statement.
BulkImport ==
    /\ MayAdd
    /\ \E is \in SUBSET PostedItems :
         /\ Cardinality(is) \in 1 .. MaxBulk
         /\ InsertRows(is)
    /\ UNCHANGED <<jobs, google, fileVars, requestVars, historyVars>>

-----------------------------------------------------------------------------
(* The dashboard: reviews.                                                 *)

\* An item is in the CMS under its key or by its content.
Brought(i) ==
    \E x \in reviews :
        \/ \E now \in Present : x.key = RowOf(i, now).key
        \/ x.body = i.body /\ (i.time = NoTime \/ x.time.at = i.time.at)

\* History: what a user takes out no request has to bring any more.
TakenOut ==
    /\ due' = [r \in Reqs |-> {i \in due[r] : Brought(i) => Brought(i)'}]
    /\ since' = [r \in Reqs |-> since[r] \cap reviews']

\* Zod takes any number as a time; without one createReview takes now.
FormTimes == [unit : Units, at : Past] \cup {Ms(t) : t \in Present}

CreateReview ==
    /\ MayAdd
    /\ \E n \in FormIds, b \in Typed, t \in FormTimes :
         /\ <<"form", n>> \notin Keys(reviews)
         /\ reviews' = reviews \cup {[key |-> <<"form", n>>, body |-> b, time |-> t]}
    /\ UNCHANGED <<jobs, google, fileVars, requestVars, historyVars>>

\* The key of a row is never updated, so it may stand for another body.
UpdateReview ==
    /\ \E x \in reviews : \E b \in Typed \cup {x.body}, t \in EditTimes \cup {x.time} :
         reviews' = (reviews \ {x}) \cup {[x EXCEPT !.body = b, !.time = t]}
    /\ TakenOut
    /\ UNCHANGED <<jobs, google, fileVars, requestVars>>

DeleteReview ==
    /\ \E x \in reviews : reviews' = reviews \ {x}
    /\ TakenOut
    /\ UNCHANGED <<jobs, google, fileVars, requestVars>>

-----------------------------------------------------------------------------
(* The dashboard: jobs.                                                    *)

\* A slug that is taken fails on the unique index.
CreateJob ==
    /\ "jobs" \in uses
    /\ \E s \in Slugs, st \in JobStatuses :
         /\ jobs[s] = "none"
         /\ jobs' = [jobs EXCEPT ![s] = st]
    /\ UNCHANGED <<reviews, google, fileVars, requestVars, historyVars>>

\* Any of its keys, the slug too.  UpdateJobSchema is CreateJobSchema.partial(),
\* and Zod 4 fills in the default of a key that the body does not name: without a
\* status it is a body with "active".
UpdateJob ==
    /\ \E s \in {t \in Slugs : jobs[t] # "none"}, u \in Slugs, st \in JobStatuses :
         /\ u = s \/ jobs[u] = "none"
         /\ jobs' = [jobs EXCEPT ![s] = "none", ![u] = st]
    /\ UNCHANGED <<reviews, google, fileVars, requestVars, historyVars>>

DeleteJob ==
    /\ \E s \in {t \in Slugs : jobs[t] # "none"} : jobs' = [jobs EXCEPT ![s] = "none"]
    /\ UNCHANGED <<reviews, google, fileVars, requestVars, historyVars>>

\* Mutant: any status of the file gets in.
ParsedStatusRaw(st) == st

\* parseJobsFile: a status it does not know counts as active.
ParsedStatus(st) == IF st \in JobStatuses THEN st ELSE "active"

\* importJobsFromRepo up to readFile; entries are [slug, status].
JobsRead(r) ==
    /\ jobsFile # {}
    /\ Cardinality(jobsFile) <= MaxRepoImport
    /\ Go(r, "idle", "jobs",
          {[e EXCEPT !.status = ParsedStatus(e.status)] : e \in jobsFile})
    /\ UNCHANGED <<reviews, jobs, google, fileVars, page, historyVars>>

FileStatus(is, s) == {e.status : e \in {x \in is : x.slug = s}}

\* createMany with skipDuplicates, by slug.
JobsInserted(old, s, is) ==
    IF old[s] # "none" \/ FileStatus(is, s) = {} THEN {old[s]} ELSE FileStatus(is, s)

JobsInsert(r) ==
    /\ End(r, "jobs")
    /\ \E f \in [Slugs -> {"none"} \cup JobStatuses \cup {e.status : e \in items[r]}] :
         /\ \A s \in Slugs : f[s] \in JobsInserted(jobs, s, items[r])
         /\ jobs' = f
    /\ UNCHANGED <<reviews, google, fileVars>>

-----------------------------------------------------------------------------
(* Google and the worker.                                                  *)

\* Somebody reviews the business.
Post ==
    /\ "reviews" \in uses
    /\ \E g \in GoogleIds :
         /\ \A n \in DOMAIN google : google[n] # g
         /\ google' = <<g>> \o google
    /\ UNCHANGED <<reviews, jobs, fileVars, requestVars, historyVars>>

\* orderBy time desc, on the column as it is stored.
Later(x, y) ==
    \/ x.time.unit = "ms" /\ y.time.unit = "s"
    \/ x.time.unit = y.time.unit /\ x.time.at > y.time.at

\* publicReviews: the sets of rows it may return (equal times in any order).
Displays ==
    LET rated == {x \in reviews : Stars[x.body] >= MinRating}
    IN  {D \in SUBSET rated :
            /\ D = rated \/ Cardinality(D) = Limit
            /\ Cardinality(D) <= Limit
            /\ \A x \in D, y \in rated \ D : ~Later(y, x)}

\* toUnixSeconds.
FileTime(time) == [time EXCEPT !.unit = "s"]

\* buildJobsData
FileJobs == {[slug |-> s, status |-> jobs[s]] :
                s \in {t \in Slugs : jobs[t] \in {"active", "expired"}}}

\* The commit of a publish: what serializeReview and serializeJob keep.
Publish ==
    /\ \E D \in Displays :
         file' = {[body |-> x.body, time |-> FileTime(x.time), ext |-> NoExt] : x \in D}
    /\ jobsFile' = FileJobs
    /\ UNCHANGED <<source, uses, reviews, jobs, google, requestVars, historyVars>>

-----------------------------------------------------------------------------

RepoImport(r) ==
    \/ RepoRead(r) \/ RepoCompare(r) \/ RepoInsert(r) \/ JobsRead(r) \/ JobsInsert(r)

Refresh(r) ==
    \/ RefreshStart(r) \/ RefreshPage(r) \/ RefreshFails(r) \/ RefreshPlaces(r)
    \/ RefreshStore(r)

Next ==
    \/ \E r \in Imports : RepoImport(r)
    \/ \E r \in Refreshes : Refresh(r)
    \/ BulkImport \/ CreateReview \/ UpdateReview \/ DeleteReview
    \/ CreateJob \/ UpdateJob \/ DeleteJob \/ Post \/ Publish

Spec == Init /\ [][Next]_vars

-----------------------------------------------------------------------------
(* Properties.                                                             *)

Done(r) == pc[r] # "idle" /\ pc'[r] = "idle"

\* The rows that a repository import which returns now has inserted.
Imported(r) == IF pc[r] = "insert" /\ Done(r) THEN reviews' \ reviews ELSE {}

\* "an incoming item is dropped if an equivalent review (same name+text+
\* second-precision time) already exists in the CMS, regardless of how that row
\* was keyed" (review.service.ts 166-168): no dated review that has been there
\* since the import began is inserted again, whatever wrote it, under whatever
\* key and in whatever unit, however often the file went round through the
\* worker, and whoever writes, edits or deletes beside the import.
NoDoublingStep ==
    \A r \in Reqs : \A x \in Imported(r) :
        x.time.at \in Past =>
            ~\E y \in since[r] : y.body = x.body /\ y.time.at = x.time.at

NoDoubling == [][NoDoublingStep]_vars

\* "Idempotent AND cross-source safe ... importing a repo whose reviews already
\* came from Google won't double the corpus" (review.service.ts 166-169), of all
\* that is in the CMS when the import inserts, and up to the blanks that the
\* import trims.
CrossSourceSafeStep ==
    \A r \in Reqs : \A x \in Imported(r) :
        x.time.at \in Past =>
            ~\E y \in reviews : Trim[y.body] = Trim[x.body] /\ y.time.at = x.time.at

CrossSourceSafe == [][CrossSourceSafeStep]_vars

\* "so the CMS becomes the superset" (bitbucket.client.ts 66): an import or a
\* refresh that returns has brought every review that was in the file, or on
\* Google, when it began, except what a user took out meanwhile: although it leaves
\* out what it takes for a duplicate, others write beside it, and Google's list
\* grows between two pages.
BringsAllStep ==
    \A r \in Reqs : Done(r) /\ pc[r] \in {"compare", "insert", "store"} =>
        \A i \in due[r] : Brought(i)'

BringsAll == [][BringsAllStep]_vars

=============================================================================
