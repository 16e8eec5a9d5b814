----------------------------- MODULE OrgConfig ------------------------------
(***************************************************************************)
(* Organization.config is one JSON column that several handlers read,      *)
(* change and write back whole: patchConfig (delivery.service.ts),         *)
(* touchLastRefreshed (review.service.ts), and updateOrganization, which   *)
(* stores the value the client computed from an earlier GET.  This module  *)
(* follows one organization: the config, the publishable rows, the files   *)
(* the worker commits to its site (one query per collection, then one      *)
(* commit), and the "unpublished changes" indicator the dashboard derives  *)
(* from the stamps.                                                        *)
(***************************************************************************)
EXTENDS Naturals, FiniteSets

CONSTANTS
    Reqs,         \* requests (and open forms) that may overlap (bound)
    Ships,        \* dispatches of the worker that may overlap (bound)
    MaxTime,      \* bound on the stamps taken from Date.now()
    MaxContent,   \* bound on content versions
    MaxSettings   \* bound on the changes a super admin makes

ASSUME OrgConfigAssumption ==
    /\ IsFiniteSet(Reqs)
    /\ Reqs \cap Ships = {}
    /\ MaxTime \in Nat
    /\ MaxContent \in Nat
    /\ MaxSettings \in Nat

VARIABLES
    config,    \* the column
    content,   \* per collection: version of its rows
    queued,    \* whether a delivery job is pending
    failed,    \* whether one is out of attempts
    stage,     \* per dispatch: what it does next
    seen,      \* per dispatch and collection: the version it read
    shipped,   \* per collection: the version on the site
    now,       \* the clock
    pc,        \* per request: where it is
    kind,      \* per request: which handler runs
    copy,      \* per request: the config it read
    at         \* per request: the Date.now() patchConfig was given

workerVars == <<stage, seen>>
requestVars == <<pc, kind, copy, at>>
jobVars == <<queued, failed>>
vars == <<config, content, queued, failed, stage, seen, shipped, now, pc, kind, copy,
          at>>

\* The files of one commit.
Collections == {"reviews", "jobs"}

\* delivery.lastContentChangeAt, delivery.lastPublishedAt,
\* reviews.lastRefreshedAt, and a version for all the other keys together.
Config == [changedAt: Nat, publishedAt: Nat, refreshedAt: Nat, settings: Nat]

\* change: create, update or delete a row; ingest: import or refresh reviews;
\* publish: publishNow; form: a super admin edits the organization.
Kinds == {"change", "ingest", "publish", "form"}

\* Before each read of config, and between that read and its write (...W).
Steps == {"idle", "mark", "markW", "stamp", "stampW", "touch", "touchW",
          "formW"}

TypeOK ==
    /\ config \in Config
    /\ content \in [Collections -> Nat]
    /\ stage \in [Ships -> {"idle", "reviews", "jobs", "commit"}]
    /\ seen \in [Ships \X Collections -> Nat]
    /\ queued \in BOOLEAN /\ failed \in BOOLEAN
    /\ shipped \in [Collections -> Nat]
    /\ now \in Nat
    /\ pc \in [Reqs -> Steps]
    /\ kind \in [Reqs -> Kinds]
    /\ copy \in [Reqs -> Config]
    /\ at \in [Reqs -> Nat]

NoConfig == [changedAt |-> 0, publishedAt |-> 0, refreshedAt |-> 0,
             settings |-> 0]

Init ==
    /\ config = NoConfig
    /\ content = [c \in Collections |-> 0]
    /\ queued = FALSE /\ failed = FALSE
    /\ stage = [s \in Ships |-> "idle"]
    /\ seen = [x \in Ships \X Collections |-> 0]
    /\ shipped = [c \in Collections |-> 0]
    /\ now = 0
    /\ pc = [r \in Reqs |-> "idle"]
    /\ kind = [r \in Reqs |-> "change"]
    /\ copy = [r \in Reqs |-> NoConfig]
    /\ at = [r \in Reqs |-> 0]

\* A request takes at most two stamps: it starts only while the clock bound
\* leaves room for those of every request.
ClockRoom == now + 2 * Cardinality(Reqs) <= MaxTime

\* A request of kind k starts and goes to step p.
Start(r, k, p) ==
    /\ pc[r] = "idle"
    /\ k # "form" => ClockRoom
    /\ pc' = [pc EXCEPT ![r] = p]
    /\ kind' = [kind EXCEPT ![r] = k]

\* A request goes to step p; one that ends forgets what it read.
Goto(r, p) ==
    /\ pc' = [pc EXCEPT ![r] = p]
    /\ copy' = [copy EXCEPT ![r] = NoConfig]
    /\ at' = [at EXCEPT ![r] = 0]
    /\ kind' = [kind EXCEPT ![r] = IF p = "idle" THEN "change" ELSE @]

-----------------------------------------------------------------------------
(* The rows.                                                               *)

NewRows(c) ==
    /\ content[c] < MaxContent
    /\ content' = [content EXCEPT ![c] = @ + 1]

\* createReview, updateReview, deleteReview and their job counterparts; also
\* importJobs when a row was new.
Change(r) ==
    /\ Start(r, "change", "mark")
    /\ \E c \in Collections : NewRows(c)
    /\ UNCHANGED <<config, jobVars, workerVars, shipped, now, copy, at>>

\* Mutant: new rows are not marked.
IngestUnmarked(r) ==
    /\ Start(r, "ingest", "touch")
    /\ NewRows("reviews")
    /\ UNCHANGED <<config, jobVars, workerVars, shipped, now, copy, at>>

\* insertDeduped: marks only if a row was new, touches in any case.
Ingest(r) ==
    /\ \/ Start(r, "ingest", "mark") /\ NewRows("reviews")
       \/ Start(r, "ingest", "touch") /\ UNCHANGED content
    /\ UNCHANGED <<config, jobVars, workerVars, shipped, now, copy, at>>

\* publishNow up to its stamp: a job is pending, new or coalesced.
Enqueue(r) ==
    /\ Start(r, "publish", "stamp")
    /\ queued' = TRUE
    /\ UNCHANGED <<config, content, failed, workerVars, shipped, now, copy, at>>

\* retryDeliveryJob
Retry ==
    /\ failed
    /\ queued' = TRUE
    /\ failed' = FALSE
    /\ UNCHANGED <<config, content, workerVars, shipped, now, requestVars>>

-----------------------------------------------------------------------------
(* The worker's dispatch of the pending job.                               *)

ShipClaim(s) ==
    /\ queued
    /\ stage[s] = "idle"
    /\ queued' = FALSE
    /\ stage' = [stage EXCEPT ![s] = "reviews"]
    /\ UNCHANGED <<config, content, failed, seen, shipped, now, requestVars>>

\* The collection read after c.
After(c) == IF c = "reviews" THEN "jobs" ELSE "commit"

\* buildReviewsData, then buildJobsData: rows may change in between.
ShipRead(s, c) ==
    /\ stage[s] = c
    /\ stage' = [stage EXCEPT ![s] = After(c)]
    /\ seen' = [seen EXCEPT ![<<s, c>>] = content[c]]
    /\ UNCHANGED <<config, content, jobVars, shipped, now, requestVars>>

ShipEnd(s) ==
    /\ stage' = [stage EXCEPT ![s] = "idle"]
    /\ seen' = [x \in Ships \X Collections |-> IF x[1] = s THEN 0 ELSE seen[x]]
    /\ UNCHANGED <<config, content, now, requestVars>>

\* Both files in one commit.
Commit(s) ==
    /\ stage[s] = "commit"
    /\ shipped' = [c \in Collections |-> seen[<<s, c>>]]

ShipDone(s) == Commit(s) /\ ShipEnd(s) /\ UNCHANGED jobVars

\* A query or the commit fails, or only its answer is lost: the row becomes
\* pending again or, out of attempts, failed (Delivery counts them).
ShipFails(s) ==
    /\ stage[s] # "idle"
    /\ Commit(s) \/ UNCHANGED shipped
    /\ \/ queued' = TRUE /\ UNCHANGED failed
       \/ failed' = TRUE /\ UNCHANGED queued
    /\ ShipEnd(s)

-----------------------------------------------------------------------------
(* The column.                                                             *)

\* The first statement of patchConfig, after Date.now() for its argument.
PatchRead(r, from, to) ==
    /\ pc[r] = from
    /\ now' = now + 1
    /\ pc' = [pc EXCEPT ![r] = to]
    /\ copy' = [copy EXCEPT ![r] = config]
    /\ at' = [at EXCEPT ![r] = now + 1]
    /\ UNCHANGED <<config, content, jobVars, workerVars, shipped, kind>>

MarkRead(r) == PatchRead(r, "mark", "markW")
StampRead(r) == PatchRead(r, "stamp", "stampW")
\* touchLastRefreshed reads first and takes the time afterwards.
TouchRead(r) ==
    /\ pc[r] = "touch"
    /\ pc' = [pc EXCEPT ![r] = "touchW"]
    /\ copy' = [copy EXCEPT ![r] = config]
    /\ UNCHANGED <<config, content, jobVars, workerVars, shipped, now, kind, at>>

\* The copy with the sub-object merged into it.
Marked(c, t) == [c EXCEPT !.changedAt = t]

Stamped(c, t) == [c EXCEPT !.publishedAt = t]

\* Mutant: the stamp goes under a key of its own.
TouchedElsewhere(c, t) ==
    [k \in DOMAIN c \cup {"touchedAt"} |-> IF k = "touchedAt" THEN t ELSE c[k]]

Touched(c, t) == [c EXCEPT !.refreshedAt = t]

MarkWrite(r) ==
    /\ pc[r] = "markW"
    /\ config' = Marked(copy[r], at[r])
    /\ Goto(r, IF kind[r] = "ingest" THEN "touch" ELSE "idle")
    /\ UNCHANGED <<content, jobVars, workerVars, shipped, now>>

StampWrite(r) ==
    /\ pc[r] = "stampW"
    /\ config' = Stamped(copy[r], at[r])
    /\ Goto(r, "idle")
    /\ UNCHANGED <<content, jobVars, workerVars, shipped, now>>

TouchWrite(r) ==
    /\ pc[r] = "touchW"
    /\ now' = now + 1
    /\ config' = Touched(copy[r], now + 1)
    /\ Goto(r, "idle")
    /\ UNCHANGED <<content, jobVars, workerVars, shipped>>

\* GET /organizations/:id, then PATCH with the config edited or nothing.
FormOpen(r) ==
    /\ Start(r, "form", "formW")
    /\ copy' = [copy EXCEPT ![r] = config]
    /\ UNCHANGED <<config, content, jobVars, workerVars, shipped, now, at>>

FormSave(r) ==
    /\ pc[r] = "formW"
    /\ copy[r].settings < MaxSettings
    /\ config' = [copy[r] EXCEPT !.settings = @ + 1]
    /\ Goto(r, "idle")
    /\ UNCHANGED <<content, jobVars, workerVars, shipped, now>>

FormClose(r) ==
    /\ pc[r] = "formW"
    /\ Goto(r, "idle")
    /\ UNCHANGED <<config, content, jobVars, workerVars, shipped, now>>

-----------------------------------------------------------------------------

Step(r) ==
    \/ Change(r) \/ Ingest(r) \/ Enqueue(r) \/ FormOpen(r)
    \/ MarkRead(r) \/ StampRead(r) \/ TouchRead(r)
    \/ MarkWrite(r) \/ StampWrite(r) \/ TouchWrite(r)
    \/ FormSave(r) \/ FormClose(r)

Ship(s) ==
    \/ ShipClaim(s)
    \/ \E c \in Collections : ShipRead(s, c)
    \/ ShipDone(s) \/ ShipFails(s)

Next == (\E s \in Ships : Ship(s)) \/ (\E r \in Reqs : Step(r)) \/ Retry

Spec == Init /\ [][Next]_vars

-----------------------------------------------------------------------------
(* Properties.                                                             *)

NoChangeShown == config.changedAt <= config.publishedAt

\* Nothing under way: no request, no dispatch, no job pending or failed.
Quiet ==
    /\ \A r \in Reqs : pc[r] = "idle"
    /\ \A s \in Ships : stage[s] = "idle"
    /\ ~queued /\ ~failed

\* "The dashboard compares lastContentChangeAt vs lastPublishedAt"
\* (delivery.service.ts 26-27): when nothing is under way and the stamps show
\* no unpublished change, the site has the rows of every collection, although a
\* commit is put together from queries between which rows change, and may fail
\* before or after it took effect.
IndicatorHonest == Quiet /\ NoChangeShown => shipped = content

=============================================================================
