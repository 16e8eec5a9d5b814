------------------------------ MODULE Delivery ------------------------------
(***************************************************************************)
(* The publish-to-site pipeline: publishNow (delivery.service.ts) enqueues *)
(* SyncJob rows, the cron worker (delivery/worker.ts) claims the due ones  *)
(* and sends the organization's content to its site, retryDeliveryJob      *)
(* (deliveryJobs.service.ts) re-queues failed rows.                        *)
(*                                                                         *)
(* node-cron starts a tick every five seconds whether or not the previous  *)
(* one has returned, and every `await` lets the other ticks and the HTTP   *)
(* handlers run, so a tick and a publish are sequences of steps here, one  *)
(* per database or HTTP call.                                              *)
(*                                                                         *)
(* Time is abstracted to what the code compares: `due` is                  *)
(* scheduledAt <= now, `stale` is startedAt < now - STUCK_MS, and `older`  *)
(* is the order of scheduledAt among the rows that are or were due.  The   *)
(* order in which a tick handles the rows of a batch is left open.         *)
(***************************************************************************)
EXTENDS Integers, FiniteSets

CONSTANTS
    Orgs,          \* organizations
    Jobs,          \* SyncJob row ids that may ever be used (bound)
    NoJob,         \* "findFirst returned null"
    JobOrg,        \* the organization a row id belongs to once created
    Target,        \* what dispatch() finds configured, per organization
    Ticks,         \* concurrent invocations of processDueJobs (bound)
    Publishers,    \* concurrent POST /delivery-jobs/publish requests (bound)
    MaxAttempts,   \* MAX_ATTEMPTS
    Batch,         \* the `take` of the due query
    MaxContent,    \* bound on content versions
    FaultKinds,    \* which of the faults below may happen
    MaxFaults      \* bound on the number of faults

\* git: commit a snapshot; hook: POST to a build hook or cache-bust URL;
\* none: nothing configured, dispatch returns at once.
Targets == {"git", "hook", "none"}

\* crash: the Node process dies and restarts; db: a query throws;
\* slow: a dispatch is still in flight STUCK_MS after its claim.
Faults == {"crash", "db", "slow"}

ASSUME DeliveryAssumption ==
    /\ Orgs # {}
    /\ NoJob \notin Jobs
    /\ JobOrg \in [Jobs -> Orgs]
    /\ Target \in [Orgs -> Targets]
    /\ MaxAttempts \in Nat \ {0}
    /\ Batch \in Nat \ {0}
    /\ MaxContent \in Nat \ {0}
    /\ FaultKinds \subseteq Faults
    /\ MaxFaults \in Nat

VARIABLES
    status,     \* SyncJob.status, "none" before the row exists
    due,        \* SyncJob.scheduledAt <= now
    older,      \* <<i, j>>: i has the earlier scheduledAt
    stale,      \* SyncJob.startedAt < now - STUCK_MS
    attempts,   \* SyncJob.attempts
    content,    \* version of the organization's publishable rows
    pc,         \* per tick: where it is
    todo,       \* per tick: the due rows it fetched and has not reached
    cur,        \* per tick: the row in processJob
    att,        \* per tick: job.attempts as read
    snap,       \* per tick: the content version it sends
    pub,        \* the publish requests
    want,       \* history: newest version a publish has handed to the job
    delivered,  \* history: newest version that reached the site for the job
    faults      \* faults so far

jobVars == <<status, due, older, stale, attempts>>
history == <<want, delivered>>
tickVars == <<pc, todo, cur, att, snap>>
vars == <<status, due, older, stale, attempts, content, pc, todo, cur, att, snap,
          pub, want, delivered, faults>>

Statuses == {"none", "pending", "running", "success", "failed"}

\* Where a tick is: between cron fires; before the due query; in the loop;
\* then, for the job it holds, after the claim, after loading job and
\* organization, with the POST under way, with the POST served but
\* unanswered, and before the final write of the try or the catch block.
Holding == {"claimed", "loaded", "send", "sent", "ok", "err"}
TickPcs == {"idle", "fetch", "next"} \cup Holding

PubRec == [pc: {"idle", "found"}, org: Orgs, job: Jobs \cup {NoJob}, ver: Nat]

TypeOK ==
    /\ status \in [Jobs -> Statuses]
    /\ due \in [Jobs -> BOOLEAN]
    /\ older \subseteq Jobs \X Jobs
    /\ stale \in [Jobs -> BOOLEAN]
    /\ attempts \in [Jobs -> Nat]
    /\ content \in [Orgs -> Nat]
    /\ pc \in [Ticks -> TickPcs]
    /\ todo \in [Ticks -> SUBSET Jobs]
    /\ cur \in [Ticks -> Jobs \cup {NoJob}]
    /\ att \in [Ticks -> Nat]
    /\ snap \in [Ticks -> Nat]
    /\ pub \in [Publishers -> PubRec]
    /\ want \in [Jobs -> Nat]
    /\ delivered \in [Jobs -> Nat]
    /\ faults \in Nat

AnyOrg == CHOOSE o \in Orgs : TRUE
IdlePub == [pc |-> "idle", org |-> AnyOrg, job |-> NoJob, ver |-> 0]

Init ==
    /\ status = [j \in Jobs |-> "none"]
    /\ due = [j \in Jobs |-> FALSE]
    /\ older = {}
    /\ stale = [j \in Jobs |-> FALSE]
    /\ attempts = [j \in Jobs |-> 0]
    /\ content = [o \in Orgs |-> 1]
    /\ pc = [t \in Ticks |-> "idle"]
    /\ todo = [t \in Ticks |-> {}]
    /\ cur = [t \in Ticks |-> NoJob]
    /\ att = [t \in Ticks |-> 0]
    /\ snap = [t \in Ticks |-> 0]
    /\ pub = [p \in Publishers |-> IdlePub]
    /\ want = [j \in Jobs |-> 0]
    /\ delivered = [j \in Jobs |-> 0]
    /\ faults = 0

\* The order once j has been given a new scheduledAt, later than those of S.
After(j, S) ==
    LET others == {i \in Jobs \ {j} : status[i] # "none"}
    IN  {x \in older : x[1] # j /\ x[2] # j}
          \cup {<<i, j>> : i \in others \cap S} \cup {<<j, i>> : i \in others \ S}

\* j gets the present time, and goes behind every row.
Last(j) == older' = After(j, Jobs)

\* j gets the time at which its publish began, before others perhaps.
Somewhere(j) ==
    \E S \in SUBSET Jobs :
        /\ \A x \in older : x[2] \in S => x[1] \in S
        /\ older' = After(j, S)

Larger(m, n) == IF m < n THEN n ELSE m

InFlight(t) == pc[t] \in Holding

Fault(kind) ==
    /\ kind \in FaultKinds
    /\ faults < MaxFaults
    /\ faults' = faults + 1

-----------------------------------------------------------------------------
(* The dashboard: content edits, publish, retry.                           *)

\* A review or job mutation, committed before its request returns.
Edit(o) ==
    /\ content[o] < MaxContent
    /\ content' = [content EXCEPT ![o] = @ + 1]
    /\ UNCHANGED <<jobVars, tickVars, pub, history, faults>>

\* Mutant: coalescing also into the row being dispatched.
OpenOrRunningJobs(o) ==
    {j \in Jobs : JobOrg[j] = o /\ status[j] \in {"pending", "running"}}

\* The rows publishNow looks for, and the last of them by scheduledAt.
OpenJobs(o) == {j \in Jobs : JobOrg[j] = o /\ status[j] = "pending"}

LatestOpen(o) ==
    LET later == {j \in OpenJobs(o) : ~due[j]}
    IN  IF later # {} THEN later ELSE OpenJobs(o)

\* publishNow up to its findFirst.  `ver` is what the user publishes.
PublishFind(p, o) ==
    /\ pub[p].pc = "idle"
    /\ \E j \in IF OpenJobs(o) = {} THEN {NoJob} ELSE LatestOpen(o) :
         pub' = [pub EXCEPT ![p] =
                   [pc |-> "found", org |-> o, job |-> j, ver |-> content[o]]]
    /\ UNCHANGED <<jobVars, content, tickVars, history, faults>>

\* The row found earlier gets a new scheduledAt, whatever its status is now.
PublishCoalesce(p) ==
    LET j == pub[p].job IN
    /\ pub[p].pc = "found"
    /\ j # NoJob
    /\ due' = [due EXCEPT ![j] = TRUE]
    /\ Somewhere(j)
    /\ want' = [want EXCEPT ![j] = Larger(@, pub[p].ver)]
    /\ pub' = [pub EXCEPT ![p] = IdlePub]
    /\ UNCHANGED <<status, stale, attempts, content, tickVars, delivered,
                   faults>>

\* Mutant: a status the worker does not know.
QueuedStatus == "queued"

NewRowStatus == "pending"

\* No pending row was found: insert one.
PublishCreate(p) ==
    /\ pub[p].pc = "found"
    /\ pub[p].job = NoJob
    /\ \E j \in Jobs :
         /\ status[j] = "none"
         /\ JobOrg[j] = pub[p].org
         /\ status' = [status EXCEPT ![j] = NewRowStatus]
         /\ due' = [due EXCEPT ![j] = TRUE]
         /\ Somewhere(j)
         /\ want' = [want EXCEPT ![j] = pub[p].ver]
    /\ pub' = [pub EXCEPT ![p] = IdlePub]
    /\ UNCHANGED <<stale, attempts, content, tickVars, delivered, faults>>

\* Mutant: any settled row can be retried.
RetryableSettled(j) == status[j] \in {"failed", "success"}

Retryable(j) == status[j] = "failed"

\* One UPDATE: the status test and the reset are atomic.
Retry(j) ==
    /\ Retryable(j)
    /\ status' = [status EXCEPT ![j] = "pending"]
    /\ due' = [due EXCEPT ![j] = TRUE]
    /\ Last(j)
    /\ attempts' = [attempts EXCEPT ![j] = 0]
    /\ UNCHANGED <<stale, content, tickVars, pub, history, faults>>

-----------------------------------------------------------------------------
(* Time.                                                                   *)

BecomeDue(j) ==
    /\ status[j] = "pending"
    /\ ~due[j]
    /\ due' = [due EXCEPT ![j] = TRUE]
    /\ Last(j)
    /\ UNCHANGED <<status, stale, attempts, content, tickVars, pub, history,
                   faults>>

\* STUCK_MS passes.  While a tick still holds the job this is a "slow" fault.
BecomeStale(j) ==
    /\ status[j] = "running"
    /\ ~stale[j]
    /\ IF \E t \in Ticks : InFlight(t) /\ cur[t] = j
       THEN Fault("slow")
       ELSE UNCHANGED faults
    /\ stale' = [stale EXCEPT ![j] = TRUE]
    /\ UNCHANGED <<status, due, older, attempts, content, tickVars, pub, history>>

-----------------------------------------------------------------------------
(* The worker: processDueJobs.                                             *)

Goto(t, p) ==
    /\ pc' = [pc EXCEPT ![t] = p]
    /\ UNCHANGED <<todo, cur, att, snap>>

StuckJobs == {j \in Jobs : status[j] = "running" /\ stale[j]}

\* The cron fires; the first statement resets the stuck rows.
TickStart(t) ==
    /\ pc[t] = "idle"
    /\ status' = [j \in Jobs |->
                    IF j \in StuckJobs THEN "pending" ELSE status[j]]
    /\ Goto(t, "fetch")
    /\ UNCHANGED <<due, older, stale, attempts, content, pub, history, faults>>

DueJobs == {j \in Jobs : status[j] = "pending" /\ due[j]}

\* Mutant: without the orderBy.
AnyBatch(S) == TRUE

\* orderBy scheduledAt asc
Oldest(S) == \A j \in S, i \in DueJobs \ S : <<i, j>> \notin older

Batches == {S \in SUBSET DueJobs :
              \/ S = DueJobs /\ Cardinality(S) <= Batch
              \/ Cardinality(S) = Batch /\ Oldest(S)}

\* Between two jobs: the loop goes on while its list is not empty.
Loop(t, rest) ==
    /\ pc' = [pc EXCEPT ![t] = IF rest = {} THEN "idle" ELSE "next"]
    /\ todo' = [todo EXCEPT ![t] = rest]
    /\ cur' = [cur EXCEPT ![t] = NoJob]
    /\ att' = [att EXCEPT ![t] = 0]
    /\ snap' = [snap EXCEPT ![t] = 0]

FetchDue(t) ==
    /\ pc[t] = "fetch"
    /\ \E S \in Batches : Loop(t, S)
    /\ UNCHANGED <<jobVars, content, pub, history, faults>>

(* processJob.                                                             *)

\* Mutant: the claim forgets to test that nobody runs the row.
ClaimableWhileRunning(j) == status[j] \in {"pending", "running"}

\* The WHERE clause of the claim: not scheduledAt, which was read earlier.
Claimable(j) == status[j] = "pending"

Claim(t, j) ==
    /\ pc[t] = "next"
    /\ j \in todo[t]
    /\ Claimable(j)
    /\ status' = [status EXCEPT ![j] = "running"]
    /\ stale' = [stale EXCEPT ![j] = FALSE]
    /\ attempts' = [attempts EXCEPT ![j] = @ + 1]
    /\ pc' = [pc EXCEPT ![t] = "claimed"]
    /\ cur' = [cur EXCEPT ![t] = j]
    /\ todo' = [todo EXCEPT ![t] = @ \ {j}]
    /\ UNCHANGED <<att, snap, due, older, content, pub, history, faults>>

\* claim.count === 0
Skip(t, j) ==
    /\ pc[t] = "next"
    /\ j \in todo[t]
    /\ ~Claimable(j)
    /\ Loop(t, todo[t] \ {j})
    /\ UNCHANGED <<jobVars, content, pub, history, faults>>

\* Reads the row and its organization.  Neither can be missing: no code
\* deletes a SyncJob, and its foreign key keeps the organization.
Load(t) ==
    /\ pc[t] = "claimed"
    /\ pc' = [pc EXCEPT ![t] = "loaded"]
    /\ att' = [att EXCEPT ![t] = attempts[cur[t]]]
    /\ UNCHANGED <<todo, cur, snap, jobVars, content, pub, history, faults>>

TargetOf(t) == Target[JobOrg[cur[t]]]

\* dispatch() up to its POST: the version of the rows it read (git), or the
\* least version a build started by the POST can pull (hook).
Prepare(t) ==
    /\ pc[t] = "loaded"
    /\ pc' = [pc EXCEPT ![t] = IF TargetOf(t) = "none" THEN "ok" ELSE "send"]
    /\ snap' = [snap EXCEPT ![t] = content[JobOrg[cur[t]]]]
    /\ UNCHANGED <<todo, cur, att, jobVars, content, pub, history, faults>>

\* The remote side accepts the commit or starts the build.
Land(t) ==
    /\ pc[t] = "send"
    /\ delivered' = [delivered EXCEPT ![cur[t]] = Larger(@, snap[t])]
    /\ Goto(t, "sent")
    /\ UNCHANGED <<jobVars, content, pub, want, faults>>

Reply(t) ==
    /\ pc[t] = "sent"
    /\ Goto(t, "ok")
    /\ UNCHANGED <<jobVars, content, pub, history, faults>>

\* Mutant: res.ok is not tested.
HttpErrorIgnored(t) ==
    /\ pc[t] \in {"send", "sent"}
    /\ Goto(t, "ok")
    /\ UNCHANGED <<jobVars, content, pub, history, faults>>

\* A non-2xx answer or a network error, before or after the POST took effect.
HttpError(t) ==
    /\ pc[t] \in {"send", "sent"}
    /\ Goto(t, "err")
    /\ UNCHANGED <<jobVars, content, pub, history, faults>>

\* The three final writes name the row by id only: no test of its status.
Succeed(t) ==
    /\ pc[t] = "ok"
    /\ status' = [status EXCEPT ![cur[t]] = "success"]
    /\ Loop(t, todo[t])
    /\ UNCHANGED <<due, older, stale, attempts, content, pub, history, faults>>

\* Mutant: off by one.
OutOfAttemptsLate(t) == att[t] > MaxAttempts

\* The attempts read by Load, not the row's present ones.
OutOfAttempts(t) == att[t] >= MaxAttempts

GiveUp(t) ==
    /\ pc[t] = "err"
    /\ OutOfAttempts(t)
    /\ status' = [status EXCEPT ![cur[t]] = "failed"]
    /\ Loop(t, todo[t])
    /\ UNCHANGED <<due, older, stale, attempts, content, pub, history, faults>>

Backoff(t) ==
    /\ pc[t] = "err"
    /\ ~OutOfAttempts(t)
    /\ status' = [status EXCEPT ![cur[t]] = "pending"]
    /\ due' = [due EXCEPT ![cur[t]] = FALSE]
    /\ Loop(t, todo[t])
    /\ UNCHANGED <<older, stale, attempts, content, pub, history, faults>>

-----------------------------------------------------------------------------
(* Faults.                                                                 *)

\* A query inside the try block throws: a content read of dispatch(), or the
\* write of "success" after the site was updated.
TryFails(t) ==
    /\ \/ pc[t] = "loaded" /\ TargetOf(t) = "git"
       \/ pc[t] = "ok"
    /\ Fault("db")
    /\ Goto(t, "err")
    /\ UNCHANGED <<jobVars, content, pub, history>>

\* A query outside it throws: the tick ends, its job stays "running".
TickFails(t) ==
    /\ pc[t] \in {"fetch", "next", "claimed", "err"}
    /\ Fault("db")
    /\ Loop(t, {})
    /\ UNCHANGED <<jobVars, content, pub, history>>

\* The process dies: ticks and requests vanish, the rows remain.
Crash ==
    /\ Fault("crash")
    /\ pc' = [t \in Ticks |-> "idle"]
    /\ todo' = [t \in Ticks |-> {}]
    /\ cur' = [t \in Ticks |-> NoJob]
    /\ att' = [t \in Ticks |-> 0]
    /\ snap' = [t \in Ticks |-> 0]
    /\ pub' = [p \in Publishers |-> IdlePub]
    /\ UNCHANGED <<jobVars, content, history>>

-----------------------------------------------------------------------------

TickStep(t) ==
    \/ TickStart(t) \/ FetchDue(t)
    \/ \E j \in Jobs : Claim(t, j) \/ Skip(t, j)
    \/ Load(t) \/ Prepare(t) \/ Land(t) \/ Reply(t) \/ HttpError(t)
    \/ Succeed(t) \/ GiveUp(t) \/ Backoff(t)

Next ==
    \/ \E o \in Orgs : Edit(o)
    \/ \E p \in Publishers, o \in Orgs : PublishFind(p, o)
    \/ \E p \in Publishers : PublishCoalesce(p) \/ PublishCreate(p)
    \/ \E j \in Jobs : Retry(j) \/ BecomeDue(j) \/ BecomeStale(j)
    \/ \E t \in Ticks : TickStep(t) \/ TryFails(t) \/ TickFails(t)
    \/ Crash

Spec == Init /\ [][Next]_vars

\* The cron keeps firing, every await returns (fetch has the timeouts of
\* undici), and time passes.  No fairness for users or faults.
Fairness ==
    /\ \A t \in Ticks : WF_vars(TickStep(t))
    /\ \A j \in Jobs : WF_vars(BecomeDue(j)) /\ WF_vars(BecomeStale(j))

FairSpec == Spec /\ Fairness

-----------------------------------------------------------------------------
(* Properties.                                                             *)

\* No dispatch outlives STUCK_MS.
Timely == "slow" \notin FaultKinds

\* Claim (worker.ts 66-70) is the only thing that keeps overlapping ticks
\* apart: two ticks never dispatch the same row at the same time, whatever
\* the publishes, retries, resets, crashes and aborted ticks around them.
ExclusiveDispatch ==
    \A t, u \in Ticks :
        t # u /\ InFlight(t) /\ InFlight(u) => cur[t] # cur[u]

Sends(j) == Target[JobOrg[j]] # "none"

\* A row that says "success" reached its site with content at least as new as
\* what every user who published into that row saw when publishing, although
\* publishNow updates a row it read earlier and never looks at its status.
SuccessCoversPublish ==
    \A j \in Jobs : status[j] = "success" /\ Sends(j) => delivered[j] >= want[j]

\* A row that says "success" was accepted by the remote side at least once.
SuccessWasSent ==
    \A j \in Jobs : status[j] = "success" /\ Sends(j) => delivered[j] > 0

\* MAX_ATTEMPTS is exceeded by at most one attempt per fault, counting the
\* zombies that a slow dispatch leaves behind.
AttemptBudget ==
    \A j \in Jobs : attempts[j] <= MaxAttempts + faults

\* A delivered row is never touched again, and a failed one comes back only
\* through Retry, with a full set of attempts.
SettledStep ==
    \A j \in Jobs :
        /\ status[j] = "success" => status'[j] = "success"
        /\ status[j] = "failed" /\ status'[j] # "failed" =>
             status'[j] = "pending" /\ attempts'[j] = 0

Settled == [][SettledStep]_vars

\* Somebody never stops publishing: each time, a row that waits goes back to
\* the end of the line.
Impatient == []<><<\E p \in Publishers : PublishCoalesce(p)>>_vars

\* Every row that is created, retried or orphaned by a crash is eventually
\* delivered or given up, however many rows that fail and are retried share the
\* batches with it; no orphan stays "running" for ever.
EventuallySettles ==
    Impatient \/ \A j \in Jobs :
        status[j] \in {"pending", "running"}
          ~> status[j] \in {"success", "failed"}

\* The promise of a row (JobLifecycle): pending and running look the same from
\* outside, however often the worker, a crash or the stuck reset moves the row
\* between them, a row is finished only when the site has what was asked of it,
\* and only a failed one is reopened.
PhaseOf(s) ==
    CASE s = "none" -> "absent"
      [] s \in {"pending", "running"} -> "open"
      [] s = "success" -> "done"
      [] s = "failed" -> "failed"

Lifecycle == INSTANCE JobLifecycle WITH
    Sending <- {j \in Jobs : Sends(j)},
    phase <- [j \in Jobs |-> PhaseOf(status[j])],
    asked <- want,
    got <- delivered

ImplementsLifecycle == Lifecycle!Spec

=============================================================================
