--------------------------- MODULE DeliveryProofs ---------------------------
(***************************************************************************)
(* Proofs about Delivery, for every set of rows, ticks and publishers and  *)
(* every bound.                                                            *)
(***************************************************************************)
EXTENDS Delivery, TLAPS

-----------------------------------------------------------------------------
(* Type correctness.                                                       *)

\* A tick that is inside processJob holds a row.
HoldsRow == \A t \in Ticks : InFlight(t) => cur[t] \in Jobs

TypeInv == TypeOK /\ HoldsRow

LEMMA IdleType ==
    ASSUME DeliveryAssumption
    PROVE  IdlePub \in PubRec
<1>1. AnyOrg \in Orgs
  BY DEF DeliveryAssumption, AnyOrg
<1>2. QED
  BY <1>1 DEF IdlePub, PubRec

LEMMA InitType ==
    ASSUME DeliveryAssumption, Init
    PROVE  TypeInv
BY IdleType DEF DeliveryAssumption, Init, TypeInv, TypeOK, HoldsRow, InFlight,
                Holding, TickPcs, Statuses

\* A new scheduledAt leaves a relation between rows.
LEMMA OrderType ==
    ASSUME TypeOK, NEW j \in Jobs, Last(j) \/ Somewhere(j)
    PROVE  older' \in SUBSET (Jobs \X Jobs)
<1>1. PICK S \in SUBSET Jobs : older' = After(j, S)
  BY DEF Last, Somewhere
<1>2. After(j, S) \subseteq Jobs \X Jobs
  BY DEF After, TypeOK
<1>3. QED
  BY <1>1, <1>2

\* A step of a tick keeps every variable in its type.
LEMMA TickStepType ==
    ASSUME DeliveryAssumption, TypeInv, NEW t \in Ticks, TickStep(t)
    PROVE  TypeInv'
<1> USE DEF TypeInv, HoldsRow, InFlight, TypeOK, TickPcs, Holding, Statuses,
            jobVars, history, Goto, Loop
<1>1. CASE TickStart(t)
  BY <1>1 DEF TickStart
<1>2. CASE FetchDue(t)
  <2>1. PICK S \in SUBSET Jobs : Loop(t, S)
    BY <1>2 DEF FetchDue, Batches, DueJobs
  <2>2. QED
    BY <1>2, <2>1 DEF FetchDue
<1>3. ASSUME NEW j \in Jobs, Claim(t, j) PROVE TypeInv'
  BY <1>3 DEF Claim
<1>4. ASSUME NEW j \in Jobs, Skip(t, j) PROVE TypeInv'
  BY <1>4 DEF Skip
<1>5. CASE Load(t)
  BY <1>5 DEF Load
<1>6. CASE Prepare(t)
  BY <1>6 DEF Prepare, DeliveryAssumption
<1>7. CASE Land(t)
  BY <1>7 DEF Land, Larger
<1>8. CASE Reply(t)
  BY <1>8 DEF Reply
<1>9. CASE HttpError(t)
  BY <1>9 DEF HttpError
<1>10. CASE Succeed(t)
  BY <1>10 DEF Succeed
<1>11. CASE GiveUp(t)
  BY <1>11 DEF GiveUp
<1>12. CASE Backoff(t)
  BY <1>12 DEF Backoff
<1>13. QED
  BY <1>1, <1>2, <1>3, <1>4, <1>5, <1>6, <1>7, <1>8, <1>9, <1>10, <1>11, <1>12
     DEF TickStep

\* Every step keeps every variable in its type.
LEMMA NextType ==
    ASSUME DeliveryAssumption, TypeInv, [Next]_vars
    PROVE  TypeInv'
<1> USE DEF TypeInv, HoldsRow, InFlight, TypeOK, PubRec, TickPcs, Holding,
            Statuses, jobVars, tickVars, history, Goto, Loop
<1>1. ASSUME NEW o \in Orgs, Edit(o) PROVE TypeInv'
  BY <1>1 DEF Edit
<1>2. ASSUME NEW p \in Publishers, NEW o \in Orgs, PublishFind(p, o)
      PROVE  TypeInv'
  <2>1. PICK j \in Jobs \cup {NoJob} :
          pub' = [pub EXCEPT ![p] =
                   [pc |-> "found", org |-> o, job |-> j, ver |-> content[o]]]
    BY <1>2 DEF PublishFind, LatestOpen, OpenJobs
  <2>2. QED
    BY <1>2, <2>1 DEF PublishFind
<1>3. ASSUME NEW p \in Publishers, PublishCoalesce(p) PROVE TypeInv'
  <2>1. older' \in SUBSET (Jobs \X Jobs)
    BY <1>3, OrderType DEF PublishCoalesce
  <2>2. QED
    BY <1>3, <2>1, IdleType DEF PublishCoalesce, Larger
<1>4. ASSUME NEW p \in Publishers, PublishCreate(p) PROVE TypeInv'
  <2>1. older' \in SUBSET (Jobs \X Jobs)
    BY <1>4, OrderType DEF PublishCreate
  <2>2. QED
    BY <1>4, <2>1, IdleType DEF PublishCreate, NewRowStatus
<1>5. ASSUME NEW j \in Jobs, Retry(j) PROVE TypeInv'
  <2>1. older' \in SUBSET (Jobs \X Jobs)
    BY <1>5, OrderType DEF Retry
  <2>2. QED
    BY <1>5, <2>1 DEF Retry
<1>6. ASSUME NEW j \in Jobs, BecomeDue(j) PROVE TypeInv'
  <2>1. older' \in SUBSET (Jobs \X Jobs)
    BY <1>6, OrderType DEF BecomeDue
  <2>2. QED
    BY <1>6, <2>1 DEF BecomeDue
<1>7. ASSUME NEW j \in Jobs, BecomeStale(j) PROVE TypeInv'
  BY <1>7 DEF BecomeStale, Fault
<1>8. ASSUME NEW t \in Ticks, TickStep(t) PROVE TypeInv'
  BY <1>8, TickStepType
<1>9. ASSUME NEW t \in Ticks, TryFails(t) PROVE TypeInv'
  BY <1>9 DEF TryFails, Fault, TickPcs, TickPcs, Holding
<1>10. ASSUME NEW t \in Ticks, TickFails(t) PROVE TypeInv'
  BY <1>10, IdleType DEF TickFails, Fault, Holding
<1>11. CASE Crash
  BY <1>11, IdleType DEF Crash, Fault, Loop, Holding
<1>12. CASE UNCHANGED vars
  BY <1>12 DEF vars
<1>13. QED
  BY <1>1, <1>2, <1>3, <1>4, <1>5, <1>6, <1>7, <1>8, <1>9, <1>10, <1>11, <1>12
     DEF Next

\* All variables of the pipeline keep their types, for any number of rows,
\* ticks, publishers and faults; a tick inside processJob always holds a row.
THEOREM TypeInvariant ==
    ASSUME DeliveryAssumption
    PROVE  Spec => []TypeInv
<1>1. Init => TypeInv
  BY InitType
<1>2. TypeInv /\ [Next]_vars => TypeInv'
  BY NextType
<1>3. QED
  BY <1>1, <1>2, PTL DEF Spec

THEOREM TypeCorrect ==
    ASSUME DeliveryAssumption
    PROVE  Spec => []TypeOK
<1>1. TypeInv => TypeOK
  BY DEF TypeInv
<1>2. QED
  BY <1>1, TypeInvariant, PTL

-----------------------------------------------------------------------------
(* Exclusive dispatch.  ExclusiveDispatch alone is not inductive: a tick   *)
(* could claim a row that another one holds if that row were "pending".    *)
(* What rules it out is that a held row is "running" and, when no dispatch *)
(* outlives STUCK_MS, not yet stale, so TickStart does not reset it.       *)

HeldRunning ==
    \A t \in Ticks :
        InFlight(t) => status[cur[t]] = "running" /\ ~stale[cur[t]]

ExclusiveInv == TypeInv /\ HeldRunning /\ ExclusiveDispatch

\* A step of a tick keeps the rows in flight apart and running.
LEMMA TickStepExclusive ==
    ASSUME DeliveryAssumption, ExclusiveInv, TypeInv', NEW t \in Ticks, TickStep(t)
    PROVE  HeldRunning' /\ ExclusiveDispatch'
<1> USE DEF ExclusiveInv, HeldRunning, ExclusiveDispatch, TypeInv, HoldsRow,
            TypeOK, TickPcs, InFlight, Holding, Goto, Loop, jobVars, tickVars
<1>1. CASE TickStart(t)
  BY <1>1 DEF TickStart, StuckJobs
<1>2. CASE FetchDue(t)
  <2>1. PICK S \in SUBSET Jobs : Loop(t, S)
    BY <1>2 DEF FetchDue, Batches, DueJobs
  <2>2. QED
    BY <1>2, <2>1 DEF FetchDue
<1>3. ASSUME NEW j \in Jobs, Claim(t, j) PROVE HeldRunning' /\ ExclusiveDispatch'
  <2>1. \A u \in Ticks : InFlight(u) => cur[u] # j
    BY <1>3 DEF Claim, Claimable
  <2>2. QED
    BY <1>3, <2>1 DEF Claim
<1>4. ASSUME NEW j \in Jobs, Skip(t, j) PROVE HeldRunning' /\ ExclusiveDispatch'
  BY <1>4 DEF Skip
<1>5. CASE Load(t)
  BY <1>5 DEF Load
<1>6. CASE Prepare(t)
  BY <1>6 DEF Prepare
<1>7. CASE Land(t)
  BY <1>7 DEF Land
<1>8. CASE Reply(t)
  BY <1>8 DEF Reply
<1>9. CASE HttpError(t)
  BY <1>9 DEF HttpError
<1>10. CASE Succeed(t)
  BY <1>10 DEF Succeed
<1>11. CASE GiveUp(t)
  BY <1>11 DEF GiveUp
<1>12. CASE Backoff(t)
  BY <1>12 DEF Backoff
<1>13. QED
  BY <1>1, <1>2, <1>3, <1>4, <1>5, <1>6, <1>7, <1>8, <1>9, <1>10, <1>11, <1>12
     DEF TickStep

LEMMA NextExclusive ==
    ASSUME DeliveryAssumption, Timely, ExclusiveInv, [Next]_vars
    PROVE  ExclusiveInv'
<1>1. TypeInv'
  BY NextType DEF ExclusiveInv
<1>2. HeldRunning' /\ ExclusiveDispatch'
  <2> USE DEF ExclusiveInv, HeldRunning, ExclusiveDispatch, TypeInv, HoldsRow,
              TypeOK, TickPcs, InFlight, Holding, Goto, Loop, jobVars, tickVars
  <2>1. ASSUME NEW o \in Orgs, Edit(o) PROVE HeldRunning' /\ ExclusiveDispatch'
    BY <2>1 DEF Edit
  <2>2. ASSUME NEW p \in Publishers, NEW o \in Orgs, PublishFind(p, o)
        PROVE  HeldRunning' /\ ExclusiveDispatch'
    BY <2>2 DEF PublishFind
  <2>3. ASSUME NEW p \in Publishers, PublishCoalesce(p)
        PROVE  HeldRunning' /\ ExclusiveDispatch'
    BY <2>3 DEF PublishCoalesce
  <2>4. ASSUME NEW p \in Publishers, PublishCreate(p)
        PROVE  HeldRunning' /\ ExclusiveDispatch'
    BY <2>4 DEF PublishCreate
  <2>5. ASSUME NEW j \in Jobs, Retry(j) PROVE HeldRunning' /\ ExclusiveDispatch'
    BY <2>5 DEF Retry, Retryable
  <2>6. ASSUME NEW j \in Jobs, BecomeDue(j) PROVE HeldRunning' /\ ExclusiveDispatch'
    BY <2>6 DEF BecomeDue
  <2>7. ASSUME NEW j \in Jobs, BecomeStale(j) PROVE HeldRunning' /\ ExclusiveDispatch'
    <3>1. ~ \E t \in Ticks : InFlight(t) /\ cur[t] = j
      BY <2>7 DEF BecomeStale, Fault, Timely
    <3>2. QED
      BY <2>7, <3>1 DEF BecomeStale
  <2>8. ASSUME NEW t \in Ticks, TickStep(t) PROVE HeldRunning' /\ ExclusiveDispatch'
    BY <2>8, <1>1, TickStepExclusive
  <2>9. ASSUME NEW t \in Ticks, TryFails(t) PROVE HeldRunning' /\ ExclusiveDispatch'
    BY <2>9 DEF TryFails
  <2>10. ASSUME NEW t \in Ticks, TickFails(t) PROVE HeldRunning' /\ ExclusiveDispatch'
    BY <2>10 DEF TickFails, Loop
  <2>11. CASE Crash
    BY <2>11 DEF Crash, Loop
  <2>12. CASE UNCHANGED vars
    BY <2>12 DEF vars
  <2>13. QED
    BY <2>1, <2>2, <2>3, <2>4, <2>5, <2>6, <2>7, <2>8, <2>9, <2>10, <2>11, <2>12
       DEF Next
<1>3. QED
  BY <1>1, <1>2 DEF ExclusiveInv

LEMMA InitExclusive ==
    ASSUME DeliveryAssumption, Init
    PROVE  ExclusiveInv
BY InitType DEF Init, ExclusiveInv, HeldRunning, ExclusiveDispatch, InFlight,
                Holding, Loop

LEMMA AlwaysExclusive ==
    ASSUME DeliveryAssumption, Timely
    PROVE  Spec => []ExclusiveInv
<1>1. Init => ExclusiveInv
  BY InitExclusive
<1>2. ExclusiveInv /\ [Next]_vars => ExclusiveInv'
  BY NextExclusive
<1>3. QED
  BY <1>1, <1>2, PTL DEF Spec

\* However many ticks overlap, crash or abort, no row is dispatched by two of
\* them at once, provided no dispatch outlives STUCK_MS.
THEOREM Exclusive ==
    ASSUME DeliveryAssumption, Timely
    PROVE  Spec => []ExclusiveDispatch
<1>1. ExclusiveInv => ExclusiveDispatch
  BY DEF ExclusiveInv
<1>2. QED
  BY <1>1, AlwaysExclusive, PTL

-----------------------------------------------------------------------------
(* Settled rows stay settled: the three final writes test no status, but   *)
(* the row they write is "running".                                        *)

LEMMA SettledNext ==
    ASSUME DeliveryAssumption, ExclusiveInv, [Next]_vars
    PROVE  SettledStep
<1> USE DEF ExclusiveInv, HeldRunning, TypeInv, HoldsRow, TypeOK, Statuses,
            InFlight, Holding, SettledStep, jobVars
<1>1. ASSUME NEW p \in Publishers, PublishCreate(p) PROVE SettledStep
  BY <1>1 DEF PublishCreate
<1>2. ASSUME NEW j \in Jobs, Retry(j) PROVE SettledStep
  BY <1>2 DEF Retry, Retryable
<1>3. ASSUME NEW t \in Ticks, TickStart(t) PROVE SettledStep
  BY <1>3 DEF TickStart, StuckJobs
<1>4. ASSUME NEW t \in Ticks, NEW j \in Jobs, Claim(t, j) PROVE SettledStep
  BY <1>4 DEF Claim, Claimable
<1>5. ASSUME NEW t \in Ticks, Succeed(t) \/ GiveUp(t) \/ Backoff(t)
      PROVE  SettledStep
  BY <1>5 DEF Succeed, GiveUp, Backoff
<1>6. CASE UNCHANGED status
  BY <1>6
<1>7. [Next]_vars =>
        \/ UNCHANGED status
        \/ \E p \in Publishers : PublishCreate(p)
        \/ \E j \in Jobs : Retry(j)
        \/ \E t \in Ticks : \/ TickStart(t)
                            \/ \E j \in Jobs : Claim(t, j)
                            \/ Succeed(t) \/ GiveUp(t) \/ Backoff(t)
  BY DEF Next, TickStep, vars, Edit, PublishFind, PublishCoalesce, BecomeDue,
         BecomeStale, FetchDue, Skip, Load, Prepare, Land, Reply, HttpError,
         TryFails, TickFails, Crash
<1>8. QED
  BY <1>1, <1>2, <1>3, <1>4, <1>5, <1>6, <1>7

\* Under the same proviso no step undoes a delivered row, and a failed row
\* comes back only through Retry.
THEOREM SettledForever ==
    ASSUME DeliveryAssumption, Timely
    PROVE  Spec => Settled
<1>1. ExclusiveInv /\ [Next]_vars => [SettledStep]_vars
  BY SettledNext
<1>2. QED
  BY <1>1, AlwaysExclusive, PTL DEF Spec, Settled

-----------------------------------------------------------------------------
(* Success covers publish.  The invariant follows a version v handed to    *)
(* row j through the dispatch that is under way.                           *)

\* The dispatch tick t is making, if it succeeds, will have sent v.
Carries(t, v) ==
    /\ pc[t] = "send" => v <= snap[t]
    /\ pc[t] = "sent" => v <= delivered[cur[t]]
    /\ pc[t] = "ok" /\ Sends(cur[t]) => v <= delivered[cur[t]]

Covered(j, v) ==
    /\ status[j] = "success" /\ Sends(j) => v <= delivered[j]
    /\ \A t \in Ticks : InFlight(t) /\ cur[t] = j => Carries(t, v)

\* A tick's step keeps a version covered that is no newer than the content.
LEMMA TickStepCovered ==
    ASSUME DeliveryAssumption, ExclusiveInv, ExclusiveInv',
           NEW t \in Ticks, TickStep(t),
           NEW j \in Jobs, NEW v \in Nat, v <= content[JobOrg[j]], Covered(j, v)
    PROVE  Covered(j, v)'
<1> USE DEF ExclusiveInv, HeldRunning, ExclusiveDispatch, TypeInv, HoldsRow,
            TypeOK, TickPcs, InFlight, Holding, Goto, Loop, jobVars, tickVars,
            history, Covered, Carries, Sends
<1>1. CASE TickStart(t)
  BY <1>1 DEF TickStart, StuckJobs
<1>2. CASE FetchDue(t)
  <2>1. PICK S \in SUBSET Jobs : Loop(t, S)
    BY <1>2 DEF FetchDue, Batches, DueJobs
  <2>2. QED
    BY <1>2, <2>1 DEF FetchDue
<1>3. ASSUME NEW i \in Jobs, Claim(t, i) PROVE Covered(j, v)'
  BY <1>3 DEF Claim, Claimable
<1>4. ASSUME NEW i \in Jobs, Skip(t, i) PROVE Covered(j, v)'
  BY <1>4 DEF Skip
<1>5. CASE Load(t)
  BY <1>5 DEF Load
<1>6. CASE Prepare(t)
  BY <1>6 DEF Prepare, TargetOf
<1>7. CASE Land(t)
  BY <1>7 DEF Land, Larger
<1>8. CASE Reply(t)
  BY <1>8 DEF Reply
<1>9. CASE HttpError(t)
  BY <1>9 DEF HttpError
<1>10. CASE Succeed(t)
  BY <1>10 DEF Succeed
<1>11. CASE GiveUp(t)
  BY <1>11 DEF GiveUp
<1>12. CASE Backoff(t)
  BY <1>12 DEF Backoff
<1>13. QED
  BY <1>1, <1>2, <1>3, <1>4, <1>5, <1>6, <1>7, <1>8, <1>9, <1>10, <1>11, <1>12
     DEF TickStep

\* So does every other step.
LEMMA NextCovered ==
    ASSUME DeliveryAssumption, Timely, ExclusiveInv, [Next]_vars,
           NEW j \in Jobs, NEW v \in Nat, v <= content[JobOrg[j]], Covered(j, v)
    PROVE  Covered(j, v)'
<1>0. ExclusiveInv'
  BY NextExclusive
<1> USE DEF ExclusiveInv, HeldRunning, ExclusiveDispatch, TypeInv, HoldsRow,
            TypeOK, TickPcs, InFlight, Holding, Goto, Loop, jobVars, tickVars,
            history, Covered, Carries, Sends
<1>1. ASSUME NEW o \in Orgs, Edit(o) PROVE Covered(j, v)'
  BY <1>1 DEF Edit
<1>2. ASSUME NEW p \in Publishers, NEW o \in Orgs, PublishFind(p, o)
      PROVE  Covered(j, v)'
  BY <1>2 DEF PublishFind
<1>3. ASSUME NEW p \in Publishers, PublishCoalesce(p) PROVE Covered(j, v)'
  BY <1>3 DEF PublishCoalesce
<1>4. ASSUME NEW p \in Publishers, PublishCreate(p) PROVE Covered(j, v)'
  BY <1>4 DEF PublishCreate, NewRowStatus
<1>5. ASSUME NEW i \in Jobs, Retry(i) PROVE Covered(j, v)'
  BY <1>5 DEF Retry
<1>6. ASSUME NEW i \in Jobs, BecomeDue(i) PROVE Covered(j, v)'
  BY <1>6 DEF BecomeDue
<1>7. ASSUME NEW i \in Jobs, BecomeStale(i) PROVE Covered(j, v)'
  BY <1>7 DEF BecomeStale
<1>8. ASSUME NEW t \in Ticks, TickStep(t) PROVE Covered(j, v)'
  BY <1>8, <1>0, TickStepCovered
<1>9. ASSUME NEW t \in Ticks, TryFails(t) PROVE Covered(j, v)'
  BY <1>9 DEF TryFails
<1>10. ASSUME NEW t \in Ticks, TickFails(t) PROVE Covered(j, v)'
  BY <1>10 DEF TickFails, Loop
<1>11. CASE Crash
  BY <1>11 DEF Crash, Loop
<1>12. CASE UNCHANGED vars
  BY <1>12 DEF vars
<1>13. QED
  BY <1>1, <1>2, <1>3, <1>4, <1>5, <1>6, <1>7, <1>8, <1>9, <1>10, <1>11, <1>12
     DEF Next

\* Every version already handed to a row is covered by it, and so is the one
\* a publish is about to hand to the row it found.
WantCovered ==
    \A j \in Jobs : want[j] <= content[JobOrg[j]] /\ Covered(j, want[j])

FoundCovered ==
    \A p \in Publishers :
        pub[p].pc = "found" =>
            /\ pub[p].ver <= content[pub[p].org]
            /\ pub[p].job # NoJob =>
                 /\ JobOrg[pub[p].job] = pub[p].org
                 /\ Covered(pub[p].job, pub[p].ver)

CoverInv == ExclusiveInv /\ WantCovered /\ FoundCovered

LEMMA InitCover ==
    ASSUME DeliveryAssumption, Init
    PROVE  CoverInv
<1>1. ExclusiveInv
  BY InitExclusive
<1>2. \A j \in Jobs : want[j] <= content[JobOrg[j]]
  BY DEF Init, DeliveryAssumption
<1>3. \A j \in Jobs : Covered(j, want[j])
  BY DEF Init, Covered, InFlight, Holding, Loop
<1>4. FoundCovered
  BY DEF Init, FoundCovered, IdlePub
<1>5. QED
  BY <1>1, <1>2, <1>3, <1>4 DEF CoverInv, WantCovered

\* Content versions only grow.
LEMMA ContentGrows ==
    ASSUME DeliveryAssumption, TypeInv, [Next]_vars, NEW o \in Orgs
    PROVE  content[o] <= content'[o]
<1>1. CASE UNCHANGED content
  BY <1>1 DEF TypeInv, TypeOK
<1>2. ASSUME NEW a \in Orgs, Edit(a) PROVE content[o] <= content'[o]
  BY <1>2 DEF Edit, TypeInv, TypeOK
<1>3. [Next]_vars => UNCHANGED content \/ \E a \in Orgs : Edit(a)
  BY DEF Next, TickStep, vars, PublishFind, PublishCoalesce, PublishCreate,
         Retry, BecomeDue, BecomeStale, TickStart, FetchDue, Claim, Skip, Load,
         Prepare, Land, Reply, HttpError, Succeed, GiveUp, Backoff, TryFails,
         TickFails, Crash
<1>4. QED
  BY <1>1, <1>2, <1>3

LEMMA NextWantCovered ==
    ASSUME DeliveryAssumption, Timely, CoverInv, [Next]_vars
    PROVE  WantCovered'
<1>1. TypeOK /\ TypeOK' /\ ExclusiveInv'
  BY NextExclusive DEF CoverInv, ExclusiveInv, TypeInv
<1>2. SUFFICES ASSUME NEW j \in Jobs
               PROVE  want'[j] <= content'[JobOrg[j]] /\ Covered(j, want[j])'
  BY DEF WantCovered
<1>3. content[JobOrg[j]] <= content'[JobOrg[j]]
  BY ContentGrows DEF CoverInv, ExclusiveInv, DeliveryAssumption
<1>4. JobOrg[j] \in Orgs
  BY DEF DeliveryAssumption
<1>5. ASSUME NEW v \in Nat, v <= content[JobOrg[j]], Covered(j, v)
      PROVE  Covered(j, v)'
  BY <1>5, NextCovered DEF CoverInv
<1>6. ASSUME want'[j] = want[j]
      PROVE  want'[j] <= content'[JobOrg[j]] /\ Covered(j, want[j])'
  <2>1. want[j] <= content[JobOrg[j]] /\ Covered(j, want[j]) /\ want[j] \in Nat
    BY <1>1 DEF CoverInv, WantCovered, TypeOK
  <2>2. want'[j] <= content'[JobOrg[j]]
    BY <1>1, <1>3, <1>4, <1>6, <2>1 DEF TypeOK
  <2>3. Covered(j, want[j])'
    <3>1. PICK v \in Nat : v = want[j]
      BY <2>1
    <3>2. Covered(j, v)'
      BY <1>5, <2>1, <3>1
    <3>3. QED
      BY <1>6, <3>1, <3>2 DEF Covered, Carries, InFlight
  <2>4. QED
    BY <2>2, <2>3
<1>7. ASSUME NEW p \in Publishers, PublishCoalesce(p), pub[p].job = j,
             want'[j] # want[j]
      PROVE  want'[j] <= content'[JobOrg[j]] /\ Covered(j, want[j])'
  <2>1. want'[j] = pub[p].ver /\ content' = content
    BY <1>1, <1>7 DEF PublishCoalesce, Larger, TypeOK
  <2>2. pub[p].ver <= content[JobOrg[j]] /\ Covered(j, pub[p].ver)
    BY <1>7 DEF CoverInv, FoundCovered, PublishCoalesce
  <2>3. pub[p].ver \in Nat
    BY <1>1 DEF TypeOK, PubRec
  <2>4. PICK v \in Nat : v = pub[p].ver
    BY <2>3
  <2>5. Covered(j, v)'
    BY <1>5, <2>2, <2>4
  <2>6. QED
    BY <2>1, <2>2, <2>4, <2>5 DEF Covered, Carries, InFlight
<1>8. ASSUME NEW p \in Publishers, PublishCreate(p), want'[j] # want[j]
      PROVE  want'[j] <= content'[JobOrg[j]] /\ Covered(j, want[j])'
  <2>1. want'[j] = pub[p].ver /\ JobOrg[j] = pub[p].org /\ status'[j] = "pending"
        /\ content' = content
    BY <1>1, <1>8 DEF PublishCreate, NewRowStatus, TypeOK
  <2>2. pub[p].ver <= content[JobOrg[j]]
    BY <1>8, <2>1 DEF CoverInv, FoundCovered, PublishCreate
  <2>3. Covered(j, want[j])'
    BY <1>1, <2>1 DEF ExclusiveInv, HeldRunning, Covered
  <2>4. QED
    BY <2>1, <2>2, <2>3
<1>9. \/ want'[j] = want[j]
      \/ \E p \in Publishers : PublishCoalesce(p) /\ pub[p].job = j
      \/ \E p \in Publishers : PublishCreate(p)
  <2>1. CASE UNCHANGED want
    BY <2>1
  <2>2. ASSUME NEW p \in Publishers, PublishCoalesce(p)
        PROVE  want'[j] = want[j] \/ pub[p].job = j
    BY <1>1, <2>2 DEF PublishCoalesce, TypeOK
  <2>3. [Next]_vars => \/ UNCHANGED want
                      \/ \E p \in Publishers : PublishCoalesce(p) \/ PublishCreate(p)
    BY DEF Next, TickStep, vars, history, Edit, PublishFind, Retry, BecomeDue,
           BecomeStale, TickStart, FetchDue, Claim, Skip, Load, Prepare, Land,
           Reply, HttpError, Succeed, GiveUp, Backoff, TryFails, TickFails, Crash
  <2>4. QED
    BY <2>1, <2>2, <2>3
<1>10. QED
  BY <1>6, <1>7, <1>8, <1>9

LEMMA NextFoundCovered ==
    ASSUME DeliveryAssumption, Timely, CoverInv, [Next]_vars
    PROVE  FoundCovered'
<1>1. TypeOK /\ TypeOK' /\ ExclusiveInv'
  BY NextExclusive DEF CoverInv, ExclusiveInv, TypeInv
<1> DEFINE Good(p) ==
      pub[p].pc = "found" =>
          /\ pub[p].ver <= content[pub[p].org]
          /\ pub[p].job # NoJob =>
               /\ JobOrg[pub[p].job] = pub[p].org
               /\ Covered(pub[p].job, pub[p].ver)
<1>2. SUFFICES ASSUME NEW p \in Publishers PROVE Good(p)'
  BY DEF FoundCovered
<1>3. CASE pub'[p] = pub[p]
  <2>1. SUFFICES ASSUME pub[p].pc = "found" PROVE Good(p)'
    BY <1>3
  <2>2. pub[p].ver \in Nat /\ pub[p].org \in Orgs
        /\ pub[p].job \in Jobs \cup {NoJob}
    BY <1>1 DEF TypeOK, PubRec
  <2>3. pub[p].ver <= content[pub[p].org]
    BY <2>1 DEF CoverInv, FoundCovered
  <2>4. content[pub[p].org] <= content'[pub[p].org]
    BY <2>2, ContentGrows DEF CoverInv, ExclusiveInv
  <2>5. pub'[p].ver <= content'[pub'[p].org]
    BY <1>1, <1>3, <2>2, <2>3, <2>4 DEF TypeOK
  <2>6. ASSUME pub[p].job # NoJob
        PROVE  JobOrg[pub[p].job] = pub[p].org /\ Covered(pub[p].job, pub[p].ver)'
    <3>1. PICK j \in Jobs, v \in Nat : j = pub[p].job /\ v = pub[p].ver
      BY <2>2, <2>6
    <3>2. JobOrg[j] = pub[p].org /\ Covered(j, v)
      BY <2>1, <2>6, <3>1 DEF CoverInv, FoundCovered
    <3>3. Covered(j, v)'
      BY <2>3, <3>1, <3>2, NextCovered DEF CoverInv
    <3>4. QED
      BY <1>3, <3>1, <3>2, <3>3 DEF Covered, Carries, InFlight
  <2>7. QED
    BY <1>3, <2>5, <2>6
<1>4. ASSUME NEW o \in Orgs, PublishFind(p, o) PROVE Good(p)'
  <2>1. PICK j \in Jobs \cup {NoJob} :
          /\ pub'[p] = [pc |-> "found", org |-> o, job |-> j, ver |-> content[o]]
          /\ j # NoJob => JobOrg[j] = o /\ status[j] = "pending"
    BY <1>1, <1>4 DEF PublishFind, LatestOpen, OpenJobs, TypeOK, DeliveryAssumption
  <2>2. content' = content /\ status' = status
    BY <1>4 DEF PublishFind, jobVars
  <2>3. content[o] \in Nat
    BY <1>1 DEF TypeOK
  <2>4. ASSUME j # NoJob PROVE Covered(j, content[o])'
    BY <1>1, <2>1, <2>2, <2>4 DEF Covered, ExclusiveInv, HeldRunning
  <2>5. QED
    BY <2>1, <2>2, <2>3, <2>4 DEF Covered, Carries, InFlight
<1>5. CASE pub'[p] = IdlePub
  BY <1>5 DEF IdlePub
<1>6. \/ pub'[p] = pub[p] \/ pub'[p] = IdlePub
      \/ \E o \in Orgs : PublishFind(p, o)
  <2>1. ASSUME NEW q \in Publishers, NEW o \in Orgs, PublishFind(q, o)
        PROVE  q = p \/ pub'[p] = pub[p]
    BY <1>1, <2>1 DEF PublishFind, TypeOK
  <2>2. ASSUME NEW q \in Publishers, PublishCoalesce(q) \/ PublishCreate(q)
        PROVE  pub'[p] = IdlePub \/ pub'[p] = pub[p]
    BY <1>1, <2>2 DEF PublishCoalesce, PublishCreate, TypeOK
  <2>3. CASE Crash
    BY <2>3 DEF Crash
  <2>4. [Next]_vars =>
          \/ UNCHANGED pub
          \/ \E q \in Publishers, o \in Orgs : PublishFind(q, o)
          \/ \E q \in Publishers : PublishCoalesce(q) \/ PublishCreate(q)
          \/ Crash
    BY DEF Next, TickStep, vars, Edit, Retry, BecomeDue, BecomeStale, TickStart,
           FetchDue, Claim, Skip, Load, Prepare, Land, Reply, HttpError, Succeed,
           GiveUp, Backoff, TryFails, TickFails
  <2>5. QED
    BY <2>1, <2>2, <2>3, <2>4
<1>7. QED
  BY <1>3, <1>4, <1>5, <1>6

\* A row that says "success" has delivered, to an organization that has
\* somewhere to deliver, every version published into it: for any number of
\* concurrent publishes, ticks, retries, crashes and failed queries.
THEOREM CoversPublish ==
    ASSUME DeliveryAssumption, Timely
    PROVE  Spec => []SuccessCoversPublish
<1>1. Init => CoverInv
  BY InitCover
<1>2. CoverInv /\ [Next]_vars => CoverInv'
  BY NextExclusive, NextWantCovered, NextFoundCovered DEF CoverInv
<1>3. CoverInv => SuccessCoversPublish
  BY DEF CoverInv, ExclusiveInv, TypeInv, TypeOK, WantCovered, Covered,
         SuccessCoversPublish
<1>4. QED
  BY <1>1, <1>2, <1>3, PTL DEF Spec

=============================================================================
