------------------------- MODULE DeliveryRefinement -------------------------
(***************************************************************************)
(* The proof that Delivery implements JobLifecycle: every step of the      *)
(* pipeline is a step of the promise, or changes nothing that the promise  *)
(* speaks of.                                                              *)
(***************************************************************************)
EXTENDS DeliveryProofs

Phase == [j \in Jobs |-> PhaseOf(status[j])]

LEMMA Phases ==
    /\ PhaseOf("none") = "absent"
    /\ PhaseOf("pending") = "open" /\ PhaseOf("running") = "open"
    /\ PhaseOf("success") = "done" /\ PhaseOf("failed") = "failed"
BY DEF PhaseOf

-----------------------------------------------------------------------------
(* What the refinement needs beyond CoverInv: a publish joins rows that    *)
(* exist, and nothing is asked of one that does not.                       *)

RowInv ==
    /\ \A j \in Jobs : status[j] = "none" => want[j] = 0
    /\ \A p \in Publishers : pub[p].pc = "found" /\ pub[p].job # NoJob =>
         status[pub[p].job] # "none"

RefineInv == CoverInv /\ RowInv

\* No step takes a row away.
LEMMA RowsStay ==
    ASSUME DeliveryAssumption, TypeInv, [Next]_vars, NEW j \in Jobs, status[j] # "none"
    PROVE  status'[j] # "none"
<1> USE DEF TypeInv, HoldsRow, TypeOK, InFlight, Holding, jobVars
<1>1. ASSUME NEW p \in Publishers, PublishCreate(p) PROVE status'[j] # "none"
  BY <1>1 DEF PublishCreate, NewRowStatus
<1>2. ASSUME NEW i \in Jobs, Retry(i) PROVE status'[j] # "none"
  BY <1>2 DEF Retry
<1>3. ASSUME NEW t \in Ticks, TickStart(t) PROVE status'[j] # "none"
  BY <1>3 DEF TickStart
<1>4. ASSUME NEW t \in Ticks, NEW i \in Jobs, Claim(t, i) PROVE status'[j] # "none"
  BY <1>4 DEF Claim
<1>5. ASSUME NEW t \in Ticks, Succeed(t) \/ GiveUp(t) \/ Backoff(t)
      PROVE  status'[j] # "none"
  BY <1>5 DEF Succeed, GiveUp, Backoff
<1>6. \/ UNCHANGED status
      \/ \E p \in Publishers : PublishCreate(p)
      \/ \E i \in Jobs : Retry(i)
      \/ \E t \in Ticks : \/ TickStart(t)
                          \/ \E i \in Jobs : Claim(t, i)
                          \/ Succeed(t) \/ GiveUp(t) \/ Backoff(t)
  BY DEF Next, TickStep, vars, Edit, PublishFind, PublishCoalesce, BecomeDue,
         BecomeStale, FetchDue, Skip, Load, Prepare, Land, Reply, HttpError,
         TryFails, TickFails, Crash
<1>7. QED
  BY <1>1, <1>2, <1>3, <1>4, <1>5, <1>6

LEMMA InitRows ==
    ASSUME DeliveryAssumption, Init
    PROVE  RowInv
BY DEF Init, RowInv, IdlePub

LEMMA NextRows ==
    ASSUME DeliveryAssumption, TypeInv, TypeInv', RowInv, [Next]_vars
    PROVE  RowInv'
<1> USE DEF TypeInv, TypeOK
<1>1. ASSUME NEW j \in Jobs, status'[j] = "none" PROVE want'[j] = 0
  <2>1. status[j] = "none" /\ want[j] = 0
    BY <1>1, RowsStay DEF RowInv
  <2>2. ASSUME NEW p \in Publishers, PublishCoalesce(p) PROVE want'[j] = want[j]
    <3>1. pub[p].job # j
      BY <2>1, <2>2 DEF PublishCoalesce, RowInv, DeliveryAssumption
    <3>2. QED
      BY <2>2, <3>1 DEF PublishCoalesce
  <2>3. ASSUME NEW p \in Publishers, PublishCreate(p) PROVE want'[j] = want[j]
    BY <1>1, <2>3 DEF PublishCreate, NewRowStatus
  <2>4. \/ UNCHANGED want
        \/ \E p \in Publishers : PublishCoalesce(p) \/ PublishCreate(p)
    BY DEF Next, TickStep, vars, history, Edit, PublishFind, Retry, BecomeDue,
           BecomeStale, TickStart, FetchDue, Claim, Skip, Load, Prepare, Land,
           Reply, HttpError, Succeed, GiveUp, Backoff, TryFails, TickFails, Crash
  <2>5. QED
    BY <2>1, <2>2, <2>3, <2>4
<1>2. ASSUME NEW p \in Publishers, pub'[p].pc = "found", pub'[p].job # NoJob
      PROVE  status'[pub'[p].job] # "none"
  <2>1. CASE pub'[p] = pub[p]
    <3>1. pub[p].job \in Jobs /\ status[pub[p].job] # "none"
      BY <1>2, <2>1 DEF RowInv, PubRec
    <3>2. QED
      BY <2>1, <3>1, RowsStay
  <2>2. ASSUME NEW q \in Publishers, NEW o \in Orgs, PublishFind(q, o), pub'[p] # pub[p]
        PROVE  status'[pub'[p].job] # "none"
    <3>1. /\ q = p /\ status' = status
          /\ OpenJobs(o) # {} /\ pub'[p].job \in OpenJobs(o)
      BY <1>2, <2>2 DEF PublishFind, LatestOpen, jobVars
    <3>2. QED
      BY <3>1 DEF OpenJobs
  <2>3. ASSUME NEW q \in Publishers, PublishCoalesce(q) \/ PublishCreate(q)
        PROVE  pub'[p] = pub[p]
    BY <1>2, <2>3 DEF PublishCoalesce, PublishCreate, IdlePub
  <2>4. CASE Crash
    BY <1>2, <2>4 DEF Crash, IdlePub
  <2>5. \/ UNCHANGED pub
        \/ \E q \in Publishers, o \in Orgs : PublishFind(q, o)
        \/ \E q \in Publishers : PublishCoalesce(q) \/ PublishCreate(q)
        \/ Crash
    BY DEF Next, TickStep, vars, Edit, Retry, BecomeDue, BecomeStale, TickStart,
           FetchDue, Claim, Skip, Load, Prepare, Land, Reply, HttpError, Succeed,
           GiveUp, Backoff, TryFails, TickFails
  <2>6. QED
    BY <2>1, <2>2, <2>3, <2>4, <2>5
<1>3. QED
  BY <1>1, <1>2 DEF RowInv

LEMMA NextRefine ==
    ASSUME DeliveryAssumption, Timely, RefineInv, [Next]_vars
    PROVE  RefineInv'
<1>1. CoverInv'
  BY NextExclusive, NextWantCovered, NextFoundCovered DEF RefineInv, CoverInv
<1>2. RowInv'
  BY <1>1, NextRows DEF RefineInv, CoverInv, ExclusiveInv
<1>3. QED
  BY <1>1, <1>2 DEF RefineInv

-----------------------------------------------------------------------------
(* Steps map to steps.                                                     *)

LEMMA InitMaps ==
    ASSUME Init
    PROVE  Lifecycle!Init
BY Phases DEF Init, Lifecycle!Init

\* A step after which the row of nobody is in another phase, and nothing was
\* asked or sent.
LEMMA Stutters ==
    ASSUME UNCHANGED <<want, delivered>>,
           \A j \in Jobs : PhaseOf(status'[j]) = PhaseOf(status[j])
    PROVE  UNCHANGED Lifecycle!lifecycleVars
BY DEF Lifecycle!lifecycleVars

LEMMA CoalesceMaps ==
    ASSUME DeliveryAssumption, RefineInv, RefineInv',
           NEW p \in Publishers, PublishCoalesce(p)
    PROVE  Lifecycle!Next
<1> USE DEF RefineInv, CoverInv, ExclusiveInv, TypeInv, TypeOK
<1>1. PICK j \in Jobs : j = pub[p].job
  BY DEF PublishCoalesce, PubRec
<1>2. /\ want' = [want EXCEPT ![j] = want'[j]] /\ want[j] <= want'[j]
      /\ UNCHANGED <<status, delivered>>
  <2>1. PICK v \in Nat : v = pub[p].ver
    BY DEF PubRec
  <2>2. want' = [want EXCEPT ![j] = Larger(want[j], v)]
    BY <1>1, <2>1 DEF PublishCoalesce
  <2>3. want[j] \in Nat /\ want[j] <= Larger(want[j], v)
    BY DEF Larger
  <2>4. want'[j] = Larger(want[j], v)
    BY <2>2
  <2>5. QED
    BY <2>2, <2>3, <2>4 DEF PublishCoalesce
<1>3. status[j] \in {"pending", "running", "failed", "success"}
  BY <1>1 DEF RowInv, PublishCoalesce, Statuses
<1>4. Phase' = Phase /\ Phase[j] = PhaseOf(status[j])
  BY <1>2 DEF Phase
<1>5. status[j] = "success" /\ Sends(j) => want'[j] <= delivered'[j]
  BY <1>2 DEF WantCovered, Covered
<1>6. Lifecycle!Raises(want, want', j)
  BY <1>2 DEF Lifecycle!Raises
<1>7. Phase[j] = "done" => Lifecycle!Served(j)'
  BY <1>3, <1>4, <1>5, Phases DEF Lifecycle!Served, Sends
<1>8. Lifecycle!Ask(j)
  BY <1>2, <1>3, <1>4, <1>6, <1>7, Phases DEF Lifecycle!Ask, Phase
<1>9. QED
  BY <1>8 DEF Lifecycle!Next

LEMMA CreateMaps ==
    ASSUME DeliveryAssumption, RefineInv, RefineInv',
           NEW p \in Publishers, PublishCreate(p)
    PROVE  Lifecycle!Next
<1> USE DEF RefineInv, CoverInv, ExclusiveInv, TypeInv, TypeOK
<1>1. PICK j \in Jobs :
        /\ status[j] = "none"
        /\ status' = [status EXCEPT ![j] = "pending"]
        /\ want' = [want EXCEPT ![j] = pub[p].ver]
  BY DEF PublishCreate, NewRowStatus
<1>2. want[j] = 0 /\ pub[p].ver \in Nat /\ want'[j] = pub[p].ver
  BY <1>1 DEF RowInv, PubRec
<1>3. Lifecycle!Raises(want, want', j)
  BY <1>1, <1>2 DEF Lifecycle!Raises
<1>4. Phase' = [Phase EXCEPT ![j] = "open"] /\ Phase[j] = "absent"
  <2>1. status \in [Jobs -> Statuses]
    OBVIOUS
  <2> HIDE DEF RefineInv, CoverInv, ExclusiveInv, TypeInv, TypeOK
  <2>2. QED
    BY <1>1, <2>1, Phases DEF Phase
<1>5. Lifecycle!Move(j, "absent", "open")
  BY <1>4 DEF Lifecycle!Move, Phase
<1>6. delivered' = delivered
  BY DEF PublishCreate
<1>7. Lifecycle!Ask(j)
  BY <1>3, <1>5, <1>6 DEF Lifecycle!Ask
<1>8. QED
  BY <1>7 DEF Lifecycle!Next

LEMMA RetryMaps ==
    ASSUME RefineInv, NEW j \in Jobs, Retry(j)
    PROVE  Lifecycle!Next
<1> USE DEF RefineInv, CoverInv, ExclusiveInv, TypeInv
<1>1. status[j] = "failed" /\ status' = [status EXCEPT ![j] = "pending"]
  BY DEF Retry, Retryable
<1>2. Phase' = [Phase EXCEPT ![j] = "open"] /\ Phase[j] = "failed"
  BY <1>1, Phases DEF Phase, TypeOK
<1>3. UNCHANGED <<want, delivered>>
  BY DEF Retry, history
<1>4. Lifecycle!Reopen(j)
  BY <1>2, <1>3 DEF Lifecycle!Reopen, Lifecycle!Move, Phase
<1>5. QED
  BY <1>4 DEF Lifecycle!Next

LEMMA LandMaps ==
    ASSUME RefineInv, NEW t \in Ticks, Land(t)
    PROVE  Lifecycle!Next
<1> USE DEF RefineInv, CoverInv, ExclusiveInv, TypeInv, TypeOK
<1>1. PICK j \in Jobs : j = cur[t] /\ status[j] = "running"
  BY DEF Land, HoldsRow, HeldRunning, InFlight, Holding
<1>2. /\ delivered' = [delivered EXCEPT ![j] = delivered'[j]]
      /\ delivered[j] <= delivered'[j]
      /\ UNCHANGED <<status, want>>
  BY <1>1 DEF Land, Larger, jobVars
<1>3. Phase' = Phase /\ Phase[j] = "open"
  BY <1>1, <1>2, Phases DEF Phase
<1>4. Lifecycle!Send(j)
  BY <1>2, <1>3 DEF Lifecycle!Send, Lifecycle!Raises, Phase
<1>5. QED
  BY <1>4 DEF Lifecycle!Next

\* The final write of a dispatch that went well finds everything delivered
\* that was asked of the row by then.
LEMMA SucceedMaps ==
    ASSUME RefineInv, NEW t \in Ticks, Succeed(t)
    PROVE  Lifecycle!Next
<1> USE DEF RefineInv, CoverInv, ExclusiveInv, TypeInv, TypeOK
<1>1. InFlight(t) /\ pc[t] = "ok"
  BY DEF Succeed, InFlight, Holding
<1>2. PICK j \in Jobs : j = cur[t] /\ status[j] = "running"
  BY <1>1 DEF HoldsRow, HeldRunning
<1>3. Sends(j) => want[j] <= delivered[j]
  BY <1>1, <1>2 DEF WantCovered, Covered, Carries
<1>4. status' = [status EXCEPT ![j] = "success"] /\ UNCHANGED <<want, delivered>>
  BY <1>2 DEF Succeed, history
<1>5. Phase' = [Phase EXCEPT ![j] = "done"] /\ Phase[j] = "open"
  <2>1. status \in [Jobs -> Statuses]
    OBVIOUS
  <2> HIDE DEF RefineInv, CoverInv, ExclusiveInv, TypeInv, TypeOK
  <2>2. QED
    BY <1>2, <1>4, <2>1, Phases DEF Phase
<1>6. Lifecycle!Served(j)
  BY <1>3 DEF Lifecycle!Served, Sends
<1>7. Lifecycle!Finish(j)
  BY <1>4, <1>5, <1>6 DEF Lifecycle!Finish, Lifecycle!Move, Phase
<1>8. QED
  BY <1>7 DEF Lifecycle!Next

LEMMA GiveUpMaps ==
    ASSUME RefineInv, NEW t \in Ticks, GiveUp(t)
    PROVE  Lifecycle!Next
<1> USE DEF RefineInv, CoverInv, ExclusiveInv, TypeInv, TypeOK
<1>1. PICK j \in Jobs : j = cur[t] /\ status[j] = "running"
  BY DEF GiveUp, HoldsRow, HeldRunning, InFlight, Holding
<1>2. status' = [status EXCEPT ![j] = "failed"] /\ UNCHANGED <<want, delivered>>
  BY <1>1 DEF GiveUp, history
<1>3. Phase' = [Phase EXCEPT ![j] = "failed"] /\ Phase[j] = "open"
  <2>1. status \in [Jobs -> Statuses]
    OBVIOUS
  <2> HIDE DEF RefineInv, CoverInv, ExclusiveInv, TypeInv, TypeOK
  <2>2. QED
    BY <1>1, <1>2, <2>1, Phases DEF Phase
<1>4. Lifecycle!Fail(j)
  BY <1>2, <1>3 DEF Lifecycle!Fail, Lifecycle!Move, Phase
<1>5. QED
  BY <1>4 DEF Lifecycle!Next

\* Claims, resets and postponements move a row between "pending" and
\* "running", which are one phase.
LEMMA OpenStays ==
    ASSUME RefineInv, NEW t \in Ticks,
           TickStart(t) \/ (\E j \in Jobs : Claim(t, j)) \/ Backoff(t)
    PROVE  UNCHANGED Lifecycle!lifecycleVars
<1> USE DEF RefineInv, CoverInv, ExclusiveInv, TypeInv, TypeOK
<1>1. UNCHANGED <<want, delivered>>
  BY DEF TickStart, Claim, Backoff, history
<1>2. ASSUME NEW i \in Jobs PROVE PhaseOf(status'[i]) = PhaseOf(status[i])
  <2>1. CASE TickStart(t)
    BY <2>1, Phases DEF TickStart, StuckJobs
  <2>2. ASSUME NEW j \in Jobs, Claim(t, j) PROVE PhaseOf(status'[i]) = PhaseOf(status[i])
    BY <2>2, Phases DEF Claim, Claimable
  <2>3. CASE Backoff(t)
    <3>1. cur[t] \in Jobs /\ status[cur[t]] = "running"
      BY <2>3 DEF Backoff, HoldsRow, HeldRunning, InFlight, Holding
    <3>2. QED
      BY <2>3, <3>1, Phases DEF Backoff
  <2>4. QED
    BY <2>1, <2>2, <2>3
<1>3. QED
  BY <1>1, <1>2, Stutters

LEMMA NextMaps ==
    ASSUME DeliveryAssumption, RefineInv, RefineInv', [Next]_vars
    PROVE  [Lifecycle!Next]_Lifecycle!lifecycleVars
<1>1. CASE UNCHANGED <<status, want, delivered>>
  BY <1>1, Stutters
<1>2. \/ UNCHANGED <<status, want, delivered>>
      \/ \E p \in Publishers : PublishCoalesce(p) \/ PublishCreate(p)
      \/ \E j \in Jobs : Retry(j)
      \/ \E t \in Ticks : \/ TickStart(t) \/ (\E j \in Jobs : Claim(t, j)) \/ Backoff(t)
                          \/ Land(t) \/ Succeed(t) \/ GiveUp(t)
  BY DEF Next, TickStep, vars, jobVars, history, Edit, PublishFind, BecomeDue, BecomeStale,
         FetchDue, Skip, Load, Prepare, Reply, HttpError, TryFails, TickFails, Crash
<1>3. QED
  BY <1>1, <1>2, CoalesceMaps, CreateMaps, RetryMaps, LandMaps, SucceedMaps,
     GiveUpMaps, OpenStays

\* The worker, its overlapping ticks, the publishes that coalesce, crashes,
\* failing queries and the stuck reset together keep the promise of a row:
\* finished only with everything that was asked of it, reopened only when it
\* had failed; provided no dispatch outlives STUCK_MS.
THEOREM KeepsPromise ==
    ASSUME DeliveryAssumption, Timely
    PROVE  Spec => ImplementsLifecycle
<1>1. Init => RefineInv
  BY InitCover, InitRows DEF RefineInv
<1>2. RefineInv /\ [Next]_vars => RefineInv'
  BY NextRefine
<1>3. Init => Lifecycle!Init
  BY InitMaps
<1>4. RefineInv /\ RefineInv' /\ [Next]_vars => [Lifecycle!Next]_Lifecycle!lifecycleVars
  BY NextMaps
<1>5. QED
  BY <1>1, <1>2, <1>3, <1>4, PTL DEF Spec, ImplementsLifecycle, Lifecycle!Spec

=============================================================================
