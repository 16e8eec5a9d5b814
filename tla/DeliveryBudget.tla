--------------------------- MODULE DeliveryBudget ---------------------------
(***************************************************************************)
(* What holds of Delivery even when a dispatch outlives STUCK_MS and its   *)
(* row is given to another tick: a delivered row was sent, and attempts    *)
(* stay within their budget.                                               *)
(***************************************************************************)
EXTENDS DeliveryProofs, FiniteSetTheorems

-----------------------------------------------------------------------------
(* A row that says "success" was sent.                                     *)

\* A dispatch that has come so far has sent something.
SentSome(t) ==
    /\ pc[t] = "send" => snap[t] > 0
    /\ pc[t] = "sent" => delivered[cur[t]] > 0
    /\ pc[t] = "ok" /\ Sends(cur[t]) => delivered[cur[t]] > 0

SentInv ==
    /\ TypeInv
    /\ \A o \in Orgs : content[o] > 0
    /\ \A t \in Ticks : SentSome(t)
    /\ SuccessWasSent

LEMMA InitSent ==
    ASSUME DeliveryAssumption, Init
    PROVE  SentInv
BY InitType DEF Init, SentInv, SentSome, SuccessWasSent

LEMMA TickStepSent ==
    ASSUME DeliveryAssumption, SentInv, TypeInv', NEW t \in Ticks, TickStep(t)
    PROVE  (\A u \in Ticks : SentSome(u)') /\ SuccessWasSent'
<1> USE DEF SentInv, SentSome, SuccessWasSent, Sends, TypeInv, HoldsRow, TypeOK, TickPcs,
            InFlight, Holding, Goto, Loop, jobVars, history
<1>1. CASE TickStart(t)
  BY <1>1 DEF TickStart, StuckJobs
<1>2. CASE FetchDue(t)
  <2>1. PICK S \in SUBSET Jobs : Loop(t, S)
    BY <1>2 DEF FetchDue, Batches, DueJobs
  <2>2. QED
    BY <1>2, <2>1 DEF FetchDue
<1>3. ASSUME NEW j \in Jobs, Claim(t, j) \/ Skip(t, j)
      PROVE  (\A u \in Ticks : SentSome(u)') /\ SuccessWasSent'
  BY <1>3 DEF Claim, Skip
<1>4. CASE Load(t)
  BY <1>4 DEF Load
<1>5. CASE Prepare(t)
  BY <1>5 DEF Prepare, TargetOf, DeliveryAssumption
<1>6. CASE Land(t)
  BY <1>6 DEF Land, Larger
<1>7. CASE Reply(t)
  BY <1>7 DEF Reply
<1>8. CASE HttpError(t)
  BY <1>8 DEF HttpError
<1>9. CASE Succeed(t)
  BY <1>9 DEF Succeed
<1>10. CASE GiveUp(t) \/ Backoff(t)
  BY <1>10 DEF GiveUp, Backoff
<1>11. QED
  BY <1>1, <1>2, <1>3, <1>4, <1>5, <1>6, <1>7, <1>8, <1>9, <1>10 DEF TickStep

LEMMA NextSent ==
    ASSUME DeliveryAssumption, SentInv, [Next]_vars
    PROVE  SentInv'
<1>1. TypeInv'
  BY NextType DEF SentInv
<1>2. \A o \in Orgs : content'[o] > 0
  <2>1. TypeOK /\ TypeOK'
    BY <1>1 DEF SentInv, TypeInv
  <2>2. ASSUME NEW o \in Orgs PROVE content[o] <= content'[o]
    BY ContentGrows DEF SentInv
  <2>3. QED
    BY <2>1, <2>2 DEF SentInv, TypeOK
<1>3. (\A u \in Ticks : SentSome(u)') /\ SuccessWasSent'
  <2>1. ASSUME NEW t \in Ticks, TickStep(t)
        PROVE  (\A u \in Ticks : SentSome(u)') /\ SuccessWasSent'
    BY <1>1, <2>1, TickStepSent
  <2> USE DEF SentInv, SentSome, SuccessWasSent, Sends, TypeInv, TypeOK, Loop, Goto,
              jobVars, tickVars, history
  <2>2. CASE UNCHANGED <<status, pc, cur, snap, delivered>>
    BY <2>2
  <2>3. ASSUME NEW p \in Publishers, PublishCreate(p)
        PROVE  (\A u \in Ticks : SentSome(u)') /\ SuccessWasSent'
    BY <2>3 DEF PublishCreate, NewRowStatus
  <2>4. ASSUME NEW j \in Jobs, Retry(j)
        PROVE  (\A u \in Ticks : SentSome(u)') /\ SuccessWasSent'
    BY <2>4 DEF Retry
  <2>5. ASSUME NEW t \in Ticks, TryFails(t) \/ TickFails(t)
        PROVE  (\A u \in Ticks : SentSome(u)') /\ SuccessWasSent'
    BY <2>5 DEF TryFails, TickFails
  <2>6. CASE Crash
    BY <2>6 DEF Crash
  <2>7. \/ UNCHANGED <<status, pc, cur, snap, delivered>>
        \/ \E t \in Ticks : TickStep(t)
        \/ \E p \in Publishers : PublishCreate(p)
        \/ \E j \in Jobs : Retry(j)
        \/ \E t \in Ticks : TryFails(t) \/ TickFails(t)
        \/ Crash
    BY DEF Next, vars, Edit, PublishFind, PublishCoalesce, BecomeDue, BecomeStale
  <2>8. QED
    BY <2>1, <2>2, <2>3, <2>4, <2>5, <2>6, <2>7
<1>4. QED
  BY <1>1, <1>2, <1>3 DEF SentInv

\* A row never says "success" unless its site took something, even when
\* dispatches outlive STUCK_MS and two ticks work on one row.
THEOREM SuccessSent ==
    ASSUME DeliveryAssumption
    PROVE  Spec => []SuccessWasSent
<1>1. Init => SentInv
  BY InitSent
<1>2. SentInv /\ [Next]_vars => SentInv'
  BY NextSent
<1>3. SentInv => SuccessWasSent
  BY DEF SentInv
<1>4. QED
  BY <1>1, <1>2, <1>3, PTL DEF Spec

-----------------------------------------------------------------------------
(* The budget of attempts.  A row can be given out as often as there are   *)
(* ways back to "pending": the row itself, while nobody has it, and every  *)
(* tick that has it.  A fault adds one way; a claim past the last attempt  *)
(* takes one away, because its tick will not send the row back.            *)

Holders(j) == {t \in Ticks : InFlight(t) /\ cur[t] = j}

\* The ticks whose failure makes the row "pending" again.
LiveHolders(j) ==
    {t \in Holders(j) : IF pc[t] = "claimed" THEN attempts[j] < MaxAttempts
                                             ELSE att[t] < MaxAttempts}

\* The row waits, or the stuck reset will make it wait.
Waiting(j) ==
    \/ status[j] \in {"none", "pending"}
    \/ status[j] = "running" /\ (stale[j] \/ Holders(j) = {})

Free(j) == Waiting(j) \/ status[j] = "failed"

Count(b) == IF b THEN 1 ELSE 0

Budget(j) ==
    /\ IsFiniteSet(Holders(j))
    /\ Cardinality(Holders(j)) + Count(Free(j)) <= 1 + faults
    /\ Cardinality(LiveHolders(j)) + Count(Waiting(j)) <= 1 + faults
    /\ attempts[j] + Cardinality(LiveHolders(j)) + Count(Waiting(j))
         <= MaxAttempts + faults

BudgetInv == TypeInv /\ \A j \in Jobs : Budget(j)

LEMMA CountType == \A b : Count(b) \in {0, 1}
BY DEF Count

LEMMA HoldersCards ==
    ASSUME NEW j \in Jobs, IsFiniteSet(Holders(j))
    PROVE  /\ Cardinality(Holders(j)) \in Nat
           /\ IsFiniteSet(LiveHolders(j)) /\ Cardinality(LiveHolders(j)) \in Nat
           /\ Cardinality(LiveHolders(j)) <= Cardinality(Holders(j))
<1>1. LiveHolders(j) \in SUBSET Holders(j)
  BY DEF LiveHolders
<1>2. QED
  BY <1>1, FS_Subset, FS_CardinalityType

LEMMA InitBudget ==
    ASSUME DeliveryAssumption, Init
    PROVE  BudgetInv
<1>1. TypeInv
  BY InitType
<1>2. ASSUME NEW j \in Jobs PROVE Budget(j)
  <2>1. Holders(j) = {} /\ LiveHolders(j) = {}
    BY DEF Init, Holders, LiveHolders, InFlight, Holding
  <2>2. attempts[j] = 0 /\ faults = 0
    BY DEF Init
  <2>3. Count(Waiting(j)) \in {0, 1} /\ Count(Free(j)) \in {0, 1}
    BY CountType
  <2>4. IsFiniteSet({}) /\ Cardinality({}) = 0
    BY FS_EmptySet
  <2>5. QED
    BY <2>1, <2>2, <2>3, <2>4 DEF Budget, DeliveryAssumption
<1>3. QED
  BY <1>1, <1>2 DEF BudgetInv

-----------------------------------------------------------------------------
(* The ways in which a step may bear on row j.                             *)

\* The same ticks have it; it waits only if it did, or if there was a fault.
LEMMA Stays ==
    ASSUME DeliveryAssumption, TypeOK, TypeOK', NEW j \in Jobs, Budget(j),
           Holders(j)' = Holders(j), LiveHolders(j)' \subseteq LiveHolders(j),
           attempts'[j] = attempts[j],
           \/ faults <= faults' /\ (Free(j)' => Free(j)) /\ (Waiting(j)' => Waiting(j))
           \/ faults + 1 <= faults'
    PROVE  Budget(j)'
<1>1. IsFiniteSet(Holders(j)') /\ Cardinality(Holders(j)') = Cardinality(Holders(j))
  BY DEF Budget
<1>2. /\ Cardinality(Holders(j)) \in Nat /\ Cardinality(LiveHolders(j)) \in Nat
      /\ IsFiniteSet(LiveHolders(j))
  BY HoldersCards DEF Budget
<1>3. /\ Cardinality(LiveHolders(j)') \in Nat
      /\ Cardinality(LiveHolders(j)') <= Cardinality(LiveHolders(j))
  BY <1>2, FS_Subset, FS_CardinalityType
<1>4. /\ Count(Free(j))' <= Count(Free(j)) \/ faults + 1 <= faults'
      /\ Count(Waiting(j))' <= Count(Waiting(j)) \/ faults + 1 <= faults'
      /\ faults <= faults'
      /\ Count(Free(j))' \in {0, 1} /\ Count(Waiting(j))' \in {0, 1}
      /\ Count(Free(j)) \in {0, 1} /\ Count(Waiting(j)) \in {0, 1}
  BY DEF Count, TypeOK
<1>5. /\ faults \in Nat /\ faults' \in Nat /\ attempts[j] \in Nat /\ MaxAttempts \in Nat
      /\ attempts'[j] = attempts[j]
  BY DEF TypeOK, DeliveryAssumption
<1>6. Cardinality(Holders(j)') + Count(Free(j))' <= 1 + faults'
  BY <1>1, <1>2, <1>4, <1>5 DEF Budget
<1>7. Cardinality(LiveHolders(j)') + Count(Waiting(j))' <= 1 + faults'
  BY <1>2, <1>3, <1>4, <1>5 DEF Budget
<1>8. attempts'[j] + Cardinality(LiveHolders(j)') + Count(Waiting(j))'
        <= MaxAttempts + faults'
  BY <1>2, <1>3, <1>4, <1>5 DEF Budget
<1>9. QED
  BY <1>1, <1>6, <1>7, <1>8 DEF Budget

\* Tick t lets go of it, and makes it wait only with attempts left, or after a
\* fault.
LEMMA Leaves ==
    ASSUME DeliveryAssumption, TypeOK, TypeOK', NEW j \in Jobs, Budget(j),
           NEW t \in Holders(j), Holders(j)' = Holders(j) \ {t},
           LiveHolders(j)' = LiveHolders(j) \ {t}, attempts'[j] = attempts[j],
           faults <= faults',
           Waiting(j)' => t \in LiveHolders(j) \/ Waiting(j) \/ faults + 1 <= faults'
    PROVE  Budget(j)'
<1>1. /\ IsFiniteSet(Holders(j)')
      /\ Cardinality(Holders(j)') = Cardinality(Holders(j)) - 1
  BY FS_RemoveElement DEF Budget
<1>2. /\ Cardinality(Holders(j)) \in Nat /\ Cardinality(LiveHolders(j)) \in Nat
      /\ IsFiniteSet(LiveHolders(j))
  BY HoldersCards DEF Budget
<1>3. Cardinality(LiveHolders(j)') =
        IF t \in LiveHolders(j) THEN Cardinality(LiveHolders(j)) - 1
                                ELSE Cardinality(LiveHolders(j))
  BY <1>2, FS_RemoveElement
<1>4. /\ \/ Count(Waiting(j))' <= Count(Waiting(j))
         \/ t \in LiveHolders(j) \/ faults + 1 <= faults'
      /\ Count(Free(j))' \in {0, 1} /\ Count(Waiting(j))' \in {0, 1}
      /\ Count(Free(j)) \in {0, 1} /\ Count(Waiting(j)) \in {0, 1}
  BY DEF Count
<1>5. /\ faults \in Nat /\ faults' \in Nat /\ attempts[j] \in Nat /\ MaxAttempts \in Nat
      /\ attempts'[j] = attempts[j]
  BY DEF TypeOK, DeliveryAssumption
<1>6. Cardinality(Holders(j)') + Count(Free(j))' <= 1 + faults'
  BY <1>1, <1>2, <1>4, <1>5 DEF Budget
<1>7. Cardinality(LiveHolders(j)') + Count(Waiting(j))'
        <= Cardinality(LiveHolders(j)) + Count(Waiting(j)) + faults' - faults
  <2>1. CASE t \in LiveHolders(j)
    BY <1>2, <1>3, <1>4, <1>5, <2>1
  <2>2. CASE t \notin LiveHolders(j)
    BY <1>2, <1>3, <1>4, <1>5, <2>2
  <2>3. QED
    BY <2>1, <2>2
<1>8. /\ Cardinality(LiveHolders(j)') \in Int
      /\ Cardinality(LiveHolders(j)') + Count(Waiting(j))' <= 1 + faults'
      /\ attempts'[j] + Cardinality(LiveHolders(j)') + Count(Waiting(j))'
           <= MaxAttempts + faults'
  BY <1>2, <1>3, <1>4, <1>5, <1>7 DEF Budget
<1>9. QED
  BY <1>1, <1>6, <1>8 DEF Budget

\* Tick t takes it: one way less if it is the last attempt.
LEMMA Takes ==
    ASSUME DeliveryAssumption, TypeOK, TypeOK', NEW j \in Jobs, Budget(j),
           NEW t \in Ticks, Claim(t, j)
    PROVE  Budget(j)'
<1> USE DEF TypeOK
<1>1. /\ pc[t] = "next" /\ status[j] = "pending"
      /\ status'[j] = "running" /\ ~stale'[j] /\ attempts'[j] = attempts[j] + 1
      /\ pc' = [pc EXCEPT ![t] = "claimed"] /\ cur' = [cur EXCEPT ![t] = j]
      /\ att' = att /\ faults' = faults
  BY DEF Claim, Claimable
<1>2. Holders(j)' = Holders(j) \cup {t} /\ t \notin Holders(j)
  BY <1>1 DEF Holders, InFlight, Holding
<1>3. /\ IsFiniteSet(Holders(j)')
      /\ Cardinality(Holders(j)') = Cardinality(Holders(j)) + 1
  <2>1. IsFiniteSet(Holders(j))
    BY DEF Budget
  <2>2. /\ IsFiniteSet(Holders(j) \cup {t})
        /\ Cardinality(Holders(j) \cup {t}) = Cardinality(Holders(j)) + 1
    BY <1>2, <2>1, FS_AddElement, Zenon
  <2>3. QED
    BY <1>2, <2>2, Zenon
<1>4. /\ Cardinality(Holders(j)) \in Nat /\ Cardinality(LiveHolders(j)) \in Nat
      /\ IsFiniteSet(LiveHolders(j))
  BY HoldersCards DEF Budget
<1>5. Count(Waiting(j)) = 1 /\ Count(Free(j)) = 1
  BY <1>1 DEF Waiting, Free, Count
<1>6. Count(Waiting(j))' = 0 /\ Count(Free(j))' = 0
  BY <1>1, <1>2 DEF Waiting, Free, Count
<1>7. faults \in Nat /\ attempts[j] \in Nat /\ MaxAttempts \in Nat
  BY DEF DeliveryAssumption
<1>8. Cardinality(Holders(j)') + Count(Free(j))' <= 1 + faults'
  BY <1>1, <1>3, <1>4, <1>5, <1>6, <1>7 DEF Budget
<1>9. t \notin LiveHolders(j)
  BY <1>2 DEF LiveHolders
<1>10. CASE attempts[j] + 1 < MaxAttempts
  <2>1. LiveHolders(j)' \in SUBSET (LiveHolders(j) \cup {t})
    BY <1>1, <1>2, <1>7, <1>10 DEF LiveHolders, Holders, InFlight, Holding
  <2>2. /\ IsFiniteSet(LiveHolders(j) \cup {t})
        /\ Cardinality(LiveHolders(j) \cup {t}) = Cardinality(LiveHolders(j)) + 1
    BY <1>4, <1>9, FS_AddElement
  <2>3. /\ Cardinality(LiveHolders(j)') \in Nat
        /\ Cardinality(LiveHolders(j)') <= Cardinality(LiveHolders(j)) + 1
    BY <2>1, <2>2, FS_Subset, FS_CardinalityType
  <2>4. Cardinality(LiveHolders(j)') + Count(Waiting(j))' <= 1 + faults'
    BY <1>1, <1>4, <1>5, <1>6, <1>7, <2>3 DEF Budget
  <2>5. attempts'[j] + Cardinality(LiveHolders(j)') + Count(Waiting(j))'
          <= MaxAttempts + faults'
    BY <1>1, <1>4, <1>5, <1>6, <1>7, <1>10, <2>3 DEF Budget
  <2>6. QED
    BY <1>3, <1>8, <2>4, <2>5 DEF Budget
<1>11. CASE ~(attempts[j] + 1 < MaxAttempts)
  <2>1. LiveHolders(j)' \in SUBSET LiveHolders(j)
    BY <1>1, <1>2, <1>7, <1>11 DEF LiveHolders, Holders, InFlight, Holding
  <2>2. /\ Cardinality(LiveHolders(j)') \in Nat
        /\ Cardinality(LiveHolders(j)') <= Cardinality(LiveHolders(j))
    BY <1>4, <2>1, FS_Subset, FS_CardinalityType
  <2>3. Cardinality(LiveHolders(j)') + Count(Waiting(j))' <= 1 + faults'
    BY <1>1, <1>4, <1>5, <1>6, <1>7, <2>2 DEF Budget
  <2>4. attempts'[j] + Cardinality(LiveHolders(j)') + Count(Waiting(j))'
          <= MaxAttempts + faults'
    BY <1>1, <1>4, <1>5, <1>6, <1>7, <2>2 DEF Budget
  <2>5. QED
    BY <1>3, <1>8, <2>3, <2>4 DEF Budget
<1>12. QED
  BY <1>10, <1>11

\* A user gives it all its attempts again: the ticks that still have it then
\* count, whatever they count now.
LEMMA Restarts ==
    ASSUME DeliveryAssumption, TypeOK, TypeOK', NEW j \in Jobs, Budget(j), Retry(j)
    PROVE  Budget(j)'
<1> USE DEF TypeOK
<1>1. /\ status[j] = "failed" /\ status'[j] = "pending" /\ attempts'[j] = 0
      /\ UNCHANGED <<pc, cur, att, faults>>
  BY DEF Retry, Retryable, tickVars
<1>2. Holders(j)' = Holders(j)
  BY <1>1 DEF Holders, InFlight
<1>3. LiveHolders(j)' \in SUBSET Holders(j)
  BY <1>2 DEF LiveHolders
<1>4. IsFiniteSet(Holders(j)) /\ Cardinality(Holders(j)) \in Nat
  BY HoldersCards DEF Budget
<1>5. /\ Cardinality(LiveHolders(j)') \in Nat
      /\ Cardinality(LiveHolders(j)') <= Cardinality(Holders(j))
  BY <1>3, <1>4, FS_Subset, FS_CardinalityType
<1>6. Count(Free(j)) = 1 /\ Count(Free(j))' = 1 /\ Count(Waiting(j))' = 1
  BY <1>1 DEF Free, Waiting, Count
<1>7. faults \in Nat /\ MaxAttempts \in Nat /\ MaxAttempts >= 1
  BY DEF DeliveryAssumption
<1>8. Cardinality(Holders(j)) + 1 <= 1 + faults
  BY <1>6 DEF Budget
<1>9. /\ Cardinality(Holders(j)') + Count(Free(j))' <= 1 + faults'
      /\ Cardinality(LiveHolders(j)') + Count(Waiting(j))' <= 1 + faults'
      /\ attempts'[j] + Cardinality(LiveHolders(j)') + Count(Waiting(j))'
           <= MaxAttempts + faults'
  BY <1>1, <1>2, <1>4, <1>5, <1>6, <1>7, <1>8
<1>10. QED
  BY <1>2, <1>4, <1>9 DEF Budget

\* The process dies, and no tick has it.
LEMMA Vanishes ==
    ASSUME DeliveryAssumption, TypeOK, TypeOK', NEW j \in Jobs, Budget(j), Crash
    PROVE  Budget(j)'
<1> USE DEF TypeOK
<1>1. faults' = faults + 1 /\ attempts' = attempts /\ \A t \in Ticks : pc'[t] = "idle"
  BY DEF Crash, Fault, jobVars
<1>2. Holders(j)' = {} /\ LiveHolders(j)' = {}
  BY <1>1 DEF Holders, LiveHolders, InFlight, Holding
<1>3. IsFiniteSet({}) /\ Cardinality({}) = 0
  BY FS_EmptySet
<1>4. /\ Count(Free(j))' \in {0, 1} /\ Count(Waiting(j))' \in {0, 1}
      /\ Count(Waiting(j)) \in {0, 1}
  BY DEF Count
<1>5. Cardinality(LiveHolders(j)) \in Nat
  BY HoldersCards DEF Budget
<1>6. faults \in Nat /\ attempts[j] \in Nat /\ MaxAttempts \in Nat
  BY DEF DeliveryAssumption
<1>7. attempts[j] <= MaxAttempts + faults
  BY <1>4, <1>5, <1>6 DEF Budget
<1>8. /\ 0 + Count(Free(j))' <= 1 + faults' /\ 0 + Count(Waiting(j))' <= 1 + faults'
      /\ attempts'[j] + 0 + Count(Waiting(j))' <= MaxAttempts + faults'
  BY <1>1, <1>4, <1>6, <1>7
<1>9. QED
  BY <1>2, <1>3, <1>8 DEF Budget

\* A step of a tick that has it neither before nor after.
LEMMA Passes ==
    ASSUME DeliveryAssumption, TypeOK, TypeOK', NEW j \in Jobs, Budget(j),
           NEW t \in Ticks, t \notin Holders(j), t \notin Holders(j)',
           \A u \in Ticks \ {t} : pc'[u] = pc[u] /\ cur'[u] = cur[u] /\ att'[u] = att[u],
           status'[j] = status[j], stale'[j] = stale[j], attempts'[j] = attempts[j],
           faults <= faults'
    PROVE  Budget(j)'
<1>1. Holders(j)' = Holders(j)
  BY DEF Holders, InFlight
<1>2. LiveHolders(j)' \subseteq LiveHolders(j)
  BY <1>1 DEF LiveHolders, Holders
<1>3. (Free(j)' => Free(j)) /\ (Waiting(j)' => Waiting(j))
  BY <1>1 DEF Free, Waiting
<1>4. QED
  BY <1>1, <1>2, <1>3, Stays

\* A step of a tick inside processJob.
LEMMA Works ==
    ASSUME DeliveryAssumption, TypeOK, TypeOK', NEW j \in Jobs, Budget(j),
           NEW t \in Ticks, InFlight(t), InFlight(t)', pc'[t] # "claimed",
           att'[t] = IF pc[t] = "claimed" THEN attempts[cur[t]] ELSE att[t],
           \A u \in Ticks \ {t} : pc'[u] = pc[u] /\ att'[u] = att[u],
           UNCHANGED <<cur, status, stale, attempts>>, faults <= faults'
    PROVE  Budget(j)'
<1>1. Holders(j)' = Holders(j)
  BY DEF Holders, InFlight
<1>2. LiveHolders(j)' \subseteq LiveHolders(j)
  BY <1>1 DEF LiveHolders, Holders
<1>3. (Free(j)' => Free(j)) /\ (Waiting(j)' => Waiting(j))
  BY <1>1 DEF Free, Waiting
<1>4. QED
  BY <1>1, <1>2, <1>3, Stays

-----------------------------------------------------------------------------
(* Every step.                                                             *)

\* A step of tick t, whatever t has to do with row j.
LEMMA TickStepBudget ==
    ASSUME DeliveryAssumption, TypeInv, TypeInv', NEW j \in Jobs, Budget(j),
           NEW t \in Ticks, TickStep(t)
    PROVE  Budget(j)'
<1> USE DEF TypeInv, HoldsRow
<1>1. CASE TickStart(t)
  <2>1. Holders(j)' = Holders(j) /\ LiveHolders(j)' = LiveHolders(j)
    BY <1>1 DEF TickStart, Goto, Holders, LiveHolders, InFlight, Holding, TypeOK
  <2>2. (Free(j)' => Free(j)) /\ (Waiting(j)' => Waiting(j))
    BY <1>1, <2>1 DEF TickStart, StuckJobs, Free, Waiting, TypeOK
  <2>3. attempts'[j] = attempts[j] /\ faults <= faults'
    BY <1>1 DEF TickStart, TypeOK
  <2>4. QED
    BY <2>1, <2>2, <2>3, Stays
<1>2. ASSUME pc[t] \in {"fetch", "next"}, NEW S \in SUBSET Jobs, Loop(t, S),
             UNCHANGED <<status, stale, attempts, faults>>
      PROVE  Budget(j)'
  <2>1. t \notin Holders(j) /\ t \notin Holders(j)'
    BY <1>2 DEF Loop, Holders, InFlight, Holding, TypeOK
  <2>2. \A u \in Ticks \ {t} : pc'[u] = pc[u] /\ cur'[u] = cur[u] /\ att'[u] = att[u]
    BY <1>2 DEF Loop, TypeOK
  <2>3. faults <= faults'
    BY <1>2 DEF TypeOK
  <2>4. QED
    BY <1>2, <2>1, <2>2, <2>3, Passes
<1>3. CASE FetchDue(t)
  <2>1. PICK S \in SUBSET Jobs : Loop(t, S)
    BY <1>3 DEF FetchDue, Batches, DueJobs
  <2>2. QED
    BY <1>2, <1>3, <2>1 DEF FetchDue, jobVars
<1>4. ASSUME NEW i \in Jobs, Skip(t, i) PROVE Budget(j)'
  <2>1. todo[t] \ {i} \in SUBSET Jobs
    BY DEF TypeOK
  <2>2. QED
    BY <1>2, <1>4, <2>1 DEF Skip, jobVars
<1>5. ASSUME NEW i \in Jobs, Claim(t, i) PROVE Budget(j)'
  <2>1. CASE i = j
    BY <1>5, <2>1, Takes
  <2>2. CASE i # j
    <3>1. t \notin Holders(j) /\ t \notin Holders(j)'
      BY <1>5, <2>2 DEF Claim, Holders, InFlight, Holding, TypeOK
    <3>2. \A u \in Ticks \ {t} : pc'[u] = pc[u] /\ cur'[u] = cur[u] /\ att'[u] = att[u]
      BY <1>5 DEF Claim, TypeOK
    <3>3. /\ status'[j] = status[j] /\ stale'[j] = stale[j]
          /\ attempts'[j] = attempts[j] /\ faults <= faults'
      <4>1. /\ status' = [status EXCEPT ![i] = "running"]
            /\ stale' = [stale EXCEPT ![i] = FALSE]
            /\ attempts' = [attempts EXCEPT ![i] = @ + 1] /\ faults' = faults
        BY <1>5 DEF Claim
      <4>2. /\ status \in [Jobs -> Statuses] /\ stale \in [Jobs -> BOOLEAN]
            /\ attempts \in [Jobs -> Nat] /\ faults \in Nat
        BY DEF TypeOK
      <4>3. status'[j] = status[j] /\ stale'[j] = stale[j] /\ attempts'[j] = attempts[j]
        BY <2>2, <4>1, <4>2, Zenon
      <4>4. faults <= faults'
        BY <4>1, <4>2
      <4>5. QED
        BY <4>3, <4>4
    <3>4. QED
      BY <3>1, <3>2, <3>3, Passes
  <2>3. QED
    BY <2>1, <2>2
<1>6. CASE Load(t) \/ Prepare(t) \/ Land(t) \/ Reply(t) \/ HttpError(t)
  <2>1. /\ InFlight(t) /\ InFlight(t)' /\ pc'[t] # "claimed"
        /\ att'[t] = IF pc[t] = "claimed" THEN attempts[cur[t]] ELSE att[t]
        /\ \A u \in Ticks \ {t} : pc'[u] = pc[u] /\ att'[u] = att[u]
        /\ UNCHANGED <<cur, status, stale, attempts>> /\ faults <= faults'
    BY <1>6 DEF Load, Prepare, Land, Reply, HttpError, Goto, InFlight, Holding,
                jobVars, TypeOK
  <2>2. QED
    BY <2>1, Works
<1>7. CASE Succeed(t) \/ GiveUp(t) \/ Backoff(t)
  <2>1. /\ pc[t] \in {"ok", "err"} /\ cur[t] \in Jobs /\ Loop(t, todo[t])
        /\ UNCHANGED <<stale, attempts, faults>>
        /\ \A i \in Jobs : i # cur[t] => status'[i] = status[i]
        /\ \/ status'[cur[t]] \in {"success", "failed"}
           \/ status'[cur[t]] = "pending" /\ pc[t] = "err" /\ ~OutOfAttempts(t)
    BY <1>7 DEF Succeed, GiveUp, Backoff, InFlight, Holding, TypeOK
  <2>2. /\ pc'[t] \in {"idle", "next"}
        /\ \A u \in Ticks \ {t} : pc'[u] = pc[u] /\ cur'[u] = cur[u] /\ att'[u] = att[u]
    BY <2>1 DEF Loop, TypeOK
  <2>3. faults <= faults'
    BY <2>1 DEF TypeOK
  <2>4. CASE cur[t] = j
    <3>1. t \in Holders(j) /\ Holders(j)' = Holders(j) \ {t}
      BY <2>1, <2>2, <2>4 DEF Holders, InFlight, Holding
    <3>2. LiveHolders(j)' = LiveHolders(j) \ {t}
      BY <2>1, <2>2, <3>1 DEF LiveHolders, Holders
    <3>3. Waiting(j)' => t \in LiveHolders(j)
      <4>1. SUFFICES ASSUME Waiting(j)' PROVE t \in LiveHolders(j)
        OBVIOUS
      <4>2. pc[t] = "err" /\ ~OutOfAttempts(t)
        BY <2>1, <2>4, <4>1 DEF Waiting
      <4>3. QED
        BY <3>1, <4>2 DEF LiveHolders, OutOfAttempts, TypeOK, DeliveryAssumption
    <3>4. QED
      BY <2>1, <2>3, <3>1, <3>2, <3>3, Leaves
  <2>5. CASE cur[t] # j
    <3>1. t \notin Holders(j) /\ t \notin Holders(j)'
      BY <2>2, <2>5 DEF Holders, InFlight, Holding
    <3>2. status'[j] = status[j] /\ stale'[j] = stale[j] /\ attempts'[j] = attempts[j]
      BY <2>1, <2>5
    <3>3. QED
      BY <2>2, <2>3, <3>1, <3>2, Passes
  <2>6. QED
    BY <2>4, <2>5
<1>8. QED
  BY <1>1, <1>3, <1>4, <1>5, <1>6, <1>7 DEF TickStep

\* A failing query.  One outside the try block leaves the row to the stuck
\* reset, which is a way back to "pending" that the fault pays for.
LEMMA FailsBudget ==
    ASSUME DeliveryAssumption, TypeInv, TypeInv', NEW j \in Jobs, Budget(j),
           NEW t \in Ticks, TryFails(t) \/ TickFails(t)
    PROVE  Budget(j)'
<1> USE DEF TypeInv, HoldsRow
<1>1. /\ UNCHANGED <<status, stale, attempts>>
      /\ faults' = faults + 1 /\ faults <= faults'
  BY DEF TryFails, TickFails, Fault, jobVars, TypeOK
<1>2. CASE TryFails(t)
  <2>1. /\ InFlight(t) /\ InFlight(t)' /\ pc'[t] # "claimed" /\ pc[t] # "claimed"
        /\ att' = att /\ cur' = cur
        /\ \A u \in Ticks \ {t} : pc'[u] = pc[u]
    BY <1>2 DEF TryFails, Goto, InFlight, Holding, TypeOK
  <2>2. QED
    BY <1>1, <2>1, Works
<1>3. CASE TickFails(t)
  <2>1. /\ pc'[t] = "idle" /\ pc[t] \in {"fetch", "next", "claimed", "err"}
        /\ \A u \in Ticks \ {t} : pc'[u] = pc[u] /\ cur'[u] = cur[u] /\ att'[u] = att[u]
    BY <1>3 DEF TickFails, Loop, TypeOK
  <2>2. CASE t \in Holders(j)
    <3>1. Holders(j)' = Holders(j) \ {t}
      BY <2>1, <2>2 DEF Holders, InFlight, Holding
    <3>2. LiveHolders(j)' = LiveHolders(j) \ {t}
      BY <1>1, <2>1, <3>1 DEF LiveHolders, Holders
    <3>3. faults + 1 <= faults'
      BY <1>1 DEF TypeOK
    <3>4. QED
      BY <1>1, <2>2, <3>1, <3>2, <3>3, Leaves
  <2>3. CASE t \notin Holders(j)
    <3>1. t \notin Holders(j)'
      BY <2>1 DEF Holders, InFlight, Holding
    <3>2. QED
      BY <1>1, <2>1, <2>3, <3>1, Passes
  <2>4. QED
    BY <2>2, <2>3
<1>4. QED
  BY <1>2, <1>3

\* A step that moves no tick and gives row j no new way to wait.
LEMMA RestsBudget ==
    ASSUME DeliveryAssumption, TypeOK, TypeOK', NEW j \in Jobs, Budget(j),
           UNCHANGED <<pc, cur, att>>, attempts'[j] = attempts[j],
           \/ faults' = faults /\ status'[j] = status[j] /\ stale'[j] = stale[j]
           \/ faults' = faults /\ status[j] = "none" /\ status'[j] = "pending"
           \/ /\ status[j] = "running" /\ status'[j] = "running"
              /\ Holders(j) = {} /\ faults' = faults
           \/ faults' = faults + 1
    PROVE  Budget(j)'
<1>1. Holders(j)' = Holders(j)
  BY DEF Holders, InFlight
<1>2. LiveHolders(j)' \subseteq LiveHolders(j)
  BY <1>1 DEF LiveHolders
<1>3. \/ faults <= faults' /\ (Free(j)' => Free(j)) /\ (Waiting(j)' => Waiting(j))
      \/ faults + 1 <= faults'
  BY <1>1 DEF Free, Waiting, TypeOK
<1>4. QED
  BY <1>1, <1>2, <1>3, Stays

LEMMA NextBudget ==
    ASSUME DeliveryAssumption, BudgetInv, [Next]_vars
    PROVE  BudgetInv'
<1>1. TypeInv /\ TypeInv' /\ TypeOK /\ TypeOK'
  BY NextType DEF BudgetInv, TypeInv
<1>2. ASSUME NEW j \in Jobs PROVE Budget(j)'
  <2>1. Budget(j)
    BY DEF BudgetInv
  <2>2. CASE UNCHANGED <<status, stale, attempts, pc, cur, att, faults>>
    BY <1>1, <2>1, <2>2, RestsBudget
  <2>3. ASSUME NEW p \in Publishers, PublishCreate(p) PROVE Budget(j)'
    <3>1. UNCHANGED <<pc, cur, att, attempts, stale, faults>>
      BY <2>3 DEF PublishCreate, tickVars
    <3>2. \/ status'[j] = status[j]
          \/ status[j] = "none" /\ status'[j] = "pending"
      BY <1>1, <2>3 DEF PublishCreate, NewRowStatus, TypeOK
    <3>3. QED
      BY <1>1, <2>1, <3>1, <3>2, RestsBudget
  <2>4. ASSUME NEW i \in Jobs, Retry(i) PROVE Budget(j)'
    <3>1. CASE i = j
      BY <1>1, <2>1, <2>4, <3>1, Restarts
    <3>2. CASE i # j
      <4>1. /\ UNCHANGED <<pc, cur, att, stale, faults>>
            /\ status'[j] = status[j] /\ attempts'[j] = attempts[j]
        BY <1>1, <2>4, <3>2 DEF Retry, tickVars, TypeOK
      <4>2. QED
        BY <1>1, <2>1, <4>1, RestsBudget
    <3>3. QED
      BY <3>1, <3>2
  <2>5. ASSUME NEW i \in Jobs, BecomeStale(i) PROVE Budget(j)'
    <3>1. /\ UNCHANGED <<pc, cur, att, status, attempts>> /\ status[i] = "running"
          /\ i # j => stale'[j] = stale[j]
      BY <1>1, <2>5 DEF BecomeStale, tickVars, TypeOK
    <3>2. \/ faults' = faults + 1
          \/ faults' = faults /\ Holders(i) = {}
      BY <2>5 DEF BecomeStale, Fault, Holders
    <3>3. QED
      BY <1>1, <2>1, <3>1, <3>2, RestsBudget
  <2>6. ASSUME NEW t \in Ticks, TickStep(t) PROVE Budget(j)'
    BY <1>1, <2>1, <2>6, TickStepBudget
  <2>7. ASSUME NEW t \in Ticks, TryFails(t) \/ TickFails(t) PROVE Budget(j)'
    BY <1>1, <2>1, <2>7, FailsBudget
  <2>8. CASE Crash
    BY <1>1, <2>1, <2>8, Vanishes
  <2>9. \/ UNCHANGED <<status, stale, attempts, pc, cur, att, faults>>
        \/ \E p \in Publishers : PublishCreate(p)
        \/ \E i \in Jobs : Retry(i) \/ BecomeStale(i)
        \/ \E t \in Ticks : TickStep(t) \/ TryFails(t) \/ TickFails(t)
        \/ Crash
    BY DEF Next, vars, Edit, PublishFind, PublishCoalesce, BecomeDue, jobVars, tickVars
  <2>10. QED
    BY <2>2, <2>3, <2>4, <2>5, <2>6, <2>7, <2>8, <2>9
<1>3. QED
  BY <1>1, <1>2 DEF BudgetInv

\* However many ticks, rows and faults: a row is given out at most MAX_ATTEMPTS
\* times and once more for each fault, since its creation or its last retry.
THEOREM AttemptsBounded ==
    ASSUME DeliveryAssumption
    PROVE  Spec => []AttemptBudget
<1>1. Init => BudgetInv
  BY InitBudget
<1>2. BudgetInv /\ [Next]_vars => BudgetInv'
  BY NextBudget
<1>3. BudgetInv => AttemptBudget
  <2>1. SUFFICES ASSUME BudgetInv, NEW j \in Jobs
                 PROVE  attempts[j] <= MaxAttempts + faults
    BY DEF AttemptBudget
  <2>2. Budget(j) /\ TypeOK
    BY <2>1 DEF BudgetInv, TypeInv
  <2>3. Cardinality(LiveHolders(j)) \in Nat /\ Count(Waiting(j)) \in {0, 1}
    BY <2>2, HoldersCards, CountType DEF Budget
  <2>4. QED
    BY <2>2, <2>3 DEF Budget, TypeOK, DeliveryAssumption
<1>4. QED
  BY <1>1, <1>2, <1>3, PTL DEF Spec

=============================================================================
