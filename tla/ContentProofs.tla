---------------------------- MODULE ContentProofs ----------------------------
(***************************************************************************)
(* Proofs about Content, for every corpus, every list on Google, every     *)
(* page size and every number of overlapping imports and refreshes.        *)
(***************************************************************************)
EXTENDS Content, TLAPS

-----------------------------------------------------------------------------
(* Type correctness.  A type of its own for rows and items: an import      *)
(* inserts later what it read earlier, so the types of reviews and jobs    *)
(* rest on those of the files and of the requests under way.               *)

KeySet ==
    (Bodies \X Units \X (Past \cup Present))
      \cup ({"gbp", "places"} \X GoogleIds) \cup ({"form"} \X FormIds) \cup PostedIds

Row == [key : KeySet, body : Rated, time : Times]

ReviewItem == [body : Bodies, time : Times \cup {NoTime},
         ext : {NoExt} \cup ({"gbp", "places"} \X GoogleIds) \cup PostedIds]

\* What importReviews is given.
RatedItem == {i \in ReviewItem : i.body \in Rated}

JobItem == [slug : Slugs, status : JobStatuses]

TypeInv ==
    /\ TypeOK
    /\ reviews \in SUBSET Row
    /\ file \in SUBSET ReviewItem
    /\ jobsFile \in SUBSET [slug : Slugs, status : STRING]
    /\ items \in [Reqs -> SUBSET (ReviewItem \cup JobItem)]
    /\ due \in [Reqs -> SUBSET ReviewItem]
    /\ \A r \in Reqs :
         /\ pc[r] \in {"page", "store"} => items[r] \subseteq ReviewItem
         /\ pc[r] \in {"compare", "insert"} => items[r] \subseteq RatedItem
         /\ pc[r] = "jobs" => items[r] \subseteq JobItem

\* TypeOK says of the rows what TypeInv says of them.
LEMMA RowsKeyed ==
    ASSUME NEW S \in SUBSET Row
    PROVE  \A x \in S : Keyed(x.key) /\ x.body \in Rated /\ x.time \in Times
BY DEF Row, KeySet, Keyed

LEMMA InitContentType ==
    ASSUME ContentAssumption, Init
    PROVE  TypeInv
<1>1. google \in Seq(GoogleIds)
  BY DEF Init
<1>2. TypeOK
  BY <1>1 DEF Init, TypeOK
<1>3. file \in SUBSET ReviewItem
  BY DEF Init, ContentAssumption, ReviewItem
<1>4. jobsFile \in SUBSET [slug : Slugs, status : STRING]
  BY DEF Init, ContentAssumption
<1>5. QED
  BY <1>2, <1>3, <1>4 DEF Init, TypeInv

\* What importReviews makes of an item is a row.
LEMMA RowType ==
    ASSUME ContentAssumption, NEW i \in RatedItem, NEW now \in Present
    PROVE  RowOf(i, now) \in Row
<1>1. Normalized(i.time, now) \in Times
  BY DEF Normalized, Ms, RatedItem, ReviewItem, Times, Units
<1>2. i.body \in Rated /\ i.body \in Bodies
  BY DEF RatedItem, Rated
<1>3. i.ext \in {NoExt} \cup ({"gbp", "places"} \X GoogleIds) \cup PostedIds
  BY DEF RatedItem, ReviewItem
<1>4. PICK t \in Times : t = Normalized(i.time, now)
  BY <1>1
<1>5. <<i.body, t.unit, t.at>> \in KeySet
  BY <1>2 DEF Times, KeySet
<1>6. (IF i.ext # NoExt THEN i.ext ELSE <<i.body, t.unit, t.at>>) \in KeySet
  BY <1>3, <1>5 DEF KeySet
<1>7. QED
  BY <1>2, <1>4, <1>6 DEF RowOf, Row

\* insertDeduped only adds, and adds rows.
LEMMA InsertType ==
    ASSUME ContentAssumption, NEW is \in SUBSET RatedItem, InsertRows(is),
           reviews \in SUBSET Row
    PROVE  reviews' \in SUBSET Row /\ reviews \subseteq reviews'
<1>1. PICK now \in Present :
        \E S \in Inserted({RowOf(i, now) : i \in is}) : reviews' = reviews \cup S
  BY DEF InsertRows
<1>2. PICK S \in SUBSET {RowOf(i, now) : i \in is} : reviews' = reviews \cup S
  BY <1>1 DEF Inserted
<1>3. {RowOf(i, now) : i \in is} \subseteq Row
  BY RowType
<1>4. QED
  BY <1>2, <1>3

LEMMA GoogleItemType ==
    ASSUME ContentAssumption, NEW from \in {"gbp", "places"}, NEW g \in GoogleIds
    PROVE  GoogleItem(from, g) \in ReviewItem
<1>1. /\ OnGoogle[g].body \in Bodies
      /\ OnGoogle[g].time \in {Ms(t) : t \in Past} \cup {NoTime}
  BY DEF ContentAssumption
<1>2. OnGoogle[g].time \in Times \cup {NoTime}
  BY <1>1 DEF Ms, Times, Units
<1>3. (IF g \in NoId THEN NoExt ELSE <<from, g>>)
        \in {NoExt} \cup ({"gbp", "places"} \X GoogleIds)
  OBVIOUS
<1>4. QED
  BY <1>1, <1>2, <1>3 DEF GoogleItem, ReviewItem

\* parseReviewsFile leaves items with a rating.
LEMMA ParsedType ==
    ASSUME ContentAssumption, NEW f \in SUBSET ReviewItem
    PROVE  ParsedReviews(f) \in SUBSET RatedItem
<1>1. ASSUME NEW i \in f, Stars[i.body] >= 1
      PROVE  [i EXCEPT !.body = Trim[i.body]] \in RatedItem
  <2>1. i \in ReviewItem /\ i.body \in Bodies
    BY DEF ReviewItem
  <2>2. Trim[i.body] \in Bodies /\ Stars[Trim[i.body]] = Stars[i.body]
    BY <2>1 DEF ContentAssumption
  <2>3. Trim[i.body] \in Rated
    BY <1>1, <2>2 DEF Rated
  <2>4. [i EXCEPT !.body = Trim[i.body]] \in ReviewItem
    BY <2>1, <2>2 DEF ReviewItem
  <2>5. QED
    BY <2>1, <2>3, <2>4 DEF RatedItem, ReviewItem
<1>2. QED
  BY <1>1 DEF ParsedReviews

\* A request goes on with items of the type that its next step wants.
LEMMA GoType ==
    ASSUME TypeInv, NEW r \in Reqs, NEW from, NEW to, NEW is, Go(r, from, to, is),
           \/ to \in {"page", "store"} /\ is \in SUBSET ReviewItem
           \/ to \in {"compare", "insert"} /\ is \in SUBSET RatedItem
           \/ to = "jobs" /\ is \in SUBSET JobItem
           \/ to = "idle" /\ is = {}
    PROVE  /\ pc' \in [Reqs -> {"idle", "page", "compare", "insert", "store", "jobs"}]
           /\ items' \in [Reqs -> SUBSET (ReviewItem \cup JobItem)]
           /\ \A s \in Reqs :
                /\ pc'[s] \in {"page", "store"} => items'[s] \subseteq ReviewItem
                /\ pc'[s] \in {"compare", "insert"} => items'[s] \subseteq RatedItem
                /\ pc'[s] = "jobs" => items'[s] \subseteq JobItem
BY DEF TypeInv, TypeOK, Go, RatedItem

LEMMA NextContentType ==
    ASSUME ContentAssumption, TypeInv, [Next]_vars
    PROVE  TypeInv'
<1> USE DEF Reqs
<1>0. /\ reviews \in SUBSET Row /\ file \in SUBSET ReviewItem
      /\ jobsFile \in SUBSET [slug : Slugs, status : STRING]
      /\ items \in [Reqs -> SUBSET (ReviewItem \cup JobItem)]
      /\ due \in [Reqs -> SUBSET ReviewItem] /\ page \in [Reqs -> Nat]
      /\ jobs \in [Slugs -> JobStatuses \cup {"none"}]
      /\ google \in Seq(GoogleIds) /\ since \in [Reqs -> SUBSET reviews]
  BY DEF TypeInv, TypeOK
\* What is left to show of an action, by the variables it may change.
<1>1. ASSUME reviews' \in SUBSET Row, UNCHANGED <<jobs, google, fileVars, requestVars>>,
             \/ reviews \subseteq reviews' /\ UNCHANGED historyVars
             \/ TakenOut
      PROVE  TypeInv'
  <2>1. due' \in [Reqs -> SUBSET ReviewItem]
    BY <1>0, <1>1 DEF historyVars, TakenOut
  <2>2. since' \in [Reqs -> SUBSET reviews']
    BY <1>0, <1>1 DEF historyVars, TakenOut
  <2>3. TypeOK'
    BY <1>1, <2>2, RowsKeyed DEF TypeInv, TypeOK, requestVars, fileVars
  <2>4. QED
    BY <1>1, <2>1, <2>3 DEF TypeInv, requestVars, fileVars
<1>2. ASSUME jobs' \in [Slugs -> JobStatuses \cup {"none"}],
             UNCHANGED <<reviews, google, fileVars, requestVars, historyVars>>
      PROVE  TypeInv'
  <2>1. TypeOK'
    BY <1>2 DEF TypeInv, TypeOK, requestVars, fileVars, historyVars
  <2>2. QED
    BY <1>2, <2>1 DEF TypeInv, requestVars, fileVars, historyVars
<1>3. ASSUME NEW r \in Reqs, NEW from, NEW to, NEW is, Go(r, from, to, is),
             \/ to \in {"page", "store"} /\ is \in SUBSET ReviewItem
             \/ to \in {"compare", "insert"} /\ is \in SUBSET RatedItem
             \/ to = "jobs" /\ is \in SUBSET JobItem
             \/ to = "idle" /\ is = {},
             page' \in [Reqs -> Nat], due' \in [Reqs -> SUBSET ReviewItem],
             since' \in [Reqs -> SUBSET reviews'],
             reviews' \in SUBSET Row, jobs' \in [Slugs -> JobStatuses \cup {"none"}],
             UNCHANGED <<google, fileVars>>
      PROVE  TypeInv'
  <2>1. /\ pc' \in [Reqs -> {"idle", "page", "compare", "insert", "store", "jobs"}]
        /\ items' \in [Reqs -> SUBSET (ReviewItem \cup JobItem)]
        /\ \A s \in Reqs :
             /\ pc'[s] \in {"page", "store"} => items'[s] \subseteq ReviewItem
             /\ pc'[s] \in {"compare", "insert"} => items'[s] \subseteq RatedItem
             /\ pc'[s] = "jobs" => items'[s] \subseteq JobItem
    BY <1>3, GoType
  <2>2. TypeOK'
    BY <1>0, <1>3, <2>1, RowsKeyed DEF TypeOK
  <2>3. QED
    BY <1>0, <1>3, <2>1, <2>2 DEF TypeInv, fileVars
<1>4. ASSUME NEW r \in Reqs, NEW from, End(r, from), reviews \subseteq reviews',
             reviews' \in SUBSET Row, jobs' \in [Slugs -> JobStatuses \cup {"none"}],
             UNCHANGED <<google, fileVars>>
      PROVE  TypeInv'
  <2>1. /\ Go(r, from, "idle", {})
        /\ page' \in [Reqs -> Nat] /\ due' \in [Reqs -> SUBSET ReviewItem]
        /\ since' \in [Reqs -> SUBSET reviews']
    BY <1>0, <1>4 DEF End
  <2>2. QED
    BY <1>3, <1>4, <2>1
<1>5. ASSUME NEW r \in Reqs, RepoRead(r) PROVE TypeInv'
  <2>1. PICK parsed \in SUBSET RatedItem :
          /\ Go(r, "idle", "compare", parsed) /\ due' = [due EXCEPT ![r] = parsed]
          /\ since' = [since EXCEPT ![r] = reviews]
          /\ UNCHANGED <<reviews, jobs, google, fileVars, page>>
    BY <1>0, <1>5, ParsedType DEF RepoRead
  <2>2. /\ due' \in [Reqs -> SUBSET ReviewItem] /\ page' \in [Reqs -> Nat]
        /\ since' \in [Reqs -> SUBSET reviews']
    BY <1>0, <2>1 DEF RatedItem
  <2>3. QED
    BY <1>0, <1>3, <2>1, <2>2
<1>6. ASSUME NEW r \in Reqs, RepoCompare(r) PROVE TypeInv'
  <2>1. UNCHANGED <<reviews, jobs, google, fileVars>> /\ pc[r] = "compare"
    BY <1>6 DEF RepoCompare
  <2>2. items[r] \subseteq RatedItem
    BY <2>1 DEF TypeInv
  <2>3. PICK fresh \in SUBSET items[r] :
          \/ End(r, "compare")
          \/ Go(r, "compare", "insert", fresh) /\ UNCHANGED <<page, due, since>>
    BY <1>6 DEF RepoCompare, historyVars
  <2>4. fresh \in SUBSET RatedItem
    BY <2>2, <2>3
  <2>5. CASE End(r, "compare")
    BY <1>0, <1>4, <2>1, <2>5
  <2>6. CASE Go(r, "compare", "insert", fresh) /\ UNCHANGED <<page, due, since>>
    BY <1>0, <1>3, <2>1, <2>4, <2>6
  <2>7. QED
    BY <2>3, <2>5, <2>6
<1>7. ASSUME NEW r \in Reqs, RepoInsert(r) \/ RefreshStore(r) PROVE TypeInv'
  <2>0. /\ pc[r] = "insert" => items[r] \in SUBSET RatedItem
        /\ pc[r] = "store" => Usable(items[r]) \in SUBSET RatedItem
    BY DEF TypeInv, Usable, RatedItem, ReviewItem, Rated
  <2>1. PICK is \in SUBSET RatedItem :
          /\ InsertRows(is) /\ UNCHANGED <<jobs, google, fileVars>>
          /\ End(r, "insert") \/ End(r, "store")
    BY <1>7, <2>0 DEF RepoInsert, RefreshStore, End, Go
  <2>2. reviews' \in SUBSET Row /\ reviews \subseteq reviews'
    BY <1>0, <2>1, InsertType DEF TypeInv
  <2>3. QED
    BY <1>0, <1>4, <2>1, <2>2
<1>8. ASSUME NEW r \in Reqs, JobsRead(r) PROVE TypeInv'
  <2>1. {[e EXCEPT !.status = ParsedStatus(e.status)] : e \in jobsFile} \in SUBSET JobItem
    <3>1. ASSUME NEW e \in [slug : Slugs, status : STRING]
          PROVE  [e EXCEPT !.status = ParsedStatus(e.status)] \in JobItem
      <4>1. ParsedStatus(e.status) \in JobStatuses
        BY DEF ParsedStatus, ContentAssumption
      <4>2. QED
        BY <4>1 DEF JobItem
    <3>2. QED
      BY <1>0, <3>1
  <2>2. QED
    BY <1>0, <1>3, <1>8, <2>1 DEF JobsRead, historyVars
<1>9. ASSUME NEW r \in Reqs, JobsInsert(r) PROVE TypeInv'
  <2>1. /\ End(r, "jobs") /\ pc[r] = "jobs"
        /\ UNCHANGED <<reviews, google, fileVars>>
    BY <1>0, <1>9 DEF JobsInsert, End, Go
  <2>2. items[r] \subseteq JobItem
    BY <2>1 DEF TypeInv
  <2>3. jobs' \in [Slugs -> JobStatuses \cup {"none"}]
    BY <1>9, <2>2 DEF JobsInsert, JobItem
  <2>4. QED
    BY <1>0, <1>4, <2>1, <2>3
<1>10. ASSUME NEW r \in Reqs, RefreshStart(r) PROVE TypeInv'
  <2>1. {GoogleItem("gbp", google[n]) : n \in DOMAIN google} \in SUBSET ReviewItem
    BY <1>0, GoogleItemType
  <2>2. due' \in [Reqs -> SUBSET ReviewItem]
    BY <1>0, <1>10, <2>1 DEF RefreshStart, Usable
  <2>3. /\ Go(r, "idle", "page", {})
        /\ UNCHANGED <<reviews, jobs, google, fileVars, page, since>>
    BY <1>10 DEF RefreshStart
  <2>4. QED
    BY <1>0, <1>3, <2>2, <2>3
<1>11. ASSUME NEW r \in Reqs, RefreshPage(r) PROVE TypeInv'
  <2>1. PICK N \in SUBSET DOMAIN google :
          \E to \in {"store", "page"} :
             Go(r, "page", to, items[r] \cup {GoogleItem("gbp", google[n]) : n \in N})
    BY <1>11 DEF RefreshPage
  <2>2. pc[r] = "page" /\ UNCHANGED <<reviews, jobs, google, fileVars, due, since>>
    BY <1>11 DEF RefreshPage, Go, historyVars
  <2>3. {GoogleItem("gbp", google[n]) : n \in N} \in SUBSET ReviewItem
    BY <1>0, <2>1, GoogleItemType
  <2>4. items[r] \in SUBSET ReviewItem
    BY <2>2 DEF TypeInv
  <2>5. page' \in [Reqs -> Nat]
    BY <1>0, <1>11 DEF RefreshPage, ContentAssumption
  <2>6. items[r] \cup {GoogleItem("gbp", google[n]) : n \in N} \in SUBSET ReviewItem
    BY <2>3, <2>4
  <2>7. PICK to \in {"store", "page"}, is \in SUBSET ReviewItem : Go(r, "page", to, is)
    BY <2>1, <2>6
  <2>8. QED
    BY <1>0, <1>3, <2>2, <2>5, <2>7
<1>12. ASSUME NEW r \in Reqs, RefreshFails(r) PROVE TypeInv'
  BY <1>0, <1>4, <1>12 DEF RefreshFails
<1>13. ASSUME NEW r \in Reqs, RefreshPlaces(r) PROVE TypeInv'
  <2>1. PICK S \in SUBSET {google[n] : n \in DOMAIN google} :
          /\ Go(r, "idle", "store", {GoogleItem("places", g) : g \in S})
          /\ due' = [due EXCEPT ![r] = Usable({GoogleItem("places", g) : g \in S})]
    BY <1>13 DEF RefreshPlaces
  <2>2. {GoogleItem("places", g) : g \in S} \in SUBSET ReviewItem
    BY <1>0, <2>1, GoogleItemType
  <2>3. due' \in [Reqs -> SUBSET ReviewItem]
    BY <1>0, <2>1, <2>2 DEF Usable
  <2>4. UNCHANGED <<reviews, jobs, google, fileVars, page, since>>
    BY <1>13 DEF RefreshPlaces
  <2>5. QED
    BY <1>0, <1>3, <2>1, <2>2, <2>3, <2>4
<1>14. CASE BulkImport
  <2>1. PICK is \in SUBSET PostedItems : InsertRows(is)
    BY <1>14 DEF BulkImport
  <2>2. PostedItems \subseteq RatedItem
    BY DEF PostedItems, RatedItem, Rated, ReviewItem, ContentAssumption, Times
  <2>3. reviews' \in SUBSET Row /\ reviews \subseteq reviews'
    BY <1>0, <2>1, <2>2, InsertType
  <2>4. QED
    BY <1>1, <1>14, <2>3 DEF BulkImport
<1>15. CASE CreateReview
  <2>1. FormTimes \subseteq Times
    BY DEF FormTimes, Times, Ms, Units
  <2>2. PICK n \in FormIds, b \in Typed, t \in FormTimes :
          reviews' = reviews \cup {[key |-> <<"form", n>>, body |-> b, time |-> t]}
    BY <1>15 DEF CreateReview
  <2>3. <<"form", n>> \in KeySet
    BY DEF KeySet
  <2>4. [key |-> <<"form", n>>, body |-> b, time |-> t] \in Row
    BY <2>1, <2>2, <2>3 DEF Row, Rated, ContentAssumption
  <2>5. QED
    BY <1>0, <1>1, <1>15, <2>2, <2>4 DEF CreateReview
<1>16. CASE UpdateReview
  <2>1. PICK x \in reviews : \E b \in Typed \cup {x.body}, t \in EditTimes \cup {x.time} :
          reviews' = (reviews \ {x}) \cup {[x EXCEPT !.body = b, !.time = t]}
    BY <1>16 DEF UpdateReview
  <2>2. x \in Row
    BY <1>0
  <2>3. ASSUME NEW b \in Typed \cup {x.body}, NEW t \in EditTimes \cup {x.time}
        PROVE  [x EXCEPT !.body = b, !.time = t] \in Row
    BY <2>2 DEF Row, Rated, ContentAssumption
  <2>4. PICK y \in Row : reviews' = (reviews \ {x}) \cup {y}
    BY <2>1, <2>3
  <2>5. reviews' \in SUBSET Row
    BY <1>0, <2>4
  <2>6. QED
    BY <1>1, <1>16, <2>5 DEF UpdateReview
<1>17. CASE DeleteReview
  <2>1. reviews' \in SUBSET Row /\ TakenOut
    BY <1>0, <1>17 DEF DeleteReview
  <2>2. QED
    BY <1>1, <1>17, <2>1 DEF DeleteReview
<1>18. CASE CreateJob
  BY <1>0, <1>2, <1>18 DEF CreateJob
<1>19. CASE UpdateJob
  <2>1. PICK s \in Slugs, u \in Slugs, st \in JobStatuses :
          jobs' = [jobs EXCEPT ![s] = "none", ![u] = st]
    BY <1>19 DEF UpdateJob
  <2>2. jobs' \in [Slugs -> JobStatuses \cup {"none"}]
    BY <1>0, <2>1
  <2>3. QED
    BY <1>2, <1>19, <2>2 DEF UpdateJob
<1>20. CASE DeleteJob
  BY <1>0, <1>2, <1>20 DEF DeleteJob
<1>21. CASE Post
  <2>1. PICK g \in GoogleIds : google' = <<g>> \o google
    BY <1>21 DEF Post
  <2>2. google' \in Seq(GoogleIds)
    BY <1>0, <2>1
  <2>3. UNCHANGED <<reviews, jobs, fileVars, requestVars, historyVars>>
    BY <1>21 DEF Post
  <2>4. TypeOK'
    BY <2>2, <2>3 DEF TypeInv, TypeOK, requestVars, historyVars
  <2>5. QED
    BY <2>3, <2>4 DEF TypeInv, fileVars, requestVars, historyVars
<1>22. CASE Publish
  <2>1. PICK D \in SUBSET reviews :
          file' = {[body |-> x.body, time |-> FileTime(x.time), ext |-> NoExt] : x \in D}
    BY <1>22 DEF Publish, Displays
  <2>2. ASSUME NEW x \in Row
        PROVE  [body |-> x.body, time |-> FileTime(x.time), ext |-> NoExt] \in ReviewItem
    BY DEF Row, Rated, ReviewItem, FileTime, Times, Units
  <2>3. file' \in SUBSET ReviewItem
    BY <1>0, <2>1, <2>2
  <2>4. FileJobs \in SUBSET [slug : Slugs, status : STRING]
    <3>1. ASSUME NEW s \in Slugs, jobs[s] \in {"active", "expired"}
          PROVE  [slug |-> s, status |-> jobs[s]] \in [slug : Slugs, status : STRING]
      <4>1. jobs[s] \in STRING
        BY <1>0, <3>1 DEF ContentAssumption
      <4>2. QED
        BY <4>1
    <3>2. QED
      BY <3>1 DEF FileJobs
  <2>5. /\ UNCHANGED <<source, uses, reviews, jobs, google, requestVars, historyVars>>
        /\ jobsFile' = FileJobs
    BY <1>22 DEF Publish
  <2>6. TypeOK'
    BY <2>5 DEF TypeInv, TypeOK, requestVars, historyVars
  <2>7. QED
    BY <2>3, <2>4, <2>5, <2>6 DEF TypeInv, requestVars, historyVars
<1>23. CASE UNCHANGED vars
  BY <1>23 DEF vars, TypeInv, TypeOK
<1>24. QED
  BY <1>5, <1>6, <1>7, <1>8, <1>9, <1>10, <1>11, <1>12, <1>13, <1>14, <1>15, <1>16,
     <1>17, <1>18, <1>19, <1>20, <1>21, <1>22, <1>23 DEF Next, RepoImport, Refresh

\* Every row, item and file keeps its type, however the files go round between
\* the CMS and the site and however many imports overlap.
THEOREM ContentTypeCorrect ==
    ASSUME ContentAssumption
    PROVE  Spec => []TypeOK
<1>1. Init => TypeInv
  BY InitContentType
<1>2. TypeInv /\ [Next]_vars => TypeInv'
  BY NextContentType
<1>3. TypeInv => TypeOK
  BY DEF TypeInv
<1>4. QED
  BY <1>1, <1>2, <1>3, PTL DEF Spec

-----------------------------------------------------------------------------
(* Which steps return.                                                     *)

\* A request returns by one of five actions, all its own.
LEMMA WhoEnds ==
    ASSUME TypeInv, Next, NEW r \in Reqs, Done(r)
    PROVE  \/ RepoCompare(r) /\ End(r, "compare")
           \/ RepoInsert(r) \/ JobsInsert(r)
           \/ RefreshFails(r) \/ RefreshStore(r)
<1> USE DEF Reqs
<1>1. pc \in [Reqs -> {"idle", "page", "compare", "insert", "store", "jobs"}]
  BY DEF TypeInv, TypeOK
<1>2. ASSUME pc' = pc PROVE FALSE
  BY <1>2 DEF Done
<1>3. ASSUME NEW s \in Reqs, NEW from, NEW to, NEW is, Go(s, from, to, is)
      PROVE  s = r /\ to = "idle"
  BY <1>1, <1>3 DEF Go, Done
<1>4. ASSUME NEW s \in Reqs, RepoRead(s) \/ JobsRead(s) \/ RefreshStart(s)
                             \/ RefreshPage(s) \/ RefreshPlaces(s)
      PROVE  FALSE
  <2>1. pc'[s] \in {"compare", "jobs", "page", "store"}
    BY <1>1, <1>4 DEF RepoRead, JobsRead, RefreshStart, RefreshPage, RefreshPlaces, Go
  <2>2. \E from, to, is : Go(s, from, to, is)
    BY <1>4 DEF RepoRead, JobsRead, RefreshStart, RefreshPage, RefreshPlaces
  <2>3. QED
    BY <1>3, <2>1, <2>2 DEF Done
<1>5. ASSUME NEW s \in Reqs, RepoCompare(s)
      PROVE  s = r /\ End(s, "compare")
  <2>1. \/ End(s, "compare")
        \/ \E is : Go(s, "compare", "insert", is)
    BY <1>5 DEF RepoCompare
  <2>2. QED
    BY <1>3, <2>1 DEF End
<1>6. ASSUME NEW s \in Reqs,
             RepoInsert(s) \/ JobsInsert(s) \/ RefreshFails(s) \/ RefreshStore(s)
      PROVE  s = r
  BY <1>3, <1>6 DEF RepoInsert, JobsInsert, RefreshFails, RefreshStore, End
<1>7. ASSUME \/ BulkImport \/ CreateReview \/ UpdateReview \/ DeleteReview
             \/ CreateJob \/ UpdateJob \/ DeleteJob \/ Post \/ Publish
      PROVE  FALSE
  BY <1>2, <1>7 DEF BulkImport, CreateReview, UpdateReview, DeleteReview, CreateJob,
                    UpdateJob, DeleteJob, Post, Publish, requestVars
<1>8. QED
  BY <1>4, <1>5, <1>6, <1>7 DEF Next, RepoImport, Refresh

-----------------------------------------------------------------------------
(* Imports bring everything, and double nothing they could have seen.      *)
(* What a request still has to bring is on its way in its items, on a page *)
(* to come (Google's list grows at its head, which moves a review to a     *)
(* later page, never to an earlier one), or in the CMS, where it stays     *)
(* unless a user takes it out.  What a repository import is about to       *)
(* insert differs from every row that is unchanged since it began: the     *)
(* comparison saw them all.                                                *)

\* What Google's pages to come hold.
Ahead(r) ==
    {GoogleItem("gbp", google[n]) :
        n \in {k \in DOMAIN google : page[r] < k /\ google[k] \notin NoId}}

DueOf(r) ==
    /\ pc[r] = "idle" => due[r] = {} /\ page[r] = 0
    /\ pc[r] = "compare" => due[r] \subseteq items[r]
    /\ pc[r] = "insert" => \A i \in due[r] : i \in items[r] \/ Brought(i)
    /\ pc[r] = "page" => due[r] \subseteq Usable(items[r] \cup Ahead(r))
    /\ pc[r] = "store" => due[r] \subseteq Usable(items[r])

\* What is about to be inserted is none of the rows the comparison saw.
FreshOf(r) ==
    pc[r] = "insert" =>
        \A i \in items[r] : i.time # NoTime =>
            ~\E y \in since[r] : y.body = i.body /\ y.time.at = i.time.at

DueInv == \A r \in Reqs : DueOf(r) /\ FreshOf(r)

ImportInv == TypeInv /\ DueInv

\* Whatever insertDeduped is given is in the CMS afterwards.
LEMMA InsertBrings ==
    ASSUME ContentAssumption, NEW is \in SUBSET ReviewItem, InsertRows(is), NEW i \in is
    PROVE  Brought(i)'
<1>1. PICK now \in Present :
        \E S \in Inserted({RowOf(k, now) : k \in is}) : reviews' = reviews \cup S
  BY DEF InsertRows
<1>2. PICK new, S : /\ new = {x \in {RowOf(k, now) : k \in is} : x.key \notin Keys(reviews)}
                    /\ Keys(S) = Keys(new) /\ reviews' = reviews \cup S
  BY <1>1 DEF Inserted
<1>3. CASE RowOf(i, now).key \in Keys(reviews)
  <2>1. PICK x \in reviews : x.key = RowOf(i, now).key
    BY <1>3 DEF Keys
  <2>2. QED
    BY <1>2, <2>1 DEF Brought
<1>4. CASE RowOf(i, now).key \notin Keys(reviews)
  <2>1. RowOf(i, now) \in new
    BY <1>2, <1>4
  <2>2. RowOf(i, now).key \in Keys(S)
    <3>1. RowOf(i, now).key \in Keys(new)
      BY <2>1 DEF Keys
    <3>2. QED
      BY <1>2, <3>1
  <2>3. PICK x \in S : x.key = RowOf(i, now).key
    BY <2>2 DEF Keys
  <2>4. QED
    BY <1>2, <2>3 DEF Brought
<1>5. QED
  BY <1>3, <1>4

\* What is in the CMS under a key or by its content stays so when rows come in.
LEMMA StaysBrought ==
    ASSUME NEW i, Brought(i), reviews \subseteq reviews'
    PROVE  Brought(i)'
<1>1. PICK x \in reviews :
        \/ \E now \in Present : x.key = RowOf(i, now).key
        \/ x.body = i.body /\ (i.time = NoTime \/ x.time.at = i.time.at)
  BY DEF Brought
<1>2. x \in reviews'
  OBVIOUS
<1>3. QED
  BY <1>1, <1>2 DEF Brought

\* The filter of importReviewsFromRepo: what it leaves out is in the CMS by its
\* content, and what it keeps differs from every row.
LEMMA Compared ==
    ASSUME NEW i \in ReviewItem, NEW now \in Present
    PROVE  /\ ContentOf(i.body, Normalized(i.time, now)) \in Contents => Brought(i)
           /\ i.time # NoTime
                /\ ContentOf(i.body, Normalized(i.time, now)) \notin Contents =>
                ~\E y \in reviews : y.body = i.body /\ y.time.at = i.time.at
<1>1. i.time # NoTime => Normalized(i.time, now) = i.time
  BY DEF Normalized
<1>2. ASSUME NEW x \in reviews, NEW t
      PROVE  ContentOf(i.body, t) = ContentOf(x.body, x.time)
               <=> i.body = x.body /\ t.at = x.time.at
  BY DEF ContentOf
<1>3. QED
  BY <1>1, <1>2 DEF Contents, Brought

LEMMA InitImport ==
    ASSUME ContentAssumption, Init
    PROVE  ImportInv
BY InitContentType DEF Init, ImportInv, DueInv, DueOf, FreshOf

\* A request that does not move, whoever writes meanwhile.
LEMMA Others ==
    ASSUME TypeInv, NEW s \in Reqs, DueOf(s), FreshOf(s),
           pc'[s] = pc[s], items'[s] = items[s], page'[s] = page[s],
           \/ reviews \subseteq reviews' /\ due'[s] = due[s] /\ since'[s] = since[s]
           \/ TakenOut,
           \/ google' = google
           \/ \E g \in GoogleIds : google' = <<g>> \o google
    PROVE  DueOf(s)' /\ FreshOf(s)'
<1>1. google \in Seq(GoogleIds) /\ page[s] \in Nat
  BY DEF TypeInv, TypeOK
<1>2. Ahead(s) \subseteq Ahead(s)'
  <2>1. CASE google' = google
    BY <2>1 DEF Ahead
  <2>2. ASSUME NEW g \in GoogleIds, google' = <<g>> \o google
        PROVE  Ahead(s) \subseteq Ahead(s)'
    <3>1. SUFFICES ASSUME NEW n \in DOMAIN google, page[s] < n, google[n] \notin NoId
                   PROVE  GoogleItem("gbp", google[n]) \in Ahead(s)'
      BY DEF Ahead
    <3>2. /\ n + 1 \in DOMAIN google' /\ google'[n + 1] = google[n] /\ page'[s] < n + 1
      BY <1>1, <2>2, <3>1
    <3>3. QED
      BY <3>1, <3>2 DEF Ahead, GoogleItem
  <2>3. QED
    BY <2>1, <2>2
<1>3. /\ due'[s] \subseteq due[s] /\ since'[s] \subseteq since[s]
      /\ \A i \in due'[s] : Brought(i) => Brought(i)'
  <2>1. CASE reviews \subseteq reviews' /\ due'[s] = due[s] /\ since'[s] = since[s]
    BY <2>1, StaysBrought
  <2>2. CASE TakenOut
    BY <2>2 DEF TakenOut
  <2>3. QED
    BY <2>1, <2>2
<1>4. FreshOf(s)'
  BY <1>3 DEF FreshOf
<1>5. pc'[s] = "insert" => \A i \in due'[s] : i \in items'[s] \/ Brought(i)'
  BY <1>3 DEF DueOf
<1>6. /\ pc'[s] = "page" => due'[s] \subseteq Usable(items'[s] \cup Ahead(s)')
      /\ pc'[s] = "store" => due'[s] \subseteq Usable(items'[s])
  BY <1>2, <1>3 DEF DueOf, Usable
<1>7. QED
  BY <1>3, <1>4, <1>5, <1>6 DEF DueOf, Usable

\* r moves, and takes nothing out.
LEMMA Moves ==
    ASSUME ImportInv, NEW r \in Reqs, NEW from, NEW to, NEW is, Go(r, from, to, is),
           \A s \in Reqs \ {r} : /\ due'[s] = due[s] /\ page'[s] = page[s]
                                 /\ since'[s] = since[s],
           reviews \subseteq reviews', google' = google, DueOf(r)', FreshOf(r)'
    PROVE  DueInv'
<1>1. \A s \in Reqs \ {r} : pc'[s] = pc[s] /\ items'[s] = items[s]
  BY DEF ImportInv, TypeInv, TypeOK, Go
<1>2. \A s \in Reqs \ {r} : DueOf(s)' /\ FreshOf(s)'
  BY <1>1, Others DEF ImportInv, DueInv
<1>3. QED
  BY <1>2 DEF DueInv

\* r returns.
LEMMA Returns ==
    ASSUME ImportInv, NEW r \in Reqs, NEW from, End(r, from),
           reviews \subseteq reviews', google' = google
    PROVE  DueInv'
<1>1. Go(r, from, "idle", {})
  BY DEF End
<1>2. /\ \A s \in Reqs \ {r} : /\ due'[s] = due[s] /\ page'[s] = page[s]
                               /\ since'[s] = since[s]
      /\ due'[r] = {} /\ page'[r] = 0
  BY DEF End, ImportInv, TypeInv, TypeOK
<1>3. pc'[r] = "idle"
  BY <1>1 DEF Go, ImportInv, TypeInv, TypeOK
<1>4. DueOf(r)' /\ FreshOf(r)'
  BY <1>2, <1>3 DEF DueOf, FreshOf
<1>5. QED
  BY <1>1, <1>2, <1>4, Moves

\* A page: what was ahead is among the items now, or still ahead.
LEMMA PageImport ==
    ASSUME ContentAssumption, ImportInv, NEW r \in Reqs, RefreshPage(r)
    PROVE  DueInv'
<1>1. PICK next, got, to :
        /\ next = page[r] + PageSize
        /\ got = {GoogleItem("gbp", google[n]) :
                     n \in {k \in DOMAIN google :
                              page[r] < k /\ k <= next /\ google[k] \notin NoId}}
        /\ to = IF LastPage(next) THEN "store" ELSE "page"
        /\ Go(r, "page", to, items[r] \cup got)
        /\ page' = [page EXCEPT ![r] = next]
  BY DEF RefreshPage
<1>2. UNCHANGED <<reviews, google, due, since>>
  BY DEF RefreshPage, historyVars
<1>3. /\ google \in Seq(GoogleIds) /\ page[r] \in Nat /\ next \in Nat
      /\ page \in [Reqs -> Nat]
  BY <1>1 DEF ImportInv, TypeInv, TypeOK, ContentAssumption
<1>4. /\ pc[r] = "page" /\ pc'[r] = to /\ items'[r] = items[r] \cup got
      /\ page'[r] = next
  BY <1>1, <1>3 DEF Go, ImportInv, TypeInv, TypeOK
<1>5. Ahead(r) \subseteq got \cup Ahead(r)'
  <2>1. SUFFICES ASSUME NEW n \in DOMAIN google, page[r] < n, google[n] \notin NoId
                 PROVE  GoogleItem("gbp", google[n]) \in got \cup Ahead(r)'
    BY DEF Ahead
  <2>2. CASE n <= next
    BY <1>1, <2>1, <2>2
  <2>3. CASE next < n
    BY <1>2, <1>4, <2>1, <2>3 DEF Ahead, GoogleItem
  <2>4. QED
    BY <1>3, <2>2, <2>3
<1>6. LastPage(next) => Ahead(r)' = {}
  BY <1>2, <1>3, <1>4 DEF LastPage, Ahead
<1>7. due'[r] \subseteq Usable(items'[r] \cup Ahead(r)')
  <2>1. due[r] \subseteq Usable(items[r] \cup Ahead(r))
    BY <1>4 DEF ImportInv, DueInv, DueOf
  <2>2. QED
    BY <1>2, <1>4, <1>5, <2>1 DEF Usable
<1>8. to = "store" => due'[r] \subseteq Usable(items'[r])
  BY <1>1, <1>6, <1>7 DEF Usable
<1>9. DueOf(r)' /\ FreshOf(r)'
  <2>1. pc'[r] \in {"page", "store"} /\ (pc'[r] = "store" => to = "store")
    BY <1>1, <1>4
  <2>2. QED
    BY <1>7, <1>8, <2>1 DEF DueOf, FreshOf, Usable
<1>10. \A s \in Reqs \ {r} : due'[s] = due[s] /\ page'[s] = page[s] /\ since'[s] = since[s]
  BY <1>1, <1>2, <1>3
<1>11. QED
  BY <1>1, <1>2, <1>9, <1>10, Moves

\* The comparison: the import goes on with what is new, and the rest is there.
LEMMA CompareImport ==
    ASSUME ContentAssumption, ImportInv, NEW r \in Reqs, RepoCompare(r)
    PROVE  DueInv'
<1>1. pc[r] = "compare" /\ UNCHANGED <<reviews, google>>
  BY DEF RepoCompare
<1>2. PICK now, fresh :
        /\ now \in Present
        /\ fresh = {i \in items[r] : ContentOf(i.body, Normalized(i.time, now)) \notin Contents}
        /\ \/ End(r, "compare")
           \/ Go(r, "compare", "insert", fresh) /\ UNCHANGED <<page, due, since>>
  BY DEF RepoCompare, historyVars
<1>3. CASE End(r, "compare")
  BY <1>1, <1>3, Returns
<1>4. CASE Go(r, "compare", "insert", fresh) /\ UNCHANGED <<page, due, since>>
  <2>1. /\ items[r] \subseteq ReviewItem /\ due[r] \subseteq items[r]
        /\ since[r] \subseteq reviews
    BY <1>1 DEF ImportInv, TypeInv, TypeOK, RatedItem, DueInv, DueOf
  <2>2. pc'[r] = "insert" /\ items'[r] = fresh
    BY <1>4 DEF Go, ImportInv, TypeInv, TypeOK
  <2>3. \A i \in due'[r] : i \in fresh \/ Brought(i)'
    <3>1. \A i \in items[r] : i \in fresh \/ Brought(i)
      BY <1>2, <2>1, Compared
    <3>2. QED
      BY <1>1, <1>4, <2>1, <3>1, StaysBrought
  <2>4. \A i \in fresh : i.time # NoTime =>
          ~\E y \in since'[r] : y.body = i.body /\ y.time.at = i.time.at
    <3>1. \A i \in fresh : i.time # NoTime =>
            ~\E y \in reviews : y.body = i.body /\ y.time.at = i.time.at
      BY <1>2, <2>1, Compared
    <3>2. QED
      BY <1>4, <2>1, <3>1
  <2>5. DueOf(r)' /\ FreshOf(r)'
    BY <2>2, <2>3, <2>4 DEF DueOf, FreshOf
  <2>6. QED
    BY <1>1, <1>4, <2>5, Moves
<1>5. QED
  BY <1>2, <1>3, <1>4

LEMMA NextImport ==
    ASSUME ContentAssumption, ImportInv, [Next]_vars
    PROVE  ImportInv'
<1>1. TypeInv'
  BY NextContentType DEF ImportInv
<1>2. DueInv'
  <2>1. ASSUME UNCHANGED requestVars,
               \/ reviews \subseteq reviews' /\ UNCHANGED historyVars
               \/ TakenOut,
               \/ google' = google
               \/ \E g \in GoogleIds : google' = <<g>> \o google
        PROVE  DueInv'
    BY <2>1, Others DEF ImportInv, DueInv, requestVars, historyVars
  <2>2. CASE BulkImport
    <3>1. PICK is \in SUBSET PostedItems : InsertRows(is)
      BY <2>2 DEF BulkImport
    <3>2. reviews \subseteq reviews'
      BY <3>1 DEF InsertRows
    <3>3. QED
      BY <2>1, <2>2, <3>2 DEF BulkImport
  <2>3. CASE CreateReview \/ UpdateReview \/ DeleteReview
    BY <2>1, <2>3 DEF CreateReview, UpdateReview, DeleteReview
  <2>4. CASE CreateJob \/ UpdateJob \/ DeleteJob \/ Post \/ Publish
    BY <2>1, <2>4 DEF CreateJob, UpdateJob, DeleteJob, Post, Publish
  <2>5. CASE UNCHANGED vars
    BY <2>1, <2>5 DEF vars, requestVars, historyVars
  <2>6. ASSUME NEW r \in Reqs, RepoRead(r) PROVE DueInv'
    <3>1. PICK parsed : /\ Go(r, "idle", "compare", parsed)
                        /\ due' = [due EXCEPT ![r] = parsed]
                        /\ since' = [since EXCEPT ![r] = reviews]
                        /\ UNCHANGED <<reviews, google, page>>
      BY <2>6 DEF RepoRead
    <3>2. pc'[r] = "compare" /\ items'[r] = parsed /\ due'[r] = parsed
      BY <3>1 DEF Go, ImportInv, TypeInv, TypeOK
    <3>3. DueOf(r)' /\ FreshOf(r)'
      BY <3>2 DEF DueOf, FreshOf
    <3>4. \A s \in Reqs \ {r} :
            due'[s] = due[s] /\ page'[s] = page[s] /\ since'[s] = since[s]
      BY <3>1 DEF ImportInv, TypeInv, TypeOK
    <3>5. QED
      BY <3>1, <3>3, <3>4, Moves
  <2>7. ASSUME NEW r \in Reqs, RepoCompare(r) PROVE DueInv'
    BY <2>7, CompareImport
  <2>8. ASSUME NEW r \in Reqs, RepoInsert(r) \/ RefreshStore(r) PROVE DueInv'
    <3>1. PICK is : InsertRows(is) /\ google' = google
      BY <2>8 DEF RepoInsert, RefreshStore
    <3>2. reviews \subseteq reviews'
      BY <3>1 DEF InsertRows
    <3>3. QED
      BY <2>8, <3>1, <3>2, Returns DEF RepoInsert, RefreshStore
  <2>9. ASSUME NEW r \in Reqs, JobsRead(r) PROVE DueInv'
    <3>1. /\ \E is : Go(r, "idle", "jobs", is)
          /\ UNCHANGED <<reviews, google, page, due, since>>
      BY <2>9 DEF JobsRead, historyVars
    <3>2. pc'[r] = "jobs"
      BY <3>1 DEF Go, ImportInv, TypeInv, TypeOK
    <3>3. DueOf(r)' /\ FreshOf(r)'
      BY <3>2 DEF DueOf, FreshOf
    <3>4. QED
      BY <3>1, <3>3, Moves
  <2>10. ASSUME NEW r \in Reqs, JobsInsert(r) \/ RefreshFails(r) PROVE DueInv'
    BY <2>10, Returns DEF JobsInsert, RefreshFails
  <2>11. ASSUME NEW r \in Reqs, RefreshStart(r) PROVE DueInv'
    <3>1. /\ Go(r, "idle", "page", {}) /\ UNCHANGED <<reviews, google, page, since>>
          /\ due' = [due EXCEPT ![r] =
                        Usable({GoogleItem("gbp", google[n]) : n \in DOMAIN google})]
      BY <2>11 DEF RefreshStart
    <3>0. /\ pc[r] = "idle" /\ pc'[r] = "page" /\ page'[r] = 0
      <4>1. /\ pc \in [Reqs -> {"idle", "page", "compare", "insert", "store", "jobs"}]
            /\ DueOf(r)
        BY DEF ImportInv, DueInv, TypeInv, TypeOK
      <4>2. pc[r] = "idle" /\ pc'[r] = "page"
        BY <3>1, <4>1 DEF Go
      <4>3. QED
        BY <3>1, <4>1, <4>2 DEF DueOf
    <3>2. /\ pc[r] = "idle" /\ pc'[r] = "page" /\ page'[r] = 0
          /\ due'[r] = Usable({GoogleItem("gbp", google[n]) : n \in DOMAIN google})
      BY <3>0, <3>1 DEF ImportInv, TypeInv
    <3>3. \A n \in DOMAIN google : 0 < n
      BY DEF ImportInv, TypeInv, TypeOK
    <3>4. ASSUME NEW i \in due'[r] PROVE i \in Usable(Ahead(r)')
      <4>1. PICK n \in DOMAIN google : i = GoogleItem("gbp", google[n])
        BY <3>2 DEF Usable
      <4>2. Stars[i.body] >= 1 /\ i.ext # NoExt
        BY <3>2 DEF Usable
      <4>3. google[n] \notin NoId
        BY <4>1, <4>2 DEF GoogleItem
      <4>4. i \in Ahead(r)'
        BY <3>1, <3>2, <3>3, <4>1, <4>3 DEF Ahead, GoogleItem
      <4>5. QED
        BY <4>2, <4>4 DEF Usable
    <3>5. DueOf(r)' /\ FreshOf(r)'
      BY <3>2, <3>4 DEF DueOf, FreshOf, Usable
    <3>6. \A s \in Reqs \ {r} :
            due'[s] = due[s] /\ page'[s] = page[s] /\ since'[s] = since[s]
      BY <3>1 DEF ImportInv, TypeInv
    <3>7. QED
      BY <3>1, <3>5, <3>6, Moves
  <2>12. ASSUME NEW r \in Reqs, RefreshPage(r) PROVE DueInv'
    BY <2>12, PageImport
  <2>13. ASSUME NEW r \in Reqs, RefreshPlaces(r) PROVE DueInv'
    <3>1. PICK is : /\ Go(r, "idle", "store", is) /\ due' = [due EXCEPT ![r] = Usable(is)]
                    /\ UNCHANGED <<reviews, google, page, since>>
      BY <2>13 DEF RefreshPlaces
    <3>2. pc'[r] = "store" /\ items'[r] = is /\ due'[r] = Usable(is)
      BY <3>1 DEF Go, ImportInv, TypeInv, TypeOK
    <3>3. DueOf(r)' /\ FreshOf(r)'
      BY <3>2 DEF DueOf, FreshOf, Usable
    <3>4. \A s \in Reqs \ {r} :
            due'[s] = due[s] /\ page'[s] = page[s] /\ since'[s] = since[s]
      BY <3>1 DEF ImportInv, TypeInv
    <3>5. QED
      BY <3>1, <3>3, <3>4, Moves
  <2>14. QED
    BY <2>2, <2>3, <2>4, <2>5, <2>6, <2>7, <2>8, <2>9, <2>10, <2>11, <2>12, <2>13
       DEF Next, RepoImport, Refresh, Reqs
<1>3. QED
  BY <1>1, <1>2 DEF ImportInv

LEMMA NextBrings ==
    ASSUME ContentAssumption, ImportInv, [Next]_vars
    PROVE  [BringsAllStep]_vars
<1>1. SUFFICES ASSUME Next, NEW r \in Reqs, Done(r),
                      pc[r] \in {"compare", "insert", "store"}, NEW i \in due[r]
               PROVE  Brought(i)'
  BY DEF BringsAllStep, vars
<1>2. /\ items[r] \in SUBSET ReviewItem /\ reviews \in SUBSET Row /\ i \in ReviewItem
      /\ TypeInv /\ DueOf(r)
  BY <1>1 DEF ImportInv, DueInv, TypeInv, RatedItem
<1>3. CASE RepoCompare(r)
  <2>1. pc[r] = "compare" /\ reviews' = reviews /\ pc'[r] = "idle"
    BY <1>1, <1>3 DEF RepoCompare, Done
  <2>2. i \in items[r]
    BY <1>1, <1>2, <2>1 DEF DueOf
  <2>3. \A is : ~Go(r, "compare", "insert", is)
    BY <1>2, <2>1 DEF Go, TypeInv, TypeOK
  <2>4. PICK now \in Present :
          {k \in items[r] : ContentOf(k.body, Normalized(k.time, now)) \notin Contents} = {}
    BY <1>3, <2>3 DEF RepoCompare
  <2>5. ContentOf(i.body, Normalized(i.time, now)) \in Contents
    BY <2>2, <2>4
  <2>6. Brought(i)
    BY <1>2, <2>5, Compared
  <2>7. QED
    BY <2>1, <2>6, StaysBrought
<1>4. CASE RepoInsert(r)
  <2>1. InsertRows(items[r]) /\ pc[r] = "insert"
    BY <1>4 DEF RepoInsert, End, Go
  <2>2. reviews \subseteq reviews'
    BY <2>1 DEF InsertRows
  <2>3. i \in items[r] \/ Brought(i)
    BY <1>1, <1>2, <2>1 DEF DueOf
  <2>4. QED
    BY <1>2, <2>1, <2>2, <2>3, InsertBrings, StaysBrought
<1>5. CASE RefreshStore(r)
  <2>1. InsertRows(Usable(items[r])) /\ pc[r] = "store"
    BY <1>5 DEF RefreshStore, End, Go
  <2>2. i \in Usable(items[r]) /\ Usable(items[r]) \in SUBSET ReviewItem
    BY <1>1, <1>2, <2>1 DEF DueOf, Usable
  <2>3. QED
    BY <2>1, <2>2, InsertBrings
<1>6. CASE JobsInsert(r) \/ RefreshFails(r)
  BY <1>1, <1>6 DEF JobsInsert, RefreshFails, End, Go
<1>7. QED
  BY <1>1, <1>2, <1>3, <1>4, <1>5, <1>6, WhoEnds

\* "so the CMS becomes the superset": an import or a refresh that returns has
\* brought every review that was in the file or on Google when it began, except
\* what a user took out meanwhile, whatever else imported, refreshed, posted,
\* edited or deleted beside it.
THEOREM ImportsBring ==
    ASSUME ContentAssumption
    PROVE  Spec => BringsAll
<1>1. Init => ImportInv
  BY InitImport
<1>2. ImportInv /\ [Next]_vars => ImportInv'
  BY NextImport
<1>3. ImportInv /\ [Next]_vars => [BringsAllStep]_vars
  BY NextBrings
<1>4. QED
  BY <1>1, <1>2, <1>3, PTL DEF Spec, BringsAll

LEMMA NextDoublesNot ==
    ASSUME ContentAssumption, ImportInv, [Next]_vars
    PROVE  [NoDoublingStep]_vars
<1>1. SUFFICES ASSUME Next, NEW r \in Reqs, pc[r] = "insert", Done(r),
                      NEW x \in reviews' \ reviews, x.time.at \in Past,
                      NEW y \in since[r], y.body = x.body, y.time.at = x.time.at
               PROVE  FALSE
  BY DEF NoDoublingStep, Imported, vars
<1>2. RepoInsert(r)
  <2>1. TypeInv
    BY DEF ImportInv
  <2>2. \/ RepoCompare(r) \/ RepoInsert(r) \/ JobsInsert(r)
        \/ RefreshFails(r) \/ RefreshStore(r)
    BY <1>1, <2>1, WhoEnds
  <2>3. QED
    BY <1>1, <2>2 DEF RepoCompare, JobsInsert, RefreshFails, RefreshStore, End, Go
<1>3. PICK now \in Present :
        \E S \in Inserted({RowOf(i, now) : i \in items[r]}) : reviews' = reviews \cup S
  BY <1>2 DEF RepoInsert, InsertRows
<1>4. PICK i \in items[r] : x = RowOf(i, now)
  BY <1>1, <1>3 DEF Inserted
<1>5. x.body = i.body /\ x.time = Normalized(i.time, now)
  BY <1>4 DEF RowOf
<1>6. i.time # NoTime
  <2>1. SUFFICES ASSUME i.time = NoTime PROVE FALSE
    OBVIOUS
  <2>2. x.time.at = now
    BY <1>5, <2>1 DEF Normalized, Ms
  <2>3. QED
    BY <1>1, <2>2 DEF ContentAssumption
<1>7. y.body = i.body /\ y.time.at = i.time.at
  BY <1>1, <1>5, <1>6 DEF Normalized
<1>8. QED
  BY <1>1, <1>4, <1>6, <1>7 DEF ImportInv, DueInv, FreshOf

\* "an incoming item is dropped if an equivalent review ... already exists in the
\* CMS, regardless of how that row was keyed": a repository import inserts no dated
\* review again that has been there since it began, whatever its key, its unit and
\* its source, and whoever writes between the comparison and the insert.
THEOREM ImportsDoubleNothing ==
    ASSUME ContentAssumption
    PROVE  Spec => NoDoubling
<1>1. Init => ImportInv
  BY InitImport
<1>2. ImportInv /\ [Next]_vars => ImportInv'
  BY NextImport
<1>3. ImportInv /\ [Next]_vars => [NoDoublingStep]_vars
  BY NextDoublesNot
<1>4. QED
  BY <1>1, <1>2, <1>3, PTL DEF Spec, NoDoubling

=============================================================================
