-------------------------- MODULE OrgConfigProofs ---------------------------
(***************************************************************************)
(* Theorems about OrgConfig: type correctness however requests and         *)
(* dispatches overlap, and what is enough to keep apart for the column and *)
(* the indicator to be right.                                              *)
(***************************************************************************)
EXTENDS OrgConfig, TLAPS

-----------------------------------------------------------------------------
(* Types.                                                                  *)

LEMMA NoConfigType == NoConfig \in Config
BY DEF NoConfig, Config

LEMMA GotoType ==
    ASSUME TypeOK, NEW r \in Reqs, NEW p \in Steps, Goto(r, p)
    PROVE  /\ pc' \in [Reqs -> Steps] /\ kind' \in [Reqs -> Kinds]
           /\ copy' \in [Reqs -> Config] /\ at' \in [Reqs -> Nat]
BY NoConfigType DEF TypeOK, Goto, Kinds

LEMMA StartType ==
    ASSUME TypeOK, NEW r \in Reqs, NEW k \in Kinds, NEW p \in Steps, Start(r, k, p)
    PROVE  pc' \in [Reqs -> Steps] /\ kind' \in [Reqs -> Kinds]
BY DEF TypeOK, Start

LEMMA InitType ==
    ASSUME Init
    PROVE  TypeOK
BY NoConfigType DEF Init, TypeOK, Steps, Kinds

LEMMA ShipType ==
    ASSUME TypeOK, NEW s \in Ships, Ship(s)
    PROVE  TypeOK'
<1>1. CASE ShipClaim(s)
  BY <1>1 DEF ShipClaim, TypeOK, requestVars
<1>2. ASSUME NEW c \in Collections, ShipRead(s, c) PROVE TypeOK'
  <2>1. After(c) \in {"jobs", "commit"}
    BY DEF After
  <2>2. stage' \in [Ships -> {"idle", "reviews", "jobs", "commit"}]
    BY <1>2, <2>1 DEF ShipRead, TypeOK
  <2>3. seen' \in [Ships \X Collections -> Nat]
    BY <1>2 DEF ShipRead, TypeOK
  <2>4. QED
    BY <1>2, <2>2, <2>3 DEF ShipRead, TypeOK, requestVars, jobVars
<1>3. ASSUME ShipDone(s) \/ ShipFails(s) PROVE TypeOK'
  <2>1. ShipEnd(s) /\ queued' \in BOOLEAN /\ failed' \in BOOLEAN
    BY <1>3 DEF ShipDone, ShipFails, jobVars, TypeOK
  <2>2. shipped' \in [Collections -> Nat]
    BY <1>3 DEF ShipDone, ShipFails, Commit, TypeOK
  <2>3. seen' \in [Ships \X Collections -> Nat]
    BY <2>1 DEF ShipEnd, TypeOK
  <2>4. stage' \in [Ships -> {"idle", "reviews", "jobs", "commit"}]
    BY <2>1 DEF ShipEnd, TypeOK
  <2>5. QED
    BY <2>1, <2>2, <2>3, <2>4 DEF ShipEnd, TypeOK, requestVars
<1>4. QED
  BY <1>1, <1>2, <1>3 DEF Ship

LEMMA StepType ==
    ASSUME TypeOK, NEW r \in Reqs, Step(r)
    PROVE  TypeOK'
<1> USE DEF jobVars, workerVars, requestVars
<1>1. ASSUME NEW c \in Collections, NewRows(c)
      PROVE  content' \in [Collections -> Nat]
  BY <1>1 DEF NewRows, TypeOK
<1>2. CASE Change(r) \/ Ingest(r)
  <2>1. "change" \in Kinds /\ "ingest" \in Kinds /\ "mark" \in Steps /\ "touch" \in Steps
    BY DEF Kinds, Steps
  <2>2. pc' \in [Reqs -> Steps] /\ kind' \in [Reqs -> Kinds]
    BY <1>2, <2>1, StartType DEF Change, Ingest
  <2>3. content' \in [Collections -> Nat]
    BY <1>1, <1>2 DEF Change, Ingest, TypeOK, Collections
  <2>4. QED
    BY <1>2, <2>2, <2>3 DEF Change, Ingest, TypeOK
<1>3. CASE Enqueue(r) \/ FormOpen(r)
  <2>1. "publish" \in Kinds /\ "form" \in Kinds /\ "stamp" \in Steps /\ "formW" \in Steps
    BY DEF Kinds, Steps
  <2>2. pc' \in [Reqs -> Steps] /\ kind' \in [Reqs -> Kinds]
    BY <1>3, <2>1, StartType DEF Enqueue, FormOpen
  <2>3. QED
    BY <1>3, <2>2 DEF Enqueue, FormOpen, TypeOK
<1>4. CASE MarkRead(r) \/ StampRead(r)
  BY <1>4 DEF MarkRead, StampRead, PatchRead, TypeOK, Steps
<1>5. CASE TouchRead(r)
  BY <1>5 DEF TouchRead, TypeOK, Steps
<1>6. CASE MarkWrite(r) \/ StampWrite(r) \/ TouchWrite(r)
  <2>1. config' \in Config
    <3>1. copy[r] \in Config /\ at[r] \in Nat /\ now + 1 \in Nat
      BY DEF TypeOK
    <3>2. ASSUME NEW c \in Config, NEW t \in Nat
          PROVE  Marked(c, t) \in Config /\ Stamped(c, t) \in Config /\ Touched(c, t) \in Config
      BY DEF Marked, Stamped, Touched, Config
    <3>3. QED
      BY <1>6, <3>1, <3>2 DEF MarkWrite, StampWrite, TouchWrite
  <2>2. PICK p \in Steps : Goto(r, p)
    BY <1>6 DEF MarkWrite, StampWrite, TouchWrite, Steps
  <2>3. now' \in Nat
    BY <1>6 DEF MarkWrite, StampWrite, TouchWrite, TypeOK
  <2>4. UNCHANGED <<content, queued, failed, stage, seen, shipped>>
    BY <1>6 DEF MarkWrite, StampWrite, TouchWrite
  <2>5. QED
    BY <2>1, <2>2, <2>3, <2>4, GotoType DEF TypeOK
<1>7. CASE FormSave(r) \/ FormClose(r)
  <2>1. config' \in Config
    BY <1>7 DEF FormSave, FormClose, Config, TypeOK
  <2>2. Goto(r, "idle") /\ "idle" \in Steps
    BY <1>7 DEF FormSave, FormClose, Steps
  <2>3. UNCHANGED <<content, queued, failed, stage, seen, shipped, now>>
    BY <1>7 DEF FormSave, FormClose
  <2>4. QED
    BY <2>1, <2>2, <2>3, GotoType DEF TypeOK
<1>8. QED
  BY <1>2, <1>3, <1>4, <1>5, <1>6, <1>7 DEF Step

LEMMA NextType ==
    ASSUME TypeOK, [Next]_vars
    PROVE  TypeOK'
<1>1. CASE Retry
  BY <1>1 DEF Retry, TypeOK, workerVars, requestVars
<1>2. CASE UNCHANGED vars
  BY <1>2 DEF vars, TypeOK
<1>3. QED
  BY <1>1, <1>2, ShipType, StepType DEF Next

\* The column, the rows, the site and every request have their types in every
\* state, however requests and dispatches overlap (delivery.service.ts 11-35).
THEOREM OrgConfigTypeCorrect == Spec => []TypeOK
<1>1. Init => TypeOK
  BY InitType
<1>2. TypeOK /\ [Next]_vars => TypeOK'
  BY NextType
<1>3. QED
  BY <1>1, <1>2, PTL DEF Spec

-----------------------------------------------------------------------------
(* The column.  The code does not keep two of its writers apart, and it is *)
(* not right without that.  What has to be kept apart is the read and the  *)
(* write, however the requests overlap otherwise: what one has read is     *)
(* then still there when it writes.                                        *)

Writing == {"markW", "stampW", "touchW", "formW"}

\* Nobody is between the read and the write of the column while another is.
ReadWritesApart ==
    \A q, r \in Reqs : pc[q] \in Writing /\ pc[r] \in Writing => q = r

\* The copy is the column, and a stamp about to be written is the latest.
CopyCurrent ==
    /\ config.changedAt <= now /\ config.publishedAt <= now
    /\ \A r \in Reqs :
         /\ pc[r] \in Writing => copy[r] = config
         /\ pc[r] \in {"markW", "stampW"} =>
              /\ config.changedAt < at[r] /\ config.publishedAt < at[r]
              /\ at[r] <= now

SerialInv == TypeOK /\ CopyCurrent

LEMMA InitSerial ==
    ASSUME Init
    PROVE  SerialInv
<1>1. config.changedAt = 0 /\ config.publishedAt = 0 /\ now = 0
  BY DEF Init, NoConfig
<1>2. \A r \in Reqs : pc[r] = "idle"
  BY DEF Init
<1>3. CopyCurrent
  BY <1>1, <1>2 DEF CopyCurrent, Writing
<1>4. QED
  BY <1>3, InitType DEF SerialInv

LEMMA NextSerial ==
    ASSUME ReadWritesApart, SerialInv, [Next]_vars
    PROVE  SerialInv'
<1>1. TypeOK'
  BY NextType DEF SerialInv
<1> USE DEF jobVars, workerVars, requestVars
<1>2. ASSUME NEW r \in Reqs, Step(r) PROVE CopyCurrent'
  <2>1. pc[r] \in Writing => \A q \in Reqs \ {r} : pc[q] \notin Writing
    BY DEF ReadWritesApart
  <2>2. /\ config.changedAt \in Nat /\ config.publishedAt \in Nat /\ now \in Nat
        /\ copy[r] \in Config /\ at[r] \in Nat
    BY DEF SerialInv, TypeOK, Config
  <2>3. /\ config.changedAt <= now /\ config.publishedAt <= now
        /\ pc[r] \in Writing => copy[r] = config
        /\ pc[r] \in {"markW", "stampW"} => at[r] <= now
    BY DEF SerialInv, CopyCurrent
  \* It is enough to look at r while the column stays.
  <2>4. ASSUME config' = config, now <= now', now' \in Nat,
               \A q \in Reqs \ {r} : pc'[q] = pc[q] /\ copy'[q] = copy[q] /\ at'[q] = at[q],
               pc'[r] \in Writing => copy'[r] = config,
               pc'[r] \in {"markW", "stampW"} =>
                 /\ config.changedAt < at'[r] /\ config.publishedAt < at'[r]
                 /\ at'[r] <= now'
        PROVE  CopyCurrent'
    <3>1. config'.changedAt <= now' /\ config'.publishedAt <= now'
      BY <2>2, <2>3, <2>4
    <3>2. ASSUME NEW q \in Reqs \ {r}
          PROVE  /\ pc'[q] \in Writing => copy'[q] = config'
                 /\ pc'[q] \in {"markW", "stampW"} =>
                      /\ config'.changedAt < at'[q] /\ config'.publishedAt < at'[q]
                      /\ at'[q] <= now'
      <4>1. at[q] \in Nat
        BY DEF SerialInv, TypeOK
      <4>2. QED
        BY <2>2, <2>4, <4>1 DEF SerialInv, CopyCurrent
    <3>3. QED
      BY <2>4, <3>1, <3>2 DEF CopyCurrent
  <2>5. CASE Change(r) \/ Ingest(r) \/ Enqueue(r)
    <3>1. /\ config' = config /\ now' = now /\ copy' = copy /\ at' = at
          /\ \A q \in Reqs \ {r} : pc'[q] = pc[q]
          /\ pc'[r] \in {"mark", "touch", "stamp"}
      BY <2>5 DEF Change, Ingest, Enqueue, Start, SerialInv, TypeOK
    <3>2. QED
      BY <2>2, <2>4, <3>1 DEF Writing
  <2>6. CASE FormOpen(r)
    <3>1. /\ config' = config /\ now' = now /\ at' = at
          /\ \A q \in Reqs \ {r} : pc'[q] = pc[q] /\ copy'[q] = copy[q]
          /\ pc'[r] = "formW" /\ copy'[r] = config
      BY <2>6 DEF FormOpen, Start, SerialInv, TypeOK
    <3>2. QED
      BY <2>2, <2>4, <3>1
  <2>7. CASE MarkRead(r) \/ StampRead(r)
    <3>1. /\ now' = now + 1 /\ config' = config
          /\ copy'[r] = config /\ at'[r] = now + 1
          /\ \A q \in Reqs \ {r} : pc'[q] = pc[q] /\ copy'[q] = copy[q] /\ at'[q] = at[q]
      BY <2>7 DEF MarkRead, StampRead, PatchRead, SerialInv, TypeOK
    <3>2. QED
      BY <2>2, <2>3, <2>4, <3>1
  <2>8. CASE TouchRead(r)
    <3>1. /\ config' = config /\ now' = now /\ at' = at
          /\ \A q \in Reqs \ {r} : pc'[q] = pc[q] /\ copy'[q] = copy[q]
          /\ pc'[r] = "touchW" /\ copy'[r] = config
      BY <2>8 DEF TouchRead, SerialInv, TypeOK
    <3>2. QED
      BY <2>2, <2>4, <3>1
  <2>9. ASSUME NEW p, p \notin Writing, Goto(r, p), pc[r] \in Writing,
               config'.changedAt <= now', config'.publishedAt <= now'
        PROVE  CopyCurrent'
    <3>1. \A q \in Reqs : pc'[q] \notin Writing
      BY <2>1, <2>9 DEF Goto, SerialInv, TypeOK
    <3>2. QED
      BY <2>9, <3>1 DEF CopyCurrent, Writing
  <2>10. "idle" \notin Writing /\ "touch" \notin Writing
    BY DEF Writing
  <2>11. CASE MarkWrite(r) \/ StampWrite(r)
    <3>1. /\ config' = Marked(config, at[r]) \/ config' = Stamped(config, at[r])
          /\ now' = now /\ at[r] <= now /\ pc[r] \in Writing
      BY <2>3, <2>11 DEF MarkWrite, StampWrite, Writing
    <3>2. config'.changedAt <= now /\ config'.publishedAt <= now
      BY <2>2, <2>3, <3>1 DEF Marked, Stamped, SerialInv, TypeOK, Config
    <3>3. Goto(r, "idle") \/ Goto(r, "touch")
      BY <2>11 DEF MarkWrite, StampWrite
    <3>4. QED
      BY <2>9, <2>10, <3>1, <3>2, <3>3
  <2>12. CASE TouchWrite(r)
    <3>1. /\ config' = Touched(config, now + 1) /\ now' = now + 1 /\ Goto(r, "idle")
          /\ pc[r] \in Writing
      BY <2>3, <2>12 DEF TouchWrite, Writing
    <3>2. config'.changedAt <= now' /\ config'.publishedAt <= now'
      BY <2>2, <2>3, <3>1 DEF Touched, SerialInv, TypeOK, Config
    <3>3. QED
      BY <2>9, <2>10, <3>1, <3>2
  <2>13. CASE FormSave(r)
    <3>1. /\ config' = [config EXCEPT !.settings = @ + 1]
          /\ now' = now /\ Goto(r, "idle") /\ pc[r] \in Writing
      BY <2>3, <2>13 DEF FormSave, Writing
    <3>2. config'.changedAt <= now' /\ config'.publishedAt <= now'
      BY <2>2, <2>3, <3>1 DEF SerialInv, TypeOK, Config
    <3>3. QED
      BY <2>9, <2>10, <3>1, <3>2
  <2>14. CASE FormClose(r)
    <3>1. config' = config /\ now' = now /\ Goto(r, "idle") /\ pc[r] \in Writing
      BY <2>14 DEF FormClose, Writing
    <3>2. QED
      BY <2>3, <2>9, <2>10, <3>1
  <2>15. QED
    BY <1>2, <2>5, <2>6, <2>7, <2>8, <2>11, <2>12, <2>13, <2>14 DEF Step
<1>3. ASSUME NEW s \in Ships, Ship(s) PROVE CopyCurrent'
  <2>1. UNCHANGED <<config, now, pc, copy, at>>
    BY <1>3 DEF Ship, ShipClaim, ShipRead, ShipDone, ShipFails, ShipEnd
  <2>2. QED
    BY <2>1 DEF SerialInv, CopyCurrent
<1>4. ASSUME Retry \/ UNCHANGED vars PROVE CopyCurrent'
  <2>1. UNCHANGED <<config, now, pc, copy, at>>
    BY <1>4 DEF Retry, vars
  <2>2. QED
    BY <2>1 DEF SerialInv, CopyCurrent
<1>5. CopyCurrent'
  BY <1>2, <1>3, <1>4 DEF Next
<1>6. QED
  BY <1>1, <1>5 DEF SerialInv

-----------------------------------------------------------------------------
(* The indicator needs more to be kept apart: a publish, from its row to   *)
(* its stamp, from every other request, or it hides the change that one    *)
(* makes; and the dispatches from each other, or the older one may commit  *)
(* last.                                                                   *)

PublishesApart ==
    \A q, r \in Reqs : pc[q] \in {"stamp", "stampW"} /\ pc[r] # "idle" => q = r

DispatchesApart ==
    \A s, t \in Ships : stage[s] # "idle" /\ stage[t] # "idle" => s = t

AllApart == ReadWritesApart /\ PublishesApart /\ DispatchesApart

\* What dispatch s has read is what is there.
OnItsWay(s) ==
    \/ stage[s] = "reviews"
    \/ stage[s] = "jobs" /\ seen[<<s, "reviews">>] = content["reviews"]
    \/ stage[s] = "commit" /\ \A c \in Collections : seen[<<s, c>>] = content[c]

\* The site has the rows, or will get them, or someone is told to retry.
Covered ==
    \/ queued
    \/ failed
    \/ \E s \in Ships : OnItsWay(s)
    \/ (\A s \in Ships : stage[s] = "idle") /\ shipped = content

\* Rows that are not covered are shown as changed, or are about to be; a
\* publish stamps while they are covered.
ChangesShown ==
    /\ \/ Covered
       \/ config.publishedAt < config.changedAt
       \/ \E r \in Reqs : pc[r] \in {"mark", "markW"}
    /\ \A r \in Reqs : pc[r] \in {"stamp", "stampW"} => Covered

IndicatorInv == SerialInv /\ ChangesShown

LEMMA InitIndicator ==
    ASSUME Init
    PROVE  IndicatorInv
<1>1. Covered
  BY DEF Init, Covered
<1>2. QED
  BY <1>1, InitSerial DEF IndicatorInv, ChangesShown

\* The steps of the worker do not uncover anything.
LEMMA ShipCovers ==
    ASSUME DispatchesApart, TypeOK, NEW s \in Ships, Ship(s), Covered
    PROVE  Covered'
<1>1. stage[s] # "idle" => \A t \in Ships \ {s} : stage[t] = "idle"
  BY DEF DispatchesApart
<1>2. content' = content
  BY DEF Ship, ShipClaim, ShipRead, ShipDone, ShipFails, ShipEnd
<1>3. CASE ShipClaim(s)
  <2>1. stage'[s] = "reviews"
    BY <1>3 DEF ShipClaim, TypeOK
  <2>2. OnItsWay(s)'
    BY <2>1 DEF OnItsWay
  <2>3. QED
    BY <2>2 DEF Covered
<1>4. ASSUME NEW c \in Collections, ShipRead(s, c) PROVE Covered'
  <2>1. /\ stage[s] = c /\ stage'[s] = After(c) /\ UNCHANGED <<queued, failed>>
        /\ seen'[<<s, c>>] = content[c]
        /\ \A d \in Collections \ {c} : seen'[<<s, d>>] = seen[<<s, d>>]
    BY <1>4 DEF ShipRead, TypeOK, jobVars
  <2>2. CASE queued \/ failed
    BY <2>1, <2>2 DEF Covered
  <2>3. CASE ~queued /\ ~failed
    <3>1. OnItsWay(s)
      BY <1>1, <2>1, <2>3 DEF Covered, OnItsWay, Collections
    <3>2. OnItsWay(s)'
      BY <1>2, <2>1, <3>1 DEF OnItsWay, After, Collections
    <3>3. QED
      BY <3>2 DEF Covered
  <2>4. QED
    BY <2>2, <2>3
<1>5. CASE ShipDone(s)
  <2>1. /\ stage[s] = "commit" /\ stage'[s] = "idle" /\ UNCHANGED <<queued, failed>>
        /\ shipped' = [c \in Collections |-> seen[<<s, c>>]]
    BY <1>5 DEF ShipDone, Commit, ShipEnd, TypeOK, jobVars
  <2>2. CASE queued \/ failed
    BY <2>1, <2>2 DEF Covered
  <2>3. CASE ~queued /\ ~failed
    <3>1. OnItsWay(s)
      BY <1>1, <2>1, <2>3 DEF Covered, OnItsWay
    <3>2. \A c \in Collections : seen[<<s, c>>] = content[c]
      BY <2>1, <3>1 DEF OnItsWay
    <3>3. shipped' = content'
      BY <1>2, <2>1, <3>2 DEF TypeOK
    <3>4. \A t \in Ships : stage'[t] = "idle"
      BY <1>1, <1>5, <2>1 DEF ShipDone, ShipEnd, TypeOK
    <3>5. QED
      BY <3>3, <3>4 DEF Covered
  <2>4. QED
    BY <2>2, <2>3
<1>6. CASE ShipFails(s)
  BY <1>6 DEF ShipFails, Covered
<1>7. QED
  BY <1>3, <1>4, <1>5, <1>6 DEF Ship

LEMMA NextIndicator ==
    ASSUME AllApart, AllApart', IndicatorInv, [Next]_vars
    PROVE  IndicatorInv'
<1>1. SerialInv'
  BY NextSerial DEF AllApart, IndicatorInv
<1>2. TypeOK /\ CopyCurrent
  BY DEF IndicatorInv, SerialInv
<1> USE DEF jobVars, workerVars, requestVars
<1>3. ASSUME NEW s \in Ships, Ship(s) PROVE ChangesShown'
  <2>1. config' = config /\ pc' = pc
    BY <1>3 DEF Ship, ShipClaim, ShipRead, ShipDone, ShipFails, ShipEnd
  <2>2. Covered => Covered'
    BY <1>2, <1>3, ShipCovers DEF AllApart
  <2>3. QED
    BY <2>1, <2>2 DEF IndicatorInv, ChangesShown
<1>4. ASSUME Retry PROVE ChangesShown'
  <2>1. Covered'
    BY <1>4 DEF Retry, Covered
  <2>2. config' = config /\ pc' = pc
    BY <1>4 DEF Retry
  <2>3. QED
    BY <2>1, <2>2 DEF ChangesShown
<1>5. ASSUME NEW r \in Reqs, Step(r) PROVE ChangesShown'
  <2>1. \A q \in Reqs \ {r} : pc'[q] = pc[q]
    BY <1>2, <1>5 DEF Step, Change, Ingest, Enqueue, FormOpen, Start, Goto, MarkRead,
       StampRead, PatchRead, TouchRead, MarkWrite, StampWrite, TouchWrite, FormSave,
       FormClose, TypeOK
  <2>2. UNCHANGED <<queued, failed, stage, seen, shipped, content>> => Covered' = Covered
    BY DEF Covered, OnItsWay
  <2>3. CASE Change(r) \/ Ingest(r)
    <3>1. CASE pc'[r] = "mark"
      BY <3>1 DEF ChangesShown, AllApart, PublishesApart
    <3>2. CASE pc'[r] # "mark"
      <4>1. /\ Start(r, "ingest", "touch")
            /\ UNCHANGED <<config, queued, failed, stage, seen, shipped, content>>
        BY <1>2, <2>3, <3>2 DEF Change, Ingest, Start, TypeOK
      <4>2. pc[r] = "idle" /\ pc'[r] = "touch"
        BY <1>2, <4>1 DEF Start, TypeOK
      <4>3. QED
        BY <2>1, <2>2, <4>1, <4>2 DEF IndicatorInv, ChangesShown
    <3>3. QED
      BY <3>1, <3>2
  <2>4. CASE Enqueue(r)
    <3>1. Covered'
      BY <2>4 DEF Enqueue, Covered
    <3>2. QED
      BY <3>1 DEF ChangesShown
  <2>5. CASE FormOpen(r) \/ TouchRead(r) \/ MarkRead(r) \/ StampRead(r) \/ FormClose(r)
    <3>1. UNCHANGED <<config, queued, failed, stage, seen, shipped, content>>
      BY <2>5 DEF FormOpen, TouchRead, MarkRead, StampRead, PatchRead, FormClose
    <3>2. /\ pc[r] \in {"mark", "markW"} <=> pc'[r] \in {"mark", "markW"}
          /\ pc[r] \in {"stamp", "stampW"} <=> pc'[r] \in {"stamp", "stampW"}
      BY <1>2, <2>5 DEF FormOpen, TouchRead, MarkRead, StampRead, PatchRead, FormClose, Start,
         Goto, TypeOK
    <3>3. QED
      BY <2>1, <2>2, <3>1, <3>2 DEF IndicatorInv, ChangesShown
  <2>6. CASE MarkWrite(r)
    <3>1. /\ config' = [config EXCEPT !.changedAt = at[r]]
          /\ config.publishedAt < at[r] /\ pc'[r] \in {"idle", "touch"}
      BY <1>2, <2>6 DEF MarkWrite, Marked, Goto, CopyCurrent, Writing, TypeOK
    <3>2. config'.publishedAt < config'.changedAt
      BY <1>2, <3>1 DEF TypeOK, Config
    <3>3. \A q \in Reqs : pc'[q] \notin {"stamp", "stampW"}
      BY <2>1, <2>6, <3>1 DEF MarkWrite, AllApart, PublishesApart
    <3>4. QED
      BY <3>2, <3>3 DEF ChangesShown
  <2>7. CASE StampWrite(r)
    <3>1. /\ pc[r] = "stampW"
          /\ UNCHANGED <<queued, failed, stage, seen, shipped, content>>
      BY <2>7 DEF StampWrite
    <3>2. Covered
      BY <3>1 DEF IndicatorInv, ChangesShown
    <3>3. QED
      BY <2>2, <3>1, <3>2 DEF ChangesShown
  <2>8. CASE TouchWrite(r) \/ FormSave(r)
    <3>1. /\ pc[r] \in {"touchW", "formW"} /\ pc'[r] = "idle"
          /\ UNCHANGED <<queued, failed, stage, seen, shipped, content>>
      BY <1>2, <2>8 DEF TouchWrite, FormSave, Goto, TypeOK
    <3>2. config'.changedAt = config.changedAt /\ config'.publishedAt = config.publishedAt
      <4>1. copy[r] = config
        BY <1>2, <3>1 DEF CopyCurrent, Writing
      <4>2. QED
        BY <1>2, <2>8, <4>1 DEF TouchWrite, FormSave, Touched, TypeOK, Config
    <3>3. QED
      BY <2>1, <2>2, <3>1, <3>2 DEF IndicatorInv, ChangesShown
  <2>9. QED
    BY <1>5, <2>3, <2>4, <2>5, <2>6, <2>7, <2>8 DEF Step
<1>6. ASSUME UNCHANGED vars PROVE ChangesShown'
  <2>1. Covered' = Covered /\ UNCHANGED <<config, pc>>
    BY <1>6 DEF vars, Covered, OnItsWay
  <2>2. QED
    BY <2>1 DEF IndicatorInv, ChangesShown
<1>7. ChangesShown'
  BY <1>3, <1>4, <1>5, <1>6 DEF Next
<1>8. QED
  BY <1>1, <1>7 DEF IndicatorInv

\* "The dashboard compares lastContentChangeAt vs lastPublishedAt"
\* (delivery.service.ts 26-27): while requests and dispatches keep apart as
\* above, failing or not, no unpublished change is hidden, for any number of
\* requests, changes, publishes, dispatches and retries.
THEOREM IndicatorTrusted == Spec /\ []AllApart => []IndicatorHonest
<1>1. Init => IndicatorInv
  BY InitIndicator
<1>2. AllApart /\ AllApart' /\ IndicatorInv /\ [Next]_vars => IndicatorInv'
  BY NextIndicator
<1>3. IndicatorInv => IndicatorHonest
  <2>1. SUFFICES ASSUME IndicatorInv, Quiet, NoChangeShown PROVE shipped = content
    BY DEF IndicatorHonest
  <2>2. ~(config.publishedAt < config.changedAt)
    BY <2>1 DEF NoChangeShown, IndicatorInv, SerialInv, TypeOK, Config
  <2>3. Covered
    BY <2>1, <2>2 DEF Quiet, IndicatorInv, ChangesShown
  <2>4. QED
    BY <2>1, <2>3 DEF Quiet, Covered, OnItsWay
<1>4. QED
  BY <1>1, <1>2, <1>3, PTL DEF Spec

=============================================================================
