--------------------------- MODULE AccountsProofs ---------------------------
(***************************************************************************)
(* Theorems about Accounts for any number of users, organizations and      *)
(* requests, and any bodies that the schemas accept.                       *)
(***************************************************************************)
EXTENDS Accounts, TLAPS

-----------------------------------------------------------------------------
(* Type correctness, for requests that overlap in any way.                 *)

LEMMA IdleReqType ==
    ASSUME AccountsAssumption
    PROVE  IdleReq \in ReqRec
BY DEF AccountsAssumption, IdleReq, ReqRec

LEMMA InitType ==
    ASSUME AccountsAssumption, Init
    PROVE  TypeOK
BY IdleReqType DEF Init, TypeOK, Roles

\* Reading a user gives a request of the right type.
LEMMA UpdateReadType ==
    ASSUME AccountsAssumption, TypeOK, NEW r \in Reqs, NEW u \in Users,
           NEW body \in Patches, UpdateRead(r, u, body)
    PROVE  req'[r] \in ReqRec
<1>1. body.role \in Roles \cup {Keep} /\ body.org \in Orgs \cup {NoOrg, Keep}
  BY DEF AccountsAssumption
<1>2. EffectiveOrg(u, body) \in Orgs \cup {NoOrg}
  BY <1>1 DEF EffectiveOrg, TypeOK
<1>3. Guarded(u, EffectiveRole(u, body)) \in BOOLEAN
  BY DEF Guarded
<1>4. QED
  BY <1>1, <1>2, <1>3 DEF UpdateRead, ReqRec, TypeOK

LEMMA NextType ==
    ASSUME AccountsAssumption, TypeOK, [Next]_vars
    PROVE  TypeOK'
<1>1. ASSUME NEW u \in Users, SignIn(u) \/ Expire(u) PROVE TypeOK'
  BY <1>1 DEF SignIn, Expire, TypeOK, history
<1>2. ASSUME NEW u \in Users, NEW body \in NewUsers, CreateUser(u, body)
      PROVE  TypeOK'
  <2>1. body.role \in Roles /\ body.org \in Orgs \cup {NoOrg}
    BY DEF AccountsAssumption
  <2>2. QED
    BY <1>2, <2>1 DEF CreateUser, TypeOK, history
<1>3. ASSUME NEW r \in Reqs, NEW u \in Users, NEW body \in Patches,
             UpdateRead(r, u, body)
      PROVE  TypeOK'
  <2>1. req'[r] \in ReqRec
    BY <1>3, UpdateReadType
  <2>2. req' \in [Reqs -> ReqRec] /\ req'[r].pc = "update"
        /\ \A q \in Reqs : q # r => req'[q] = req[q]
    BY <1>3, <2>1 DEF UpdateRead, TypeOK
  <2>3. QED
    BY <1>3, <2>2 DEF UpdateRead, TypeOK, history
<1>4. ASSUME NEW r \in Reqs, NEW u \in Users, DeleteRead(r, u) PROVE TypeOK'
  <2>1. req' \in [Reqs -> ReqRec] /\ req'[r].pc = "delete"
        /\ \A q \in Reqs : q # r => req'[q] = req[q]
    BY <1>4 DEF DeleteRead, TypeOK, ReqRec, IsSuper
  <2>2. QED
    BY <1>4, <2>1 DEF DeleteRead, TypeOK, history
<1>5. ASSUME NEW r \in Reqs, UpdateCommit(r) PROVE TypeOK'
  <2>1. /\ role' \in [Users -> Roles \cup {"none", "gone"}]
        /\ org' \in [Users -> Orgs \cup {NoOrg}]
    BY <1>5 DEF UpdateCommit, TypeOK, ReqRec, Written
  <2>2. req' \in [Reqs -> ReqRec] /\ \A q \in Reqs : q # r => req'[q] = req[q]
    BY <1>5, IdleReqType DEF UpdateCommit, TypeOK
  <2>3. stale' \subseteq {q \in Reqs : req'[q].pc # "idle"}
    <3>1. stale' \subseteq (stale \cup ReadersOf(req[r].user)) \ {r}
      BY <1>5 DEF UpdateCommit
    <3>2. QED
      BY <2>2, <3>1 DEF TypeOK, ReadersOf
  <2>4. strayed' \subseteq Users
    BY <1>5 DEF UpdateCommit, TypeOK, ReqRec
  <2>5. QED
    BY <1>5, <2>1, <2>2, <2>3, <2>4 DEF UpdateCommit, TypeOK
<1>6. ASSUME NEW r \in Reqs, DeleteCommit(r) PROVE TypeOK'
  <2>1. req' \in [Reqs -> ReqRec] /\ \A q \in Reqs : q # r => req'[q] = req[q]
    BY <1>6, IdleReqType DEF DeleteCommit, TypeOK
  <2>2. stale' \subseteq {q \in Reqs : req'[q].pc # "idle"}
    BY <1>6, <2>1 DEF DeleteCommit, TypeOK
  <2>3. QED
    BY <1>6, <2>1, <2>2 DEF DeleteCommit, TypeOK
<1>7. ASSUME NEW o \in Orgs, CreateOrg(o) \/ DeleteOrgCheck(o) \/ DeleteOrg(o)
      PROVE  TypeOK'
  BY <1>7 DEF CreateOrg, DeleteOrgCheck, DeleteOrg, TypeOK, history, ReadersOf, Cleared
<1>8. CASE UNCHANGED vars
  BY <1>8 DEF vars, history, TypeOK
<1>9. QED
  BY <1>1, <1>2, <1>3, <1>4, <1>5, <1>6, <1>7, <1>8 DEF Next

\* Every user, organization and request has its type in every state, however
\* requests overlap (user.service.ts, organization.service.ts).
THEOREM AccountsTypeCorrect ==
    ASSUME AccountsAssumption
    PROVE  Spec => []TypeOK
<1>1. Init => TypeOK
  BY InitType
<1>2. TypeOK /\ [Next]_vars => TypeOK'
  BY NextType
<1>3. QED
  BY <1>1, <1>2, PTL DEF Spec

-----------------------------------------------------------------------------
(* What requests of any kind leave as it was.                              *)

\* No row is made under the id of a request's user.
UserWas(d) == d.pc # "idle" => role[d.user] # "none"

\* A commit writes into one row or none, and its request ends.
LEMMA CommitOthers ==
    ASSUME AccountsAssumption, TypeOK, NEW r \in Reqs,
           UpdateCommit(r) \/ DeleteCommit(r)
    PROVE  /\ \A q \in Reqs : q # r => req'[q] = req[q]
           /\ req'[r] = IdleReq /\ req[r].pc # "idle" /\ req[r].user \in Users
           /\ \A v \in Users : v # req[r].user => role'[v] = role[v] /\ org'[v] = org[v]
BY DEF UpdateCommit, DeleteCommit, TypeOK, ReqRec

\* An update that fails leaves its row alone; one that succeeds writes what the
\* request carries, marks the requests that have read the row, and is itself
\* what strayed says of the row.
LEMMA UpdateCommitRow ==
    ASSUME AccountsAssumption, TypeOK, NEW r \in Reqs, UpdateCommit(r),
           NEW u \in Users, u = req[r].user
    PROVE  \/ /\ role'[u] = role[u] /\ org'[u] = org[u]
              /\ stale' = stale \ {r} /\ strayed' = strayed
           \/ /\ Exists(u) /\ Exists(u)'
              /\ role'[u] = Written(req[r].setRole, role[u])
              /\ org'[u] = Written(req[r].setOrg, org[u])
              /\ req[r].guarded => OtherSuper(u)
              /\ stale' = (stale \cup ReadersOf(u)) \ {r}
              /\ strayed' = IF r \in stale THEN strayed \cup {u} ELSE strayed \ {u}
<1>1. CASE UNCHANGED <<role, org, strayed>> /\ stale' = stale \ {r}
  BY <1>1
<1>2. ASSUME Exists(u),
             role' = [role EXCEPT ![u] = Written(req[r].setRole, @)],
             org' = [org EXCEPT ![u] = Written(req[r].setOrg, @)]
      PROVE  /\ Exists(u)'
             /\ role'[u] = Written(req[r].setRole, role[u])
             /\ org'[u] = Written(req[r].setOrg, org[u])
  <2>1. role'[u] = Written(req[r].setRole, role[u])
        /\ org'[u] = Written(req[r].setOrg, org[u])
    BY <1>2 DEF TypeOK
  <2>2. req[r].setRole \in Roles \cup {Keep}
    BY DEF TypeOK, ReqRec
  <2>3. QED
    BY <1>2, <2>1, <2>2 DEF Exists, Written
<1>3. QED
  BY <1>1, <1>2 DEF UpdateCommit

\* A deleted row is gone, and with it its organization.
LEMMA DeleteCommitRow ==
    ASSUME AccountsAssumption, TypeOK, NEW r \in Reqs, DeleteCommit(r),
           NEW u \in Users, u = req[r].user
    PROVE  /\ \/ role'[u] = role[u] /\ org'[u] = org[u]
              \/ /\ role'[u] = "gone" /\ ~Exists(u)' /\ ~IsSuper(u)'
                 /\ req[r].guarded => OtherSuper(u)
           /\ stale' = stale \ {r} /\ strayed' = strayed
BY DEF DeleteCommit, TypeOK, Exists, IsSuper, Roles

LEMMA NextUserWas ==
    ASSUME AccountsAssumption, TypeOK, [Next]_vars,
           \A r \in Reqs : UserWas(req[r])
    PROVE  \A r \in Reqs : UserWas(req[r])'
<1> USE DEF UserWas
<1>1. ASSUME NEW u \in Users, SignIn(u) \/ Expire(u)
      PROVE  \A r \in Reqs : UserWas(req[r])'
  BY <1>1 DEF SignIn, Expire
<1>2. ASSUME NEW u \in Users, NEW body \in NewUsers, CreateUser(u, body)
      PROVE  \A r \in Reqs : UserWas(req[r])'
  BY <1>2 DEF CreateUser, TypeOK, ReqRec
<1>3. ASSUME NEW r \in Reqs, NEW u \in Users, NEW body \in Patches,
             UpdateRead(r, u, body)
      PROVE  \A q \in Reqs : UserWas(req[q])'
  BY <1>3 DEF UpdateRead, TypeOK, Exists, Roles
<1>4. ASSUME NEW r \in Reqs, NEW u \in Users, DeleteRead(r, u)
      PROVE  \A q \in Reqs : UserWas(req[q])'
  BY <1>4 DEF DeleteRead, TypeOK, Exists, Roles
<1>5. ASSUME NEW r \in Reqs, UpdateCommit(r) \/ DeleteCommit(r)
      PROVE  \A q \in Reqs : UserWas(req[q])'
  <2>1. PICK u \in Users : u = req[r].user
    BY <1>5, CommitOthers
  <2>2. role[u] # "none" => role'[u] # "none"
    BY <1>5, <2>1, UpdateCommitRow, DeleteCommitRow DEF Exists, Roles
  <2>3. /\ \A q \in Reqs : q # r => req'[q] = req[q] /\ req[q].user \in Users
        /\ req'[r].pc = "idle"
        /\ \A v \in Users : v # u => role'[v] = role[v]
    BY <1>5, <2>1, CommitOthers DEF IdleReq, TypeOK, ReqRec
  <2>4. QED
    BY <2>2, <2>3
<1>6. ASSUME NEW o \in Orgs, CreateOrg(o) \/ DeleteOrgCheck(o) \/ DeleteOrg(o)
      PROVE  \A r \in Reqs : UserWas(req[r])'
  BY <1>6 DEF CreateOrg, DeleteOrgCheck, DeleteOrg
<1>7. CASE UNCHANGED vars
  BY <1>7 DEF vars
<1>8. QED
  BY <1>1, <1>2, <1>3, <1>4, <1>5, <1>6, <1>7 DEF Next

-----------------------------------------------------------------------------
(* The last super admin, whatever overlaps.  A commit writes what was      *)
(* decided on an earlier read, and so was the guard: as long as nobody has *)
(* written the row since, no unguarded request takes a super admin away.   *)

\* If d would take a super admin away then the guard applies to it.
KeepsSuper(d) ==
    /\ d.pc = "update" /\ d.setRole = "ADMIN" /\ ~d.guarded => ~IsSuper(d.user)
    /\ d.pc = "delete" /\ ~d.guarded => ~IsSuper(d.user)

SuperInv ==
    /\ TypeOK
    /\ \A r \in Reqs : UserWas(req[r])
    /\ \A r \in Reqs \ stale : KeepsSuper(req[r])

LEMMA InitSuper ==
    ASSUME AccountsAssumption, Init
    PROVE  SuperInv
<1>1. TypeOK
  BY InitType
<1>2. \A r \in Reqs : KeepsSuper(req[r]) /\ UserWas(req[r])
  BY DEF Init, IdleReq, KeepsSuper, UserWas
<1>3. QED
  BY <1>1, <1>2 DEF SuperInv

\* The read of an update or a delete decides on the guard for what it has read.
LEMMA ReadSuper ==
    ASSUME AccountsAssumption, SuperInv, NEW r \in Reqs, NEW u \in Users,
           (\E body \in Patches : UpdateRead(r, u, body)) \/ DeleteRead(r, u)
    PROVE  \A q \in Reqs \ stale' : KeepsSuper(req[q])'
<1>1. /\ \A q \in Reqs : q # r => req'[q] = req[q]
      /\ UNCHANGED <<role, stale>>
  BY DEF UpdateRead, DeleteRead, history, SuperInv, TypeOK
<1>2. KeepsSuper(req[r])'
  <2>1. ASSUME NEW body \in Patches, UpdateRead(r, u, body)
        PROVE  KeepsSuper(req[r])'
    <3>1. /\ req'[r].pc = "update" /\ req'[r].user = u /\ req'[r].setRole = body.role
          /\ req'[r].guarded <=> Guarded(u, EffectiveRole(u, body))
      BY <2>1 DEF UpdateRead, SuperInv, TypeOK
    <3>2. body.role = "ADMIN" => EffectiveRole(u, body) = "ADMIN"
      BY DEF EffectiveRole, AccountsAssumption, Roles
    <3>3. QED
      BY <1>1, <3>1, <3>2 DEF KeepsSuper, Guarded, IsSuper
  <2>2. ASSUME DeleteRead(r, u)
        PROVE  KeepsSuper(req[r])'
    <3>1. /\ req'[r].pc = "delete" /\ req'[r].user = u
          /\ req'[r].guarded <=> IsSuper(u)
      BY <2>2 DEF DeleteRead, SuperInv, TypeOK
    <3>2. QED
      BY <1>1, <3>1 DEF KeepsSuper, IsSuper
  <2>3. QED
    BY <2>1, <2>2
<1>3. QED
  BY <1>1, <1>2 DEF SuperInv, KeepsSuper, IsSuper

\* A commit that was not overtaken makes less of a super admin only if another
\* one is left.
LEMMA CommitUser ==
    ASSUME AccountsAssumption, SuperInv, NEW r \in Reqs \ stale,
           UpdateCommit(r) \/ DeleteCommit(r), NEW u \in Users, u = req[r].user
    PROVE  IsSuper(u) /\ ~IsSuper(u)' => OtherSuper(u)
<1> USE DEF SuperInv
<1>1. KeepsSuper(req[r]) /\ req[r] \in ReqRec
  BY DEF TypeOK
<1>2. CASE UpdateCommit(r)
  <2>1. CASE role'[u] = role[u]
    BY <2>1 DEF IsSuper
  <2>2. CASE /\ role'[u] = Written(req[r].setRole, role[u])
             /\ req[r].guarded => OtherSuper(u)
    BY <1>1, <1>2, <2>2 DEF UpdateCommit, KeepsSuper, Written, IsSuper, ReqRec, Roles
  <2>3. QED
    BY <1>2, <2>1, <2>2, UpdateCommitRow
<1>3. CASE DeleteCommit(r)
  BY <1>1, <1>3, DeleteCommitRow DEF DeleteCommit, KeepsSuper, IsSuper
<1>4. QED
  BY <1>2, <1>3

\* A commit that changes a row overtakes the requests that have read it, unless
\* it deletes the row.
LEMMA CommitSuper ==
    ASSUME AccountsAssumption, SuperInv, NEW r \in Reqs,
           UpdateCommit(r) \/ DeleteCommit(r)
    PROVE  \A q \in Reqs \ stale' : KeepsSuper(req[q])'
<1> USE DEF SuperInv
<1>1. PICK u \in Users : u = req[r].user
  BY CommitOthers
<1>2. /\ \A q \in Reqs : q # r => req'[q] = req[q] /\ req[q].user \in Users
      /\ req'[r].pc = "idle"
      /\ \A v \in Users : v # u => role'[v] = role[v]
  BY <1>1, CommitOthers DEF IdleReq, TypeOK, ReqRec
<1>3. ASSUME NEW q \in Reqs \ stale', req'[q].pc # "idle" PROVE KeepsSuper(req[q])'
  <2>1. q # r /\ req'[q] = req[q] /\ req[q].user \in Users
    BY <1>2, <1>3
  <2>2. CASE \/ role'[u] = role[u] \/ ~IsSuper(u)'
             /\ stale' = stale \ {r}
    <3>1. q \notin stale
      BY <1>3, <2>1, <2>2
    <3>2. IsSuper(req[q].user)' => IsSuper(req[q].user)
      BY <1>2, <2>1, <2>2 DEF IsSuper
    <3>3. QED
      BY <2>1, <3>1, <3>2 DEF KeepsSuper, IsSuper
  <2>3. CASE stale' = (stale \cup ReadersOf(u)) \ {r}
    <3>1. q \notin stale /\ req[q].user # u
      BY <1>3, <2>1, <2>3 DEF ReadersOf
    <3>2. QED
      BY <1>2, <2>1, <3>1 DEF KeepsSuper, IsSuper
  <2>4. QED
    BY <1>1, <2>2, <2>3, UpdateCommitRow, DeleteCommitRow
<1>4. QED
  BY <1>3 DEF KeepsSuper

LEMMA NextSuper ==
    ASSUME AccountsAssumption, SuperInv, [Next]_vars
    PROVE  SuperInv'
<1> DEFINE Goal == \A r \in Reqs \ stale : KeepsSuper(req[r])
<1> SUFFICES Goal'
  <2>1. TypeOK' /\ \A r \in Reqs : UserWas(req[r])'
    BY NextType, NextUserWas DEF SuperInv
  <2>2. QED
    BY <2>1 DEF SuperInv
<1>1. ASSUME NEW u \in Users, NEW body \in NewUsers, CreateUser(u, body) PROVE Goal'
  <2>1. /\ UNCHANGED <<req, stale>> /\ role[u] = "none"
        /\ \A v \in Users : v # u => role'[v] = role[v]
    BY <1>1 DEF CreateUser, SuperInv, TypeOK, history
  <2>2. \A r \in Reqs : req[r].pc # "idle" => req[r].user \in Users /\ req[r].user # u
    BY <2>1 DEF SuperInv, TypeOK, ReqRec, UserWas
  <2>3. QED
    BY <2>1, <2>2 DEF SuperInv, KeepsSuper, IsSuper
<1>2. ASSUME NEW r \in Reqs, NEW u \in Users, NEW body \in Patches, UpdateRead(r, u, body)
      PROVE  Goal'
  BY <1>2, ReadSuper
<1>3. ASSUME NEW r \in Reqs, NEW u \in Users, DeleteRead(r, u) PROVE Goal'
  BY <1>3, ReadSuper
<1>4. ASSUME NEW r \in Reqs, UpdateCommit(r) \/ DeleteCommit(r) PROVE Goal'
  BY <1>4, CommitSuper
<1>5. ASSUME NEW u \in Users, SignIn(u) \/ Expire(u) PROVE Goal'
  BY <1>5 DEF SignIn, Expire, history, SuperInv, KeepsSuper, IsSuper
<1>6. ASSUME NEW o \in Orgs, CreateOrg(o) \/ DeleteOrgCheck(o) \/ DeleteOrg(o) PROVE Goal'
  BY <1>6 DEF CreateOrg, DeleteOrgCheck, DeleteOrg, history, SuperInv, KeepsSuper, IsSuper
<1>7. ASSUME UNCHANGED vars PROVE Goal'
  BY <1>7 DEF vars, history, SuperInv, KeepsSuper, IsSuper
<1>8. QED
  BY <1>1, <1>2, <1>3, <1>4, <1>5, <1>6, <1>7 DEF Next

\* Only a commit takes a super admin away.
LEMMA StepLoss ==
    ASSUME AccountsAssumption, SuperInv, [Next]_vars
    PROVE  LossOvertakenStep
<1> SUFFICES ASSUME SuperAdminRemains, ~SuperAdminRemains'
             PROVE  \E r \in stale : req'[r].pc = "idle"
  BY DEF LossOvertakenStep
<1>1. PICK v \in Users : IsSuper(v) /\ ~IsSuper(v)'
  BY DEF SuperAdminRemains, IsSuper
<1>2. PICK r \in Reqs : UpdateCommit(r) \/ DeleteCommit(r)
  BY <1>1 DEF Next, SignIn, Expire, CreateUser, UpdateRead, DeleteRead, CreateOrg,
              DeleteOrgCheck, DeleteOrg, vars, IsSuper, SuperInv, TypeOK
<1>3. /\ req'[r].pc = "idle" /\ req[r].user \in Users
      /\ \A u \in Users : u # req[r].user => role'[u] = role[u]
  BY <1>2, CommitOthers DEF SuperInv, IdleReq
<1>4. v = req[r].user
  BY <1>1, <1>3 DEF IsSuper
<1>5. ~OtherSuper(v)
  BY <1>3, <1>4 DEF OtherSuper, SuperAdminRemains, IsSuper
<1>6. r \in stale
  BY <1>1, <1>2, <1>4, <1>5, CommitUser
<1>7. QED
  BY <1>3, <1>6

\* However demotions, deletions, promotions and creations of users overlap, only
\* a request whose user was written after it read it takes the last super admin
\* away: the guards in the transactions of updateUser and deleteUser keep apart
\* all others.
THEOREM LossOnlyOvertaken ==
    ASSUME AccountsAssumption
    PROVE  Spec => LossOvertaken
<1>1. Init => SuperInv
  BY InitSuper
<1>2. SuperInv /\ [Next]_vars => SuperInv'
  BY NextSuper
<1>3. SuperInv /\ [Next]_vars => LossOvertakenStep
  BY StepLoss
<1>4. QED
  BY <1>1, <1>2, <1>3, PTL DEF Spec, LossOvertaken

-----------------------------------------------------------------------------
(* Role and organization, whatever overlaps.  An update reconciles the two *)
(* against the row it read: as long as nobody has written that row since,  *)
(* what it carries makes a pair of the row, even of one that was none.     *)

\* What request d writes makes role and organization of its user a pair.
MakesPair(d) ==
    d.pc = "update" /\ Exists(d.user) =>
        (Written(d.setRole, role[d.user]) = "SUPER_ADMIN"
            <=> Written(d.setOrg, org[d.user]) = NoOrg)

PairInv ==
    /\ TypeOK
    /\ PairUnlessOvertaken
    /\ \A r \in Reqs : UserWas(req[r])
    /\ \A r \in Reqs \ stale : MakesPair(req[r])

LEMMA InitPair ==
    ASSUME AccountsAssumption, Init
    PROVE  PairInv
<1>1. TypeOK
  BY InitType
<1>2. PairUnlessOvertaken
  BY DEF Init, PairUnlessOvertaken, Exists, IsSuper, Roles
<1>3. \A r \in Reqs : UserWas(req[r]) /\ MakesPair(req[r])
  BY DEF Init, IdleReq, UserWas, MakesPair
<1>4. QED
  BY <1>1, <1>2, <1>3 DEF PairInv

\* The reconciliation of updateUser.
LEMMA UpdateReadPair ==
    ASSUME AccountsAssumption, PairInv, NEW r \in Reqs, NEW u \in Users,
           NEW body \in Patches, UpdateRead(r, u, body)
    PROVE  MakesPair(req[r])'
<1> DEFINE newRole == EffectiveRole(u, body)
           newOrg == EffectiveOrg(u, body)
<1>1. /\ req'[r].user = u /\ req'[r].setRole = body.role
      /\ req'[r].setOrg = IF newOrg = org[u] THEN Keep ELSE newOrg
      /\ newRole # "SUPER_ADMIN" => newOrg # NoOrg
      /\ UNCHANGED <<role, org>>
  BY DEF UpdateRead, PairInv, TypeOK
<1>2. /\ newRole = "SUPER_ADMIN" => newOrg = NoOrg
      /\ newOrg \in Orgs \cup {NoOrg}
  BY DEF EffectiveOrg, PairInv, TypeOK, AccountsAssumption
<1>3. Written(req'[r].setRole, role[u]) = newRole
  BY <1>1 DEF Written, EffectiveRole
<1>4. Written(req'[r].setOrg, org[u]) = newOrg
  BY <1>1, <1>2 DEF Written, AccountsAssumption
<1>5. QED
  BY <1>1, <1>2, <1>3, <1>4 DEF MakesPair, Written

\* The other requests of an update or a delete that ends are as they were, or
\* stale if it wrote the row that they have read.
LEMMA CommitPair ==
    ASSUME AccountsAssumption, PairInv, NEW r \in Reqs,
           UpdateCommit(r) \/ DeleteCommit(r)
    PROVE  PairUnlessOvertaken' /\ \A q \in Reqs \ stale' : MakesPair(req[q])'
<1> USE DEF PairInv
<1>1. PICK u \in Users : u = req[r].user
  BY CommitOthers
<1>2. /\ \A q \in Reqs : q # r => req'[q] = req[q] /\ req[q].user \in Users
      /\ req'[r].pc = "idle"
      /\ \A v \in Users : v # u => role'[v] = role[v] /\ org'[v] = org[v]
  BY <1>1, CommitOthers DEF IdleReq, TypeOK, ReqRec
<1>3. CASE /\ role'[u] = role[u] /\ org'[u] = org[u]
           /\ stale' = stale \ {r} /\ strayed' = strayed
  BY <1>2, <1>3 DEF PairUnlessOvertaken, MakesPair, Exists, IsSuper
<1>4. CASE /\ role'[u] = "gone" /\ ~Exists(u)'
           /\ stale' = stale \ {r} /\ strayed' = strayed
  BY <1>2, <1>4 DEF PairUnlessOvertaken, MakesPair, Exists, IsSuper
<1>5. CASE /\ UpdateCommit(r) /\ Exists(u) /\ Exists(u)'
           /\ role'[u] = Written(req[r].setRole, role[u])
           /\ org'[u] = Written(req[r].setOrg, org[u])
           /\ stale' = (stale \cup ReadersOf(u)) \ {r}
           /\ strayed' = IF r \in stale THEN strayed \cup {u} ELSE strayed \ {u}
  <2>1. r \notin stale => (IsSuper(u)' <=> org'[u] = NoOrg)
    BY <1>1, <1>5 DEF UpdateCommit, MakesPair, IsSuper
  <2>2. PairUnlessOvertaken'
    BY <1>2, <1>5, <2>1 DEF PairUnlessOvertaken, Exists, IsSuper
  <2>3. ASSUME NEW q \in Reqs \ stale' PROVE MakesPair(req[q])'
    <3>1. CASE q = r
      BY <1>2, <3>1 DEF MakesPair
    <3>2. CASE q # r /\ req[q].pc # "idle"
      <4>1. q \notin stale /\ req[q].user # u
        BY <1>5, <2>3, <3>2 DEF ReadersOf
      <4>2. QED
        BY <1>2, <2>3, <3>2, <4>1 DEF MakesPair, Exists
    <3>3. CASE q # r /\ req[q].pc = "idle"
      BY <1>2, <3>3 DEF MakesPair
    <3>4. QED
      BY <3>1, <3>2, <3>3
  <2>4. QED
    BY <2>2, <2>3
<1>6. QED
  BY <1>1, <1>3, <1>4, <1>5, UpdateCommitRow, DeleteCommitRow

\* A new user is a pair; the delete of an organization says whom it made none.
LEMMA NextPair ==
    ASSUME AccountsAssumption, PairInv, [Next]_vars
    PROVE  PairInv'
<1> DEFINE Goal == PairUnlessOvertaken /\ \A r \in Reqs \ stale : MakesPair(req[r])
<1> SUFFICES Goal'
  <2>1. TypeOK' /\ \A r \in Reqs : UserWas(req[r])'
    BY NextType, NextUserWas DEF PairInv
  <2>2. QED
    BY <2>1 DEF PairInv
<1>1. ASSUME NEW u \in Users, NEW body \in NewUsers, CreateUser(u, body) PROVE Goal'
  <2>1. /\ UNCHANGED <<req, stale, strayed>> /\ role[u] = "none"
        /\ \A v \in Users : v # u => role'[v] = role[v] /\ org'[v] = org[v]
        /\ role'[u] = "SUPER_ADMIN" <=> org'[u] = NoOrg
    BY <1>1 DEF CreateUser, PairInv, TypeOK, history
  <2>2. \A r \in Reqs : req[r].pc # "idle" => req[r].user \in Users /\ req[r].user # u
    BY <2>1 DEF PairInv, TypeOK, ReqRec, UserWas
  <2>3. QED
    BY <2>1, <2>2 DEF PairInv, PairUnlessOvertaken, MakesPair, Exists, IsSuper
<1>2. ASSUME NEW r \in Reqs, NEW u \in Users, NEW body \in Patches, UpdateRead(r, u, body)
      PROVE  Goal'
  <2>1. /\ UNCHANGED <<role, org, stale, strayed>>
        /\ \A q \in Reqs : q # r => req'[q] = req[q]
    BY <1>2 DEF UpdateRead, history, PairInv, TypeOK
  <2>2. MakesPair(req[r])'
    BY <1>2, UpdateReadPair
  <2>3. QED
    BY <2>1, <2>2 DEF PairInv, PairUnlessOvertaken, MakesPair, Exists, IsSuper
<1>3. ASSUME NEW r \in Reqs, NEW u \in Users, DeleteRead(r, u) PROVE Goal'
  <2>1. /\ UNCHANGED <<role, org, stale, strayed>>
        /\ \A q \in Reqs : q # r => req'[q] = req[q]
        /\ req'[r].pc = "delete"
    BY <1>3 DEF DeleteRead, history, PairInv, TypeOK
  <2>2. QED
    BY <2>1 DEF PairInv, PairUnlessOvertaken, MakesPair, Exists, IsSuper
<1>4. ASSUME NEW r \in Reqs, UpdateCommit(r) \/ DeleteCommit(r) PROVE Goal'
  BY <1>4, CommitPair
<1>5. ASSUME NEW o \in Orgs, CreateOrg(o) \/ DeleteOrgCheck(o) PROVE Goal'
  BY <1>5 DEF CreateOrg, DeleteOrgCheck, history, PairInv, PairUnlessOvertaken,
              MakesPair, Exists, IsSuper
<1>6. ASSUME NEW o \in Orgs, DeleteOrg(o) PROVE Goal'
  <2>1. /\ UNCHANGED <<role, req>>
        /\ \A u \in Users : org[u] # o => org'[u] = org[u]
        /\ stale' = stale \cup UNION {ReadersOf(u) : u \in Cleared(o)}
        /\ strayed' = strayed \cup Cleared(o)
    BY <1>6 DEF DeleteOrg, PairInv, TypeOK
  <2>2. PairUnlessOvertaken'
    BY <2>1 DEF PairInv, PairUnlessOvertaken, Cleared, Exists, IsSuper
  <2>3. ASSUME NEW r \in Reqs \ stale' PROVE MakesPair(req[r])'
    <3>1. r \notin stale /\ (req[r].pc # "idle" => org[req[r].user] # o)
          /\ req[r].user \in Users
      BY <2>1, <2>3 DEF ReadersOf, Cleared, PairInv, TypeOK, ReqRec
    <3>2. QED
      BY <2>1, <2>3, <3>1 DEF PairInv, MakesPair, Exists
  <2>4. QED
    BY <2>2, <2>3
<1>7. ASSUME NEW u \in Users, SignIn(u) \/ Expire(u) PROVE Goal'
  BY <1>7 DEF SignIn, Expire, history, PairInv, PairUnlessOvertaken, MakesPair, Exists, IsSuper
<1>8. ASSUME UNCHANGED vars PROVE Goal'
  BY <1>8 DEF vars, history, PairInv, PairUnlessOvertaken, MakesPair, Exists, IsSuper
<1>9. QED
  BY <1>1, <1>2, <1>3, <1>4, <1>5, <1>6, <1>7, <1>8 DEF Next

\* Whatever requests, promotions and deletes of organizations overlap: a super
\* admin has no organization and everybody else has one, except users whose last
\* writer decided on a row written meanwhile, or whose organization was deleted
\* (user.service.ts 122-133, organization.service.ts 59).
THEOREM PairKept ==
    ASSUME AccountsAssumption
    PROVE  Spec => []PairUnlessOvertaken
<1>1. Init => PairInv
  BY InitPair
<1>2. PairInv /\ [Next]_vars => PairInv'
  BY NextPair
<1>3. PairInv => PairUnlessOvertaken
  BY DEF PairInv
<1>4. QED
  BY <1>1, <1>2, <1>3, PTL DEF Spec

=============================================================================
