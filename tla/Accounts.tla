------------------------------ MODULE Accounts ------------------------------
(***************************************************************************)
(* User management (user.service.ts) and the organizations users belong to *)
(* (organization.service.ts).                                              *)
(*                                                                         *)
(* A handler reads the user once, decides on what it read, and commits in  *)
(* a later step; other requests run in between.  The serializable          *)
(* transactions are single steps: they count the other super admins and    *)
(* write, atomically, but what they do still depends on the earlier read.  *)
(*                                                                         *)
(* All routes are SUPER_ADMIN-only and trust the role in the access token, *)
(* so isSuper holds in every handler and its non-super branches are left   *)
(* out.  Names and passwords do not matter here.                           *)
(***************************************************************************)
EXTENDS Naturals

CONSTANTS
    Users,       \* user ids that may ever be used (bound)
    Orgs,        \* organization ids
    Reqs,        \* requests that may be in flight together (bound)
    NoOrg,       \* organizationId = null
    Keep,        \* a field absent from the PATCH body
    Root,        \* the super admin created by the bootstrap script
    NewUsers,    \* the POST bodies: [role, org]
    Patches,     \* the PATCH bodies: [role, org]
    OrgDeletes   \* whether organizations get deleted

Roles == {"SUPER_ADMIN", "ADMIN"}

ASSUME AccountsAssumption ==
    /\ Root \in Users
    /\ NoOrg \notin Orgs
    /\ Keep \notin Orgs \cup Roles \cup {NoOrg}
    /\ NewUsers \subseteq [role: Roles, org: Orgs \cup {NoOrg}]
    /\ Patches \subseteq [role: Roles \cup {Keep}, org: Orgs \cup {NoOrg, Keep}]
    /\ OrgDeletes \in BOOLEAN

VARIABLES
    role,     \* User.role; "none" before and "gone" after the row exists
    org,      \* User.organizationId
    live,     \* the organizations that exist
    tokens,   \* users holding an unexpired access token of a super admin
    req,      \* the updates and deletes of users in flight
    doomed,   \* the organizations whose delete has passed its checks
    stale,    \* (history) the requests whose user was written since they read it
    strayed   \* (history) the users last written by a stale request, or by the
              \* delete of their organization

history == <<stale, strayed>>
vars == <<role, org, live, tokens, req, doomed, stale, strayed>>

\* A request between its read and its commit: the fields it will write and
\* whether the last-super-admin guard applies to it, all decided by the read.
ReqRec == [pc: {"idle", "update", "delete"}, user: Users,
           setRole: Roles \cup {Keep}, setOrg: Orgs \cup {NoOrg, Keep},
           guarded: BOOLEAN]

IdleReq == [pc |-> "idle", user |-> Root, setRole |-> Keep, setOrg |-> Keep,
            guarded |-> FALSE]

TypeOK ==
    /\ role \in [Users -> Roles \cup {"none", "gone"}]
    /\ org \in [Users -> Orgs \cup {NoOrg}]
    /\ live \subseteq Orgs
    /\ tokens \subseteq Users
    /\ req \in [Reqs -> ReqRec]
    /\ doomed \subseteq Orgs
    /\ stale \subseteq {r \in Reqs : req[r].pc # "idle"}
    /\ strayed \subseteq Users

Init ==
    /\ role = [u \in Users |-> IF u = Root THEN "SUPER_ADMIN" ELSE "none"]
    /\ org = [u \in Users |-> NoOrg]
    /\ live = Orgs
    /\ tokens = {}
    /\ req = [r \in Reqs |-> IdleReq]
    /\ doomed = {}
    /\ stale = {}
    /\ strayed = {}

Exists(u) == role[u] \in Roles

IsSuper(u) == role[u] = "SUPER_ADMIN"

\* Foreign key User.organizationId.
OrgValid(o) == o \in live \cup {NoOrg}

\* The requests in flight that have read user u.
ReadersOf(u) == {r \in Reqs : req[r].pc # "idle" /\ req[r].user = u}

-----------------------------------------------------------------------------
(* Access tokens carry the role they were issued with until they expire.   *)

SignIn(u) ==
    /\ IsSuper(u)
    /\ tokens' = tokens \cup {u}
    /\ UNCHANGED <<role, org, live, req, doomed, history>>

Expire(u) ==
    /\ u \in tokens
    /\ tokens' = tokens \ {u}
    /\ UNCHANGED <<role, org, live, req, doomed, history>>

-----------------------------------------------------------------------------
(* createUser                                                              *)

\* Super admins are org-less; everybody else needs an organization.
CreateUser(u, body) ==
    LET newOrg == IF body.role = "SUPER_ADMIN" THEN NoOrg ELSE body.org IN
    /\ tokens # {}
    /\ role[u] = "none"
    /\ body.role # "SUPER_ADMIN" => newOrg # NoOrg
    /\ OrgValid(newOrg)
    /\ role' = [role EXCEPT ![u] = body.role]
    /\ org' = [org EXCEPT ![u] = newOrg]
    /\ UNCHANGED <<live, tokens, req, doomed, history>>

-----------------------------------------------------------------------------
(* updateUser                                                              *)

EffectiveRole(u, body) == IF body.role = Keep THEN role[u] ELSE body.role

\* Mutant: super admins are not made org-less.
EffectiveOrgOfRow(u, body) == IF body.org = Keep THEN org[u] ELSE body.org

\* The organization the row should end up with; NoOrg for a super admin.
EffectiveOrg(u, body) ==
    IF EffectiveRole(u, body) = "SUPER_ADMIN" THEN NoOrg
    ELSE IF body.org = Keep THEN org[u] ELSE body.org

\* The guard inside the transaction.
OtherSuper(u) == \E v \in Users \ {u} : IsSuper(v)

\* Mutant: counted when the user is read, not in the transaction.
GuardedAtRead(u, newRole) ==
    IsSuper(u) /\ newRole # "SUPER_ADMIN" /\ ~OtherSuper(u)

\* isDemotingSuper
Guarded(u, newRole) == IsSuper(u) /\ newRole # "SUPER_ADMIN"

\* Mutant: an absent field is written too.
WrittenRaw(new, old) == new

Written(new, old) == IF new = Keep THEN old ELSE new

\* Reads the user and reconciles role and organization against that read.
UpdateRead(r, u, body) ==
    LET newRole == EffectiveRole(u, body)
        newOrg == EffectiveOrg(u, body)
    IN  /\ tokens # {}
        /\ req[r].pc = "idle"
        /\ Exists(u)
        /\ newRole # "SUPER_ADMIN" => newOrg # NoOrg
        /\ req' = [req EXCEPT ![r] =
              [pc |-> "update", user |-> u, setRole |-> body.role,
               setOrg |-> IF newOrg = org[u] THEN Keep ELSE newOrg,
               guarded |-> Guarded(u, newRole)]]
        /\ UNCHANGED <<role, org, live, tokens, doomed, history>>

\* The transaction.  It fails on the guard, on a row deleted meanwhile and on
\* an organization that does not exist.
UpdateCommit(r) ==
    LET u == req[r].user
        ok == /\ req[r].guarded => OtherSuper(u)
              /\ Exists(u)
              /\ OrgValid(Written(req[r].setOrg, org[u]))
    IN  /\ req[r].pc = "update"
        /\ IF ok
           THEN /\ role' = [role EXCEPT ![u] = Written(req[r].setRole, @)]
                /\ org' = [org EXCEPT ![u] = Written(req[r].setOrg, @)]
                /\ stale' = (stale \cup ReadersOf(u)) \ {r}
                /\ strayed' = IF r \in stale THEN strayed \cup {u} ELSE strayed \ {u}
           ELSE stale' = stale \ {r} /\ UNCHANGED <<role, org, strayed>>
        /\ req' = [req EXCEPT ![r] = IdleReq]
        /\ UNCHANGED <<live, tokens, doomed>>

-----------------------------------------------------------------------------
(* deleteUser                                                              *)

\* Nobody deletes their own account.
DeleteRead(r, u) ==
    /\ \E actor \in tokens : actor # u
    /\ req[r].pc = "idle"
    /\ Exists(u)
    /\ req' = [req EXCEPT ![r] =
                 [pc |-> "delete", user |-> u, setRole |-> Keep,
                  setOrg |-> Keep, guarded |-> IsSuper(u)]]
    /\ UNCHANGED <<role, org, live, tokens, doomed, history>>

\* The token of a deleted user stays valid until it expires.
DeleteCommit(r) ==
    LET u == req[r].user IN
    /\ req[r].pc = "delete"
    /\ IF Exists(u) /\ (req[r].guarded => OtherSuper(u))
       THEN /\ role' = [role EXCEPT ![u] = "gone"]
            /\ org' = [org EXCEPT ![u] = NoOrg]
       ELSE UNCHANGED <<role, org>>
    /\ req' = [req EXCEPT ![r] = IdleReq]
    /\ stale' = stale \ {r}
    /\ UNCHANGED <<live, tokens, doomed, strayed>>

-----------------------------------------------------------------------------
(* Organizations                                                           *)

CreateOrg(o) ==
    /\ tokens # {}
    /\ o \notin live
    /\ live' = live \cup {o}
    /\ UNCHANGED <<role, org, tokens, req, doomed, history>>

NoUsers(o) == \A u \in Users : Exists(u) => org[u] # o

\* deleteOrganization up to its two counts; no jobs, reviews, uploads or sync
\* jobs exist (they would also stop the DELETE itself).
DeleteOrgCheck(o) ==
    /\ OrgDeletes
    /\ tokens # {}
    /\ o \in live
    /\ NoUsers(o)
    /\ doomed' = doomed \cup {o}
    /\ UNCHANGED <<role, org, live, tokens, req, history>>

\* The users that have joined o since its delete counted them.
Cleared(o) == {u \in Users : org[u] = o}

\* The DELETE.  The foreign key of User is ON DELETE SET NULL.
DeleteOrg(o) ==
    /\ o \in doomed
    /\ doomed' = doomed \ {o}
    /\ live' = live \ {o}
    /\ org' = [u \in Users |-> IF org[u] = o THEN NoOrg ELSE org[u]]
    /\ stale' = stale \cup UNION {ReadersOf(u) : u \in Cleared(o)}
    /\ strayed' = strayed \cup Cleared(o)
    /\ UNCHANGED <<role, tokens, req>>

-----------------------------------------------------------------------------

Next ==
    \/ \E u \in Users : SignIn(u) \/ Expire(u)
    \/ \E u \in Users, body \in NewUsers : CreateUser(u, body)
    \/ \E r \in Reqs, u \in Users, body \in Patches : UpdateRead(r, u, body)
    \/ \E r \in Reqs, u \in Users : DeleteRead(r, u)
    \/ \E r \in Reqs : UpdateCommit(r) \/ DeleteCommit(r)
    \/ \E o \in Orgs : CreateOrg(o) \/ DeleteOrgCheck(o) \/ DeleteOrg(o)

Spec == Init /\ [][Next]_vars

-----------------------------------------------------------------------------
(* Properties.                                                             *)

\* Atomic "or two concurrent demotions could ... strand the platform at 0 super
\* admins" (user.service.ts 147-148): some super admin always exists.  Of updates
\* it is false: one that read its user before the promotion of that user is not
\* guarded.
SuperAdminRemains == \E u \in Users : IsSuper(u)

\* What the code keeps of that however demotions, deletions and promotions
\* overlap: the guards of two that run together do not let each other pass, and
\* only a request whose user was written after it read it takes the last super
\* admin away.
LossOvertakenStep ==
    SuperAdminRemains /\ ~SuperAdminRemains' =>
        \E r \in stale : req'[r].pc = "idle"

LossOvertaken == [][LossOvertakenStep]_vars

\* "so we never persist an inconsistent (role, org) pair - e.g. a non-super user
\* with a null org, which tenantScope rejects" (user.service.ts 122-124).  It is
\* persisted, by an update that decided on a row written meanwhile, and by the
\* delete of an organization that somebody joined meanwhile; the code keeps the
\* rest of it however requests overlap: nothing else breaks the pair, the broken
\* row is that of the overtaken request or of the deleted organization, and the
\* next update that is not overtaken mends it.
PairUnlessOvertaken ==
    \A u \in Users \ strayed : Exists(u) => (IsSuper(u) <=> org[u] = NoOrg)

=============================================================================
