---------------------------- MODULE TenancyProofs ----------------------------
(***************************************************************************)
(* Theorems about Tenancy for any number of organizations, requests and    *)
(* failing calls.                                                          *)
(***************************************************************************)
EXTENDS Tenancy, FiniteSetTheorems, TLAPS

-----------------------------------------------------------------------------
(* The inductive invariant.                                                *)

Steps == {"idle", "handler", "object", "row", "drop"}

ReqRec == [op: Ops \cup {"none"}, id: Orgs \cup Nat, tenantId: Orgs \cup {Null},
           isSuper: BOOLEAN, home: Orgs \cup {Null}]

\* A request under way acts for its tenant, in the context of that tenant;
\* the deletion of an organization acts for that organization.
Scoped(r) ==
    IF req[r].op \in Unbound
    THEN /\ als[r] = NoContext
         /\ req[r].home = req[r].id
         /\ req[r].id \in Orgs
    ELSE /\ req[r].tenantId = Null => req[r].isSuper
         /\ req[r].op \in requireTenant => req[r].tenantId # Null
         /\ req[r].home = req[r].tenantId
         /\ als[r] = Context(req[r].tenantId, req[r].isSuper)

ScopeInv ==
    /\ pc \in [Reqs -> Steps]
    /\ als \in [Reqs -> {NoContext} \cup {Context(o, b) : o \in Orgs \cup {Null}, b \in BOOLEAN}]
    /\ req \in [Reqs -> ReqRec]
    /\ tokens \subseteq [organizationId: Orgs \cup {Null}, scopes: Scopes]
    /\ orgs \subseteq Orgs
    /\ \A r \in Reqs :
         /\ pc[r] = "idle" => als[r] = NoContext /\ req[r] = NoReq
         /\ pc[r] # "idle" => Scoped(r) /\ req[r].op \in Ops

\* Ids are given out once.
IdInv ==
    /\ serial \in 0 .. MaxId
    /\ faults \subseteq FaultKinds
    /\ \A x \in rows : x.id \in 1 .. serial /\ x.organizationId \in Orgs \cup {Null}
    /\ \A x, y \in rows : x.id = y.id => x = y
    /\ objects \subseteq Orgs \X (1 .. serial)

Key(r) == <<req[r].tenantId, req[r].id>>

\* The uploads and deletions of uploads that are between two calls.
Uploading(r) == At(r, "row", "upload")
Removing(r) == At(r, "object", "deleteUpload") \/ At(r, "row", "deleteUpload")

\* An id between its object and its row is nobody else's.
UploadingInv ==
    \A r \in Reqs : Uploading(r) =>
        /\ req[r].id \in 1 .. serial
        /\ Key(r) \in objects
        /\ \A k \in objects : k[2] = req[r].id => k = Key(r)
        /\ \A x \in rows : x.id # req[r].id
        /\ \A q \in Reqs : q # r /\ (Uploading(q) \/ Removing(q)) => req[q].id # req[r].id

\* The row being deleted is the tenant's, and its object goes first.
RemovingInv ==
    \A r \in Reqs : Removing(r) =>
        /\ req[r].id \in 1 .. serial
        /\ \A x \in rows : x.id = req[r].id =>
             x.model = "Upload" /\ x.organizationId = req[r].tenantId
        /\ pc[r] = "row" => Key(r) \notin objects \/ "remove" \in faults

TenancyInv ==
    /\ ScopeInv /\ IdInv /\ UploadingInv /\ RemovingInv
    /\ Isolation /\ ContextKept /\ ObjectsMatchRows /\ NoRowsLeft

-----------------------------------------------------------------------------
(* What the extension does in the contexts that requests run in.           *)

\* A context with a tenant, or without one for a super admin, takes every
\* operation that is not forbidden.
LEMMA ContextAdmits ==
    ASSUME NEW o \in Orgs \cup {Null}, NEW b \in BOOLEAN, o = Null => b,
           NEW operation, operation \notin FORBIDDEN_OPS
    PROVE  /\ Admits(Context(o, b), operation)
           /\ Unscoped(Context(o, b)) <=> o = Null
BY DEF Admits, Unscoped, Context

LEMMA VisibleIs ==
    ASSUME NEW o \in Orgs \cup {Null}, NEW b \in BOOLEAN, o = Null => b,
           NEW operation, operation \notin FORBIDDEN_OPS
    PROVE  Visible(Context(o, b), operation) =
             {x \in rows : o = Null \/ x.organizationId = o}
<1>1. Context(o, b).tenantId = o
  BY DEF Context
<1>2. CASE o = Null
  BY <1>2, ContextAdmits DEF Visible
<1>3. CASE o # Null
  BY <1>1, <1>3, ContextAdmits DEF Visible
<1>4. QED
  BY <1>2, <1>3

\* A query that finds rows of its own organization leaves no trace.
LEMMA QueryHarmless ==
    ASSUME NEW o \in Orgs \cup {Null}, NEW b \in BOOLEAN, o = Null => b,
           NEW operation, operation \notin FORBIDDEN_OPS,
           NEW found, \A x \in found : o \in {Null, x.organizationId},
           Query(o, Context(o, b), operation, found)
    PROVE  UNCHANGED <<strays, refused>>
<1>1. Admits(Context(o, b), operation)
  BY ContextAdmits
<1>2. {y \in found : o \notin {Null, y.organizationId}} = {}
  OBVIOUS
<1>3. QED
  BY <1>1, <1>2 DEF Query

\* A new row keeps the organization that its request acts for, and is there if
\* that organization is.
LEMMA CreatedIs ==
    ASSUME NEW o \in Orgs \cup {Null}, NEW b \in BOOLEAN, o = Null => b,
           NEW m, NEW i, NEW k
    PROVE  LET row == [model |-> m, id |-> i, organizationId |-> o, r2Key |-> k]
           IN  Created(Context(o, b), row) =
                 {x \in {row} : m = "AuditLog" \/ o \in orgs}
<1> DEFINE row == [model |-> m, id |-> i, organizationId |-> o, r2Key |-> k]
<1>1. Admits(Context(o, b), "create")
  BY ContextAdmits DEF FORBIDDEN_OPS
<1>2. /\ Context(o, b).tenantId = o
      /\ row.organizationId = o /\ row.model = m
      /\ [row EXCEPT !.organizationId = o] = row
  BY DEF Context
<1>3. Created(Context(o, b), row) =
        {x \in {[row EXCEPT !.organizationId = o]} :
           Admits(Context(o, b), "create") /\ (x.model = "AuditLog" \/ o \in orgs)}
  BY <1>2 DEF Created
<1>4. QED
  BY <1>1, <1>2, <1>3

-----------------------------------------------------------------------------
(* The first state.                                                        *)

LEMMA InitInv ==
    ASSUME TenancyAssumption, Init
    PROVE  TenancyInv
<1> USE DEF Init
<1>1. serial \in 0 .. MaxId
  <2>1. Cardinality(Orgs) \in Nat
    BY FS_CardinalityType DEF TenancyAssumption
  <2>2. QED
    BY <2>1 DEF TenancyAssumption
<1>2. ScopeInv
  <2>1. NoReq \in ReqRec /\ NoReq.op = "none"
    BY DEF NoReq, ReqRec
  <2>2. QED
    BY <2>1 DEF ScopeInv, Steps
<1>3. PICK id \in [Orgs -> 1 .. serial] :
        /\ \A o, p \in Orgs : id[o] = id[p] => o = p
        /\ rows = {[model |-> "Review", id |-> id[o], organizationId |-> o,
                    r2Key |-> NoKey] : o \in Orgs}
  OBVIOUS
<1>4. ASSUME NEW x \in rows
      PROVE  /\ x.model = "Review" /\ x.organizationId \in Orgs
             /\ x = [model |-> "Review", id |-> id[x.organizationId],
                     organizationId |-> x.organizationId, r2Key |-> NoKey]
  BY <1>3
<1>5. IdInv
  <2>1. ASSUME NEW x \in rows PROVE x.id = id[x.organizationId]
    BY <1>4
  <2>2. \A x \in rows : x.id \in 1 .. serial
    BY <1>4, <2>1
  <2>3. ASSUME NEW x \in rows, NEW y \in rows, x.id = y.id PROVE x = y
    <3>1. x.organizationId = y.organizationId
      BY <1>3, <1>4, <2>1, <2>3
    <3>2. QED
      BY <1>4, <3>1
  <2>4. QED
    BY <1>1, <1>4, <2>2, <2>3 DEF IdInv
<1>6. UploadingInv /\ RemovingInv
  BY DEF UploadingInv, RemovingInv, Uploading, Removing, At
<1>7. Isolation /\ ContextKept
  BY DEF Isolation, ContextKept
<1>8. ObjectsMatchRows /\ NoRowsLeft
  BY <1>4 DEF ObjectsMatchRows, NoRowsLeft, Of
<1>9. QED
  BY <1>2, <1>5, <1>6, <1>7, <1>8 DEF TenancyInv

-----------------------------------------------------------------------------
(* Steps that upload and remove nothing.                                   *)

Between(r) == Uploading(r) \/ Removing(r)

\* A step of which the uploads and their deletions know nothing: it may give a
\* new row the next id, and delete reviews.
LEMMA Aside ==
    ASSUME TenancyAssumption, TenancyInv, NEW r \in Reqs, ~Between(r), ~Between(r)',
           \A q \in Reqs \ {r} : pc'[q] = pc[q] /\ req'[q] = req[q],
           NEW gone, gone \cap Of("Upload", rows) = {},
           NEW new, \A x \in new :
                      /\ x.id = serial + 1 /\ serial' = serial + 1
                      /\ x.model # "Upload"
                      /\ x.organizationId \in Orgs \cup {Null}
                      /\ x.model = "AuditLog" \/ x.organizationId \in orgs',
           \A x, y \in new : x = y,
           rows' = (rows \ gone) \cup new,
           serial' \in {serial, serial + 1}, serial' <= MaxId,
           orgs' \subseteq orgs,
           \A x \in rows : x.model # "AuditLog" => x.organizationId \in orgs',
           faults \subseteq faults', faults' \subseteq faults \cup FaultKinds,
           UNCHANGED objects
    PROVE  IdInv' /\ UploadingInv' /\ RemovingInv' /\ ObjectsMatchRows' /\ NoRowsLeft'
<1> USE DEF TenancyInv
<1>1. serial \in Nat /\ serial' \in Nat /\ serial <= serial'
  BY DEF IdInv
<1>2. \A q \in Reqs : Uploading(q)' => q # r /\ Uploading(q) /\ req'[q] = req[q]
  BY DEF Between, Uploading, At
<1>3. \A q \in Reqs : Removing(q)' =>
        q # r /\ Removing(q) /\ req'[q] = req[q] /\ pc'[q] = pc[q]
  BY DEF Between, Removing, At
<1>4. Of("Upload", rows') = Of("Upload", rows)
  BY DEF Of
<1>5. IdInv'
  <2>1. \A x, y \in rows' : x.id = y.id => x = y
    BY <1>1 DEF IdInv
  <2>2. \A x \in rows' : x.id \in 1 .. serial' /\ x.organizationId \in Orgs \cup {Null}
    BY <1>1 DEF IdInv
  <2>3. objects' \subseteq Orgs \X (1 .. serial')
    BY <1>1 DEF IdInv
  <2>4. QED
    BY <1>1, <2>1, <2>2, <2>3 DEF IdInv, TenancyAssumption
<1>6. UploadingInv'
  <2>1. ASSUME NEW q \in Reqs, Uploading(q)'
        PROVE  /\ req'[q].id \in 1 .. serial'
               /\ Key(q)' \in objects'
               /\ \A k \in objects' : k[2] = req'[q].id => k = Key(q)'
               /\ \A x \in rows' : x.id # req'[q].id
               /\ \A p \in Reqs : p # q /\ (Uploading(p)' \/ Removing(p)') =>
                    req'[p].id # req'[q].id
    <3>1. Uploading(q) /\ req'[q] = req[q] /\ Key(q)' = Key(q)
      BY <1>2, <2>1 DEF Key
    <3>2. req[q].id \in 1 .. serial /\ Key(q) \in objects
      BY <3>1 DEF UploadingInv
    <3>3. \A k \in objects : k[2] = req[q].id => k = Key(q)
      BY <3>1 DEF UploadingInv
    <3>4. \A x \in rows' : x.id # req[q].id
      BY <1>1, <3>1, <3>2 DEF UploadingInv
    <3>5. \A p \in Reqs : p # q /\ (Uploading(p)' \/ Removing(p)') =>
            req'[p].id # req[q].id
      BY <1>2, <1>3, <3>1 DEF UploadingInv
    <3>6. QED
      BY <1>1, <3>1, <3>2, <3>3, <3>4, <3>5
  <2>2. QED
    BY <2>1 DEF UploadingInv
<1>7. RemovingInv'
  <2>1. ASSUME NEW q \in Reqs, Removing(q)'
        PROVE  /\ req'[q].id \in 1 .. serial'
               /\ \A x \in rows' : x.id = req'[q].id =>
                    x.model = "Upload" /\ x.organizationId = req'[q].tenantId
               /\ pc'[q] = "row" => Key(q)' \notin objects' \/ "remove" \in faults'
    <3>1. Removing(q) /\ req'[q] = req[q] /\ pc'[q] = pc[q] /\ Key(q)' = Key(q)
      BY <1>3, <2>1 DEF Key
    <3>2. req[q].id \in 1 .. serial
      BY <3>1 DEF RemovingInv
    <3>3. \A x \in rows : x.id = req[q].id =>
            x.model = "Upload" /\ x.organizationId = req[q].tenantId
      BY <3>1 DEF RemovingInv
    <3>4. pc[q] = "row" => Key(q) \notin objects \/ "remove" \in faults
      BY <3>1 DEF RemovingInv
    <3>5. QED
      BY <1>1, <3>1, <3>2, <3>3, <3>4
  <2>2. QED
    BY <2>1 DEF RemovingInv
<1>8. ObjectsMatchRows'
  <2>1. ASSUME NEW x \in Of("Upload", rows')
        PROVE  /\ x.r2Key = <<x.organizationId, x.id>>
               /\ \/ x.r2Key \in objects'
                  \/ "delete" \in faults'
                  \/ \E q \in Reqs : At(q, "row", "deleteUpload")' /\ req'[q].id = x.id
    <3>1. CASE \E q \in Reqs : At(q, "row", "deleteUpload") /\ req[q].id = x.id
      <4>1. PICK q \in Reqs : At(q, "row", "deleteUpload") /\ req[q].id = x.id
        BY <3>1
      <4>2. q # r
        BY <4>1 DEF Between, Removing
      <4>3. At(q, "row", "deleteUpload")' /\ req'[q].id = x.id
        BY <4>1, <4>2 DEF At
      <4>4. QED
        BY <1>4, <4>3 DEF ObjectsMatchRows
    <3>2. CASE ~ \E q \in Reqs : At(q, "row", "deleteUpload") /\ req[q].id = x.id
      BY <1>4, <3>2 DEF ObjectsMatchRows
    <3>3. QED
      BY <3>1, <3>2
  <2>2. ASSUME {"insert", "remove"} \cap faults' = {}, NEW k \in objects'
        PROVE  \/ \E x \in Of("Upload", rows') : x.r2Key = k
               \/ \E q \in Reqs : At(q, "row", "upload")' /\ req'[q].id = k[2]
               \/ k[1] \notin orgs'
    <3>1. CASE \E q \in Reqs : At(q, "row", "upload") /\ req[q].id = k[2]
      <4>1. PICK q \in Reqs : At(q, "row", "upload") /\ req[q].id = k[2]
        BY <3>1
      <4>2. q # r
        BY <4>1 DEF Between, Uploading
      <4>3. At(q, "row", "upload")' /\ req'[q].id = k[2]
        BY <4>1, <4>2 DEF At
      <4>4. QED
        BY <4>3
    <3>2. CASE ~ \E q \in Reqs : At(q, "row", "upload") /\ req[q].id = k[2]
      BY <1>4, <2>2, <3>2 DEF ObjectsMatchRows
    <3>3. QED
      BY <3>1, <3>2
  <2>3. QED
    BY <2>1, <2>2 DEF ObjectsMatchRows
<1>9. NoRowsLeft'
  BY DEF NoRowsLeft
<1>10. QED
  BY <1>5, <1>6, <1>7, <1>8, <1>9

\* ... or leave rows and objects alone.
LEMMA Quiet ==
    ASSUME TenancyAssumption, TenancyInv, NEW r \in Reqs, ~Between(r), ~Between(r)',
           \A q \in Reqs \ {r} : pc'[q] = pc[q] /\ req'[q] = req[q],
           UNCHANGED <<orgs, rows, objects, serial>>,
           faults \subseteq faults', faults' \subseteq faults \cup FaultKinds
    PROVE  IdInv' /\ UploadingInv' /\ RemovingInv' /\ ObjectsMatchRows' /\ NoRowsLeft'
<1> DEFINE gone == {}  new == {}
<1>1. /\ gone \cap Of("Upload", rows) = {}
      /\ \A x \in new :
           /\ x.id = serial + 1 /\ serial' = serial + 1
           /\ x.model # "Upload"
           /\ x.organizationId \in Orgs \cup {Null}
           /\ x.model = "AuditLog" \/ x.organizationId \in orgs'
      /\ \A x, y \in new : x = y
      /\ rows' = (rows \ gone) \cup new
  OBVIOUS
<1>2. /\ serial' \in {serial, serial + 1} /\ serial' <= MaxId /\ orgs' \subseteq orgs
      /\ UNCHANGED objects
  BY DEF TenancyInv, IdInv, TenancyAssumption
<1>3. \A x \in rows : x.model # "AuditLog" => x.organizationId \in orgs'
  BY DEF TenancyInv, NoRowsLeft
<1> HIDE DEF gone, new
<1>4. QED
  BY <1>1, <1>2, <1>3, Aside

-----------------------------------------------------------------------------
(* Contexts: a request keeps the one that its middleware set.              *)

\* What is known of a request of a tenant, or of all of them.
LEMMA Tenanted ==
    ASSUME ScopeInv, NEW r \in Reqs, pc[r] # "idle", req[r].op # "deleteOrg"
    PROVE  /\ req[r].tenantId \in Orgs \cup {Null}
           /\ req[r].isSuper \in BOOLEAN
           /\ req[r].tenantId = Null => req[r].isSuper
           /\ req[r].op \in requireTenant => req[r].tenantId # Null
           /\ req[r].home = req[r].tenantId
           /\ als[r] = Context(req[r].tenantId, req[r].isSuper)
BY DEF ScopeInv, Scoped, Unbound, ReqRec

LEMMA EndScope ==
    ASSUME ScopeInv, NEW r \in Reqs, End(r), orgs' \subseteq Orgs,
           tokens' \subseteq [organizationId: Orgs \cup {Null}, scopes: Scopes]
    PROVE  /\ ScopeInv' /\ ~Between(r)'
           /\ \A q \in Reqs \ {r} : pc'[q] = pc[q] /\ req'[q] = req[q]
<1>1. NoReq \in ReqRec
  BY DEF NoReq, ReqRec
<1>2. pc'[r] = "idle" /\ als'[r] = NoContext /\ req'[r] = NoReq
  BY DEF End, ScopeInv
<1>3. \A q \in Reqs \ {r} : pc'[q] = pc[q] /\ als'[q] = als[q] /\ req'[q] = req[q]
  BY DEF End, ScopeInv
<1>4. /\ pc' \in [Reqs -> Steps] /\ req' \in [Reqs -> ReqRec]
      /\ als' \in [Reqs -> {NoContext} \cup
                            {Context(o, b) : o \in Orgs \cup {Null}, b \in BOOLEAN}]
  BY <1>1 DEF End, ScopeInv, Steps
<1>5. \A q \in Reqs \ {r} : pc[q] # "idle" => Scoped(q)'
  BY <1>3 DEF ScopeInv, Scoped
<1>6. ScopeInv'
  BY <1>2, <1>3, <1>4, <1>5 DEF ScopeInv
<1>7. ~Between(r)'
  BY <1>2 DEF Between, Uploading, Removing, At
<1>8. QED
  BY <1>3, <1>6, <1>7

\* From one awaited call to the next, possibly with another id.
LEMMA GoScope ==
    ASSUME ScopeInv, NEW r \in Reqs, pc[r] # "idle", req[r].op # "deleteOrg",
           NEW to \in Steps \ {"idle"}, NEW i \in Nat,
           pc' = [pc EXCEPT ![r] = to],
           req' = req \/ req' = [req EXCEPT ![r].id = i],
           als' = als \/ als' = [als EXCEPT ![r] = Context(req[r].tenantId, req[r].isSuper)],
           UNCHANGED <<orgs, tokens>>
    PROVE  /\ ScopeInv'
           /\ \A q \in Reqs \ {r} : pc'[q] = pc[q] /\ req'[q] = req[q]
           /\ pc'[r] = to
           /\ req'[r].tenantId = req[r].tenantId /\ req'[r].op = req[r].op
<1>1. als' = als
  BY Tenanted DEF ScopeInv
<1>2. req[r] \in ReqRec /\ req'[r] \in ReqRec
  BY DEF ScopeInv, ReqRec
<1>3. /\ req'[r].op = req[r].op /\ req'[r].tenantId = req[r].tenantId
      /\ req'[r].isSuper = req[r].isSuper /\ req'[r].home = req[r].home
  BY DEF ScopeInv, ReqRec
<1>4. req' \in [Reqs -> ReqRec] /\ pc' \in [Reqs -> Steps]
  BY <1>2 DEF ScopeInv
<1>5. \A q \in Reqs \ {r} : pc'[q] = pc[q] /\ req'[q] = req[q]
  BY DEF ScopeInv
<1>6. pc'[r] = to
  BY DEF ScopeInv
<1>7. Scoped(r)'
  BY <1>1, <1>3 DEF ScopeInv, Scoped, Unbound
<1>8. \A q \in Reqs \ {r} : pc[q] # "idle" => Scoped(q)'
  BY <1>1, <1>5 DEF ScopeInv, Scoped
<1>9. ScopeInv'
  BY <1>1, <1>3, <1>4, <1>5, <1>6, <1>7, <1>8 DEF ScopeInv
<1>10. QED
  BY <1>3, <1>5, <1>6, <1>9

\* Whoever is let in gets a context of its own organization; only a super
\* admin gets one without.
LEMMA EnterInv ==
    ASSUME TenancyAssumption, TenancyInv, NEW r \in Reqs, NEW op \in Ops, NEW id,
           NEW auth, NEW orgId \in Orgs \cup {Null}, Enter(r, op, id, auth, orgId),
           IF op \in Unbound THEN id \in orgs ELSE id \in Nat,
           auth.organizationId \in Orgs \cup {Null}
    PROVE  TenancyInv'
<1> USE DEF TenancyInv
<1> DEFINE ctx == IF op \in Unbound THEN NoContext ELSE TenantScope(auth, orgId)
           home == IF op \in Unbound THEN id
                   ELSE IF auth.role = "SUPER_ADMIN" THEN orgId
                   ELSE auth.organizationId
<1>1. /\ pc[r] = "idle"
      /\ op \in Unbound \/ ctx.set
      /\ op \in requireTenant => ctx.tenantId # Null
      /\ pc' = [pc EXCEPT ![r] = "handler"]
      /\ als' = [als EXCEPT ![r] = ctx]
      /\ req' = [req EXCEPT ![r] =
                   [op |-> op, id |-> id, tenantId |-> ctx.tenantId,
                    isSuper |-> ctx.isSuper, home |-> home]]
      /\ UNCHANGED <<dataVars, history>>
  BY DEF Enter
<1>2. /\ ctx \in {NoContext} \cup
                  {Context(o, b) : o \in Orgs \cup {Null}, b \in BOOLEAN}
      /\ ctx.tenantId \in Orgs \cup {Null} /\ ctx.isSuper \in BOOLEAN
      /\ home \in Orgs \cup {Null} /\ id \in Orgs \cup Nat
      /\ op \in Unbound => ctx = NoContext /\ home = id /\ id \in Orgs
      /\ op \notin Unbound =>
           /\ ctx = Context(ctx.tenantId, ctx.isSuper)
           /\ ctx.tenantId = Null => ctx.isSuper
           /\ home = ctx.tenantId
  <2>1. orgs \subseteq Orgs
    BY DEF ScopeInv
  <2>2. CASE op \in Unbound
    <3>1. ctx = NoContext /\ home = id /\ id \in Orgs
      BY <2>1, <2>2
    <3>2. NoContext.tenantId = Null /\ NoContext.isSuper \in BOOLEAN
      BY DEF NoContext
    <3> HIDE DEF ctx, home
    <3>3. QED
      BY <2>2, <3>1, <3>2
  <2>3. CASE op \notin Unbound
    <3>1. PICK o \in Orgs \cup {Null}, b \in BOOLEAN :
            /\ TenantScope(auth, orgId) = Context(o, b)
            /\ o = Null => b
            /\ home = o
      <4>1. CASE auth.role = "SUPER_ADMIN"
        <5>1. TenantScope(auth, orgId) = Context(orgId, TRUE) /\ home = orgId
          BY <2>3, <4>1 DEF TenantScope
        <5>2. QED
          BY <5>1
      <4>2. CASE auth.role # "SUPER_ADMIN"
        <5>1. auth.organizationId # Null
          BY <1>1, <2>3, <4>2 DEF TenantScope, NoContext
        <5>2. /\ TenantScope(auth, orgId) = Context(auth.organizationId, FALSE)
              /\ home = auth.organizationId
          BY <2>3, <4>2, <5>1 DEF TenantScope
        <5>3. QED
          BY <5>1, <5>2
      <4>3. QED
        BY <4>1, <4>2
    <3>2. ctx = Context(o, b)
      BY <2>3, <3>1
    <3>3. Context(o, b).tenantId = o /\ Context(o, b).isSuper = b
      BY DEF Context
    <3> HIDE DEF ctx, home
    <3>4. QED
      BY <2>3, <3>1, <3>2, <3>3
  <2>4. QED
    BY <2>2, <2>3
<1> HIDE DEF ctx, home
<1>3. /\ req'[r] = [op |-> op, id |-> id, tenantId |-> ctx.tenantId,
                    isSuper |-> ctx.isSuper, home |-> home]
      /\ pc'[r] = "handler" /\ als'[r] = ctx
      /\ \A q \in Reqs \ {r} : pc'[q] = pc[q] /\ req'[q] = req[q] /\ als'[q] = als[q]
  BY <1>1 DEF ScopeInv
<1>4. req' \in [Reqs -> ReqRec]
  BY <1>1, <1>2 DEF ScopeInv, ReqRec
<1>5. /\ pc' \in [Reqs -> Steps]
      /\ als' \in [Reqs -> {NoContext} \cup
                            {Context(o, b) : o \in Orgs \cup {Null}, b \in BOOLEAN}]
  BY <1>1, <1>2 DEF ScopeInv, Steps
<1>6. Scoped(r)'
  BY <1>1, <1>2, <1>3 DEF Scoped
<1>7. \A q \in Reqs \ {r} : pc[q] # "idle" => Scoped(q)'
  BY <1>3 DEF ScopeInv, Scoped
<1>8. ScopeInv'
  BY <1>1, <1>3, <1>4, <1>5, <1>6, <1>7 DEF ScopeInv, dataVars
<1>9. ~Between(r) /\ ~Between(r)'
  BY <1>1, <1>3 DEF Between, Uploading, Removing, At
<1>10. IdInv' /\ UploadingInv' /\ RemovingInv' /\ ObjectsMatchRows' /\ NoRowsLeft'
  BY <1>1, <1>3, <1>9, Quiet DEF dataVars, history
<1>11. QED
  BY <1>1, <1>8, <1>10 DEF history, Isolation, ContextKept

-----------------------------------------------------------------------------
(* Handlers that ask and answer at once.                                   *)

\* The call chain of a request ends and rows and objects are what they were.
LEMMA EndQuiet ==
    ASSUME TenancyAssumption, TenancyInv, NEW r \in Reqs, ~Between(r), End(r),
           tokens' \subseteq [organizationId: Orgs \cup {Null}, scopes: Scopes],
           UNCHANGED <<orgs, rows, objects, serial, history>>
    PROVE  TenancyInv'
<1>1. orgs' \subseteq Orgs /\ UNCHANGED <<faults, strays, refused>>
  BY DEF TenancyInv, ScopeInv, history
<1>2. /\ ScopeInv' /\ ~Between(r)'
      /\ \A q \in Reqs \ {r} : pc'[q] = pc[q] /\ req'[q] = req[q]
  BY <1>1, EndScope DEF TenancyInv
<1>3. IdInv' /\ UploadingInv' /\ RemovingInv' /\ ObjectsMatchRows' /\ NoRowsLeft'
  BY <1>1, <1>2, Quiet
<1>4. QED
  BY <1>1, <1>2, <1>3 DEF TenancyInv, Isolation, ContextKept

LEMMA ListReviewsInv ==
    ASSUME TenancyAssumption, TenancyInv, NEW r \in Reqs, ListReviews(r)
    PROVE  TenancyInv'
<1>1. pc[r] = "handler" /\ req[r].op \in {"listReviews", "publicReviews"}
  BY DEF ListReviews, At
<1>2. ~Between(r)
  BY <1>1 DEF Between, Uploading, Removing, At
<1>3. PICK o \in Orgs \cup {Null}, b \in BOOLEAN :
        (o = Null => b) /\ req[r].home = o /\ als[r] = Context(o, b)
  BY <1>1, Tenanted DEF TenancyInv
<1>4. "findMany" \notin FORBIDDEN_OPS
  BY DEF FORBIDDEN_OPS
<1>5. UNCHANGED <<strays, refused>>
  <2> DEFINE found == Of("Review", Visible(Context(o, b), "findMany"))
  <2>1. Visible(Context(o, b), "findMany") = {x \in rows : o = Null \/ x.organizationId = o}
    BY <1>3, <1>4, VisibleIs
  <2>2. \A x \in found : o \in {Null, x.organizationId}
    BY <2>1 DEF Of
  <2>3. Query(o, Context(o, b), "findMany", found)
    BY <1>3 DEF ListReviews
  <2> HIDE DEF found
  <2>4. QED
    BY <1>3, <1>4, <2>2, <2>3, QueryHarmless
<1>6. /\ End(r) /\ UNCHANGED <<orgs, rows, objects, serial, history>>
      /\ tokens' \subseteq [organizationId: Orgs \cup {Null}, scopes: Scopes]
  BY <1>5 DEF ListReviews, dataVars, history, TenancyInv, ScopeInv
<1>7. QED
  BY <1>2, <1>6, EndQuiet

LEMMA CreateReviewInv ==
    ASSUME TenancyAssumption, TenancyInv, NEW r \in Reqs, CreateReview(r)
    PROVE  TenancyInv'
<1>1. pc[r] = "handler" /\ req[r].op = "createReview"
  BY DEF CreateReview, At
<1>2. ~Between(r)
  BY <1>1 DEF Between, Uploading, Removing, At
<1>3. PICK o \in Orgs, b \in BOOLEAN :
        req[r].tenantId = o /\ req[r].home = o /\ als[r] = Context(o, b)
  BY <1>1, Tenanted DEF TenancyInv, requireTenant
<1> DEFINE row == [model |-> "Review", id |-> serial + 1, organizationId |-> o,
                   r2Key |-> NoKey]
           new == {x \in {row} : "Review" = "AuditLog" \/ o \in orgs}
<1>4. Created(als[r], Row("Review", req[r].tenantId, NoKey)) = new /\ o # Null
  BY <1>3, CreatedIs DEF Row, TenancyAssumption
<1>5. \A x \in new : x = row /\ o \in orgs
  OBVIOUS
<1>6. row.id = serial + 1 /\ row.model = "Review" /\ row.organizationId = o
  OBVIOUS
<1>7. /\ serial < MaxId /\ serial' = serial + 1
      /\ Query(o, Context(o, b), "create", new)
      /\ rows' = rows \cup new /\ End(r)
      /\ UNCHANGED <<orgs, tokens, objects, faults>>
  BY <1>3, <1>4 DEF CreateReview
<1> HIDE DEF row, new
<1>8. UNCHANGED <<strays, refused>>
  BY <1>4, <1>5, <1>6, <1>7, QueryHarmless DEF FORBIDDEN_OPS
<1>9. /\ ScopeInv' /\ ~Between(r)'
      /\ \A q \in Reqs \ {r} : pc'[q] = pc[q] /\ req'[q] = req[q]
  BY <1>7, EndScope DEF TenancyInv, ScopeInv
<1>10. IdInv' /\ UploadingInv' /\ RemovingInv' /\ ObjectsMatchRows' /\ NoRowsLeft'
  <2> DEFINE gone == {}
  <2>1. gone \cap Of("Upload", rows) = {} /\ rows' = (rows \ gone) \cup new
    BY <1>7
  <2>2. \A x \in new :
          /\ x.id = serial + 1 /\ serial' = serial + 1
          /\ x.model # "Upload"
          /\ x.organizationId \in Orgs \cup {Null}
          /\ x.model = "AuditLog" \/ x.organizationId \in orgs'
    BY <1>5, <1>6, <1>7
  <2>3. /\ \A x, y \in new : x = y
        /\ serial' \in {serial, serial + 1} /\ serial' <= MaxId
        /\ orgs' \subseteq orgs
        /\ \A x \in rows : x.model # "AuditLog" => x.organizationId \in orgs'
        /\ UNCHANGED <<objects, faults>>
    BY <1>5, <1>7 DEF TenancyInv, NoRowsLeft, IdInv, TenancyAssumption
  <2> HIDE DEF gone
  <2>4. QED
    BY <1>2, <1>9, <2>1, <2>2, <2>3, Aside
<1>11. QED
  BY <1>8, <1>9, <1>10 DEF TenancyInv, Isolation, ContextKept

LEMMA DeleteReviewInv ==
    ASSUME TenancyAssumption, TenancyInv, NEW r \in Reqs, DeleteReview(r)
    PROVE  TenancyInv'
<1>1. pc[r] = "handler" /\ req[r].op = "deleteReview"
  BY DEF DeleteReview, At
<1>2. ~Between(r)
  BY <1>1 DEF Between, Uploading, Removing, At
<1>3. PICK o \in Orgs \cup {Null}, b \in BOOLEAN :
        (o = Null => b) /\ req[r].home = o /\ als[r] = Context(o, b)
  BY <1>1, Tenanted DEF TenancyInv
<1> DEFINE gone == {x \in Of("Review", Visible(Context(o, b), "deleteMany")) :
                      x.id = req[r].id}
<1>4. /\ Query(o, Context(o, b), "deleteMany", gone)
      /\ rows' = rows \ gone /\ End(r)
      /\ UNCHANGED <<orgs, tokens, objects, serial, faults>>
  BY <1>3 DEF DeleteReview
<1>5. "deleteMany" \notin FORBIDDEN_OPS
  BY DEF FORBIDDEN_OPS
<1>6. /\ \A x \in gone : o \in {Null, x.organizationId}
      /\ gone \cap Of("Upload", rows) = {}
  <2>1. Visible(Context(o, b), "deleteMany") =
          {x \in rows : o = Null \/ x.organizationId = o}
    BY <1>3, <1>5, VisibleIs
  <2>2. QED
    BY <2>1 DEF Of
<1> HIDE DEF gone
<1>7. UNCHANGED <<strays, refused>>
  BY <1>3, <1>4, <1>5, <1>6, QueryHarmless
<1>8. /\ ScopeInv' /\ ~Between(r)'
      /\ \A q \in Reqs \ {r} : pc'[q] = pc[q] /\ req'[q] = req[q]
  BY <1>4, EndScope DEF TenancyInv, ScopeInv
<1>9. IdInv' /\ UploadingInv' /\ RemovingInv' /\ ObjectsMatchRows' /\ NoRowsLeft'
  <2> DEFINE new == {}
  <2>1. /\ \A x \in new :
             /\ x.id = serial + 1 /\ serial' = serial + 1
             /\ x.model # "Upload"
             /\ x.organizationId \in Orgs \cup {Null}
             /\ x.model = "AuditLog" \/ x.organizationId \in orgs'
        /\ \A x, y \in new : x = y
        /\ rows' = (rows \ gone) \cup new
    BY <1>4
  <2>2. /\ serial' \in {serial, serial + 1} /\ serial' <= MaxId
        /\ orgs' \subseteq orgs
        /\ \A x \in rows : x.model # "AuditLog" => x.organizationId \in orgs'
        /\ UNCHANGED <<objects, faults>>
    BY <1>4 DEF TenancyInv, NoRowsLeft, IdInv, TenancyAssumption
  <2> HIDE DEF new
  <2>3. QED
    BY <1>2, <1>6, <1>8, <2>1, <2>2, Aside
<1>10. QED
  BY <1>7, <1>8, <1>9 DEF TenancyInv, Isolation, ContextKept

\* An audit entry that a sign-in leaves has a context of its own.
LEMMA AuditInv ==
    ASSUME TenancyAssumption, TenancyInv, NEW r \in Reqs, Audit(r)
    PROVE  TenancyInv'
<1>1. pc[r] = "idle" /\ serial < MaxId /\ serial' = serial + 1
  BY DEF Audit
<1>2. UNCHANGED <<orgs, tokens, objects, als, pc, req, faults>>
  BY DEF Audit, requestVars
<1>3. PICK o \in orgs \cup {Null} :
        LET new == Created(Context(o, o = Null), Row("AuditLog", o, NoKey))
        IN  Query(o, Context(o, o = Null), "create", new) /\ rows' = rows \cup new
  BY DEF Audit, WithTenant
<1>4. o \in Orgs \cup {Null}
  BY DEF TenancyInv, ScopeInv
<1>5. PICK b \in BOOLEAN : b = (o = Null)
  OBVIOUS
<1>5a. o = Null => b
  BY <1>5
<1> DEFINE row == [model |-> "AuditLog", id |-> serial + 1, organizationId |-> o,
                   r2Key |-> NoKey]
           new == {x \in {row} : "AuditLog" = "AuditLog" \/ o \in orgs}
<1>6. Created(Context(o, b), Row("AuditLog", o, NoKey)) = new
  BY <1>4, <1>5a, CreatedIs DEF Row
<1>7. \A x \in new : x = row
  OBVIOUS
<1>8. row.id = serial + 1 /\ row.model = "AuditLog" /\ row.organizationId = o
  OBVIOUS
<1>9. Query(o, Context(o, b), "create", new) /\ rows' = rows \cup new
  BY <1>3, <1>5, <1>6
<1> HIDE DEF row, new
<1>10. UNCHANGED <<strays, refused>>
  BY <1>4, <1>5a, <1>7, <1>8, <1>9, QueryHarmless DEF FORBIDDEN_OPS
<1>11. ScopeInv'
  BY <1>2 DEF TenancyInv, ScopeInv, Scoped
<1>12. ~Between(r) /\ ~Between(r)'
  BY <1>1, <1>2 DEF Between, Uploading, Removing, At
<1>13. IdInv' /\ UploadingInv' /\ RemovingInv' /\ ObjectsMatchRows' /\ NoRowsLeft'
  <2> DEFINE gone == {}
  <2>1. gone \cap Of("Upload", rows) = {} /\ rows' = (rows \ gone) \cup new
    BY <1>9
  <2>2. \A x \in new :
          /\ x.id = serial + 1 /\ serial' = serial + 1
          /\ x.model # "Upload"
          /\ x.organizationId \in Orgs \cup {Null}
          /\ x.model = "AuditLog" \/ x.organizationId \in orgs'
    BY <1>1, <1>4, <1>7, <1>8
  <2>3. /\ \A x, y \in new : x = y
        /\ serial' \in {serial, serial + 1} /\ serial' <= MaxId
        /\ orgs' \subseteq orgs
        /\ \A x \in rows : x.model # "AuditLog" => x.organizationId \in orgs'
        /\ UNCHANGED <<objects, faults>>
        /\ \A q \in Reqs \ {r} : pc'[q] = pc[q] /\ req'[q] = req[q]
    BY <1>1, <1>2, <1>7 DEF TenancyInv, NoRowsLeft, IdInv, TenancyAssumption
  <2> HIDE DEF gone
  <2>4. QED
    BY <1>12, <2>1, <2>2, <2>3, Aside
<1>14. QED
  BY <1>10, <1>11, <1>13 DEF TenancyInv, Isolation, ContextKept

\* A chain that has no request: the worker's snapshot of an organization.
LEMMA SnapshotInv ==
    ASSUME TenancyAssumption, TenancyInv, Snapshot
    PROVE  TenancyInv'
<1>1. PICK o \in orgs :
        Query(o, Context(o, FALSE), "findMany",
              Of("Review", Visible(Context(o, FALSE), "findMany")))
  BY DEF Snapshot, WithTenant
<1>2. o \in Orgs \cup {Null} /\ o # Null
  BY DEF TenancyInv, ScopeInv, TenancyAssumption
<1>3. "findMany" \notin FORBIDDEN_OPS
  BY DEF FORBIDDEN_OPS
<1> DEFINE found == Of("Review", Visible(Context(o, FALSE), "findMany"))
<1>4. \A x \in found : o \in {Null, x.organizationId}
  BY <1>2, <1>3, VisibleIs DEF Of
<1>5. UNCHANGED <<strays, refused>>
  <2>1. Query(o, Context(o, FALSE), "findMany", found)
    BY <1>1
  <2> HIDE DEF found
  <2>2. QED
    BY <1>2, <1>3, <1>4, <2>1, QueryHarmless
<1>6. UNCHANGED vars
  BY <1>5 DEF Snapshot, vars, history
<1>7. QED
  BY <1>6 DEF vars, dataVars, requestVars, history, TenancyInv, ScopeInv, IdInv,
     UploadingInv, RemovingInv, Isolation, ContextKept, ObjectsMatchRows, NoRowsLeft,
     Scoped, Uploading, Removing, At, Key, Of

LEMMA TokenInv ==
    ASSUME TenancyAssumption, TenancyInv, NEW r \in Reqs,
           CreateToken(r) \/ RevokeToken(r)
    PROVE  TenancyInv'
<1>1. pc[r] = "handler"
  BY DEF CreateToken, RevokeToken, At
<1>2. ~Between(r)
  <2>1. req[r].op \notin {"upload", "deleteUpload"}
    BY DEF CreateToken, RevokeToken, At
  <2>2. QED
    BY <2>1 DEF Between, Uploading, Removing, At
<1>3. tokens' \subseteq [organizationId: Orgs \cup {Null}, scopes: Scopes]
  BY DEF CreateToken, RevokeToken, TenancyInv, ScopeInv
<1>4. End(r) /\ UNCHANGED <<orgs, rows, objects, serial, history>>
  BY DEF CreateToken, RevokeToken
<1>5. QED
  BY <1>2, <1>3, <1>4, EndQuiet

\* The deletion of an organization counts in a context of that organization.
LEMMA CountRowsInv ==
    ASSUME TenancyAssumption, TenancyInv, NEW r \in Reqs, CountRows(r)
    PROVE  TenancyInv'
<1>1. pc[r] = "handler" /\ req[r].op = "deleteOrg"
  BY DEF CountRows, At
<1>2. ~Between(r)
  BY <1>1 DEF Between, Uploading, Removing, At
<1>3. PICK o \in Orgs : req[r].id = o /\ req[r].home = o
  BY <1>1 DEF TenancyInv, ScopeInv, Scoped, Unbound
<1>4. o # Null /\ o \in Orgs \cup {Null}
  BY DEF TenancyAssumption
<1> DEFINE found == Visible(Context(o, FALSE), "count") \ Of("AuditLog", rows)
<1>5. /\ Query(o, Context(o, FALSE), "count", found)
      /\ End(r) \/ (Go(r, "drop") /\ UNCHANGED als)
      /\ UNCHANGED <<dataVars, faults>>
  BY <1>3 DEF CountRows, WithTenant
<1>6. "count" \notin FORBIDDEN_OPS
  BY DEF FORBIDDEN_OPS
<1>7. \A x \in found : o \in {Null, x.organizationId}
  BY <1>4, <1>6, VisibleIs
<1> HIDE DEF found
<1>8. UNCHANGED <<strays, refused>>
  BY <1>4, <1>5, <1>6, <1>7, QueryHarmless
<1>9. CASE End(r)
  <2>1. /\ UNCHANGED <<orgs, rows, objects, serial, history>>
        /\ tokens' \subseteq [organizationId: Orgs \cup {Null}, scopes: Scopes]
    BY <1>5, <1>8 DEF dataVars, history, TenancyInv, ScopeInv
  <2>2. QED
    BY <1>2, <1>9, <2>1, EndQuiet
<1>10. CASE Go(r, "drop") /\ UNCHANGED als
  <2>1. /\ pc'[r] = "drop" /\ pc' \in [Reqs -> Steps] /\ req' = req /\ als' = als
        /\ \A q \in Reqs \ {r} : pc'[q] = pc[q]
    BY <1>10 DEF Go, TenancyInv, ScopeInv, Steps
  <2>2. ScopeInv'
    BY <1>1, <1>5, <2>1 DEF TenancyInv, ScopeInv, Scoped, dataVars
  <2>3. ~Between(r)'
    BY <1>1, <2>1 DEF Between, Uploading, Removing, At
  <2>4. IdInv' /\ UploadingInv' /\ RemovingInv' /\ ObjectsMatchRows' /\ NoRowsLeft'
    BY <1>2, <1>5, <2>1, <2>3, Quiet DEF dataVars
  <2>5. QED
    BY <1>8, <2>2, <2>4 DEF TenancyInv, Isolation, ContextKept
<1>11. QED
  BY <1>5, <1>9, <1>10

\* ... and deletes later: what keeps its rows from being orphans is that the
\* deletion itself looks again.
LEMMA DeleteOrgInv ==
    ASSUME TenancyAssumption, TenancyInv, NEW r \in Reqs, DeleteOrg(r)
    PROVE  TenancyInv'
<1>1. pc[r] = "drop" /\ req[r].op = "deleteOrg"
  BY DEF DeleteOrg, At
<1>2. ~Between(r)
  BY <1>1 DEF Between, Uploading, Removing, At
<1>3. /\ End(r) /\ UNCHANGED <<rows, objects, serial, faults, strays, refused>>
      /\ orgs' \subseteq orgs
  BY DEF DeleteOrg, history
<1>4. tokens' \subseteq [organizationId: Orgs \cup {Null}, scopes: Scopes]
  BY DEF DeleteOrg, TenancyInv, ScopeInv
<1>5. /\ ScopeInv' /\ ~Between(r)'
      /\ \A q \in Reqs \ {r} : pc'[q] = pc[q] /\ req'[q] = req[q]
  <2>1. orgs' \subseteq Orgs
    BY <1>3 DEF TenancyInv, ScopeInv
  <2>2. QED
    BY <1>3, <1>4, <2>1, EndScope DEF TenancyInv
<1>6. \A x \in rows : x.model # "AuditLog" => x.organizationId \in orgs'
  BY DEF DeleteOrg, Restricted, TenancyInv, NoRowsLeft
<1>7. IdInv' /\ UploadingInv' /\ RemovingInv' /\ ObjectsMatchRows' /\ NoRowsLeft'
  <2> DEFINE gone == {}  new == {}
  <2>1. /\ gone \cap Of("Upload", rows) = {}
        /\ \A x \in new :
             /\ x.id = serial + 1 /\ serial' = serial + 1
             /\ x.model # "Upload"
             /\ x.organizationId \in Orgs \cup {Null}
             /\ x.model = "AuditLog" \/ x.organizationId \in orgs'
        /\ \A x, y \in new : x = y
        /\ rows' = (rows \ gone) \cup new
    BY <1>3
  <2>2. serial' \in {serial, serial + 1} /\ serial' <= MaxId
    BY <1>3 DEF TenancyInv, IdInv, TenancyAssumption
  <2> HIDE DEF gone, new
  <2>3. QED
    BY <1>2, <1>3, <1>5, <1>6, <2>1, <2>2, Aside
<1>8. QED
  BY <1>3, <1>5, <1>7 DEF TenancyInv, Isolation, ContextKept

-----------------------------------------------------------------------------
(* Uploads and their deletion, which go through two stores.                *)

\* The object of an upload has an id that nobody else has.
LEMMA PutObjectInv ==
    ASSUME TenancyAssumption, TenancyInv, NEW r \in Reqs, PutObject(r)
    PROVE  TenancyInv'
<1> USE DEF TenancyInv
<1>1. /\ pc[r] = "handler" /\ req[r].op = "upload"
      /\ serial \in Nat /\ serial < MaxId /\ serial' = serial + 1 /\ serial' \in 0 .. MaxId
      /\ UNCHANGED <<orgs, tokens, rows, strays, refused>>
  BY DEF PutObject, At, IdInv, TenancyAssumption
<1>2. ~Between(r)
  BY <1>1 DEF Between, Uploading, Removing, At
<1>3. PICK o \in Orgs : req[r].tenantId = o
  BY <1>1, Tenanted DEF requireTenant
<1>4. CASE /\ objects' = objects \cup {<<req[r].tenantId, serial + 1>>}
           /\ pc' = [pc EXCEPT ![r] = "row"]
           /\ req' = [req EXCEPT ![r].id = serial + 1]
           /\ als' = [als EXCEPT ![r] = UploadContext(r, NoContext)]
           /\ UNCHANGED faults
  <2>1. als' = [als EXCEPT ![r] = Context(req[r].tenantId, req[r].isSuper)]
    BY <1>4 DEF UploadContext, WithTenant
  <2>2. "row" \in Steps \ {"idle"} /\ serial + 1 \in Nat
    BY <1>1 DEF Steps
  <2>3. /\ ScopeInv'
        /\ \A q \in Reqs \ {r} : pc'[q] = pc[q] /\ req'[q] = req[q]
        /\ pc'[r] = "row"
        /\ req'[r].tenantId = o /\ req'[r].op = "upload"
    BY <1>1, <1>3, <1>4, <2>1, <2>2, GoScope
  <2>4. req'[r].id = serial + 1
    BY <1>4 DEF ScopeInv, ReqRec
  <2> DEFINE key == <<o, serial + 1>>
  <2>5. objects' = objects \cup {key} /\ Key(r)' = key /\ faults' = faults
    BY <1>3, <1>4, <2>3, <2>4 DEF Key
  <2>6. ~Removing(r)' /\ At(r, "row", "upload")'
    BY <2>3 DEF Removing, At
  <2>7. \A q \in Reqs \ {r} :
          /\ Uploading(q)' <=> Uploading(q)
          /\ Removing(q)' <=> Removing(q)
          /\ At(q, "row", "upload")' <=> At(q, "row", "upload")
          /\ At(q, "row", "deleteUpload")' <=> At(q, "row", "deleteUpload")
          /\ Key(q)' = Key(q)
    BY <2>3 DEF Uploading, Removing, At, Key
  <2>8. IdInv'
    BY <1>1, <2>5 DEF IdInv
  <2>9. \A x \in rows : x.id < serial + 1
    BY <1>1 DEF IdInv
  <2>10. \A k \in objects : k[2] < serial + 1
    BY <1>1 DEF IdInv
  <2>11. \A q \in Reqs : Uploading(q) \/ Removing(q) =>
           req[q].id \in 1 .. serial
    BY DEF UploadingInv, RemovingInv
  <2>12. UploadingInv'
    <3>1. ASSUME NEW q \in Reqs, Uploading(q)'
          PROVE  /\ req'[q].id \in 1 .. serial'
                 /\ Key(q)' \in objects'
                 /\ \A k \in objects' : k[2] = req'[q].id => k = Key(q)'
                 /\ \A x \in rows' : x.id # req'[q].id
                 /\ \A p \in Reqs : p # q /\ (Uploading(p)' \/ Removing(p)') =>
                      req'[p].id # req'[q].id
      <4>1. CASE q = r
        <5>1. \A k \in objects' : k[2] = serial + 1 => k = key
          BY <1>1, <2>5, <2>10
        <5>2. \A p \in Reqs : p # r /\ (Uploading(p)' \/ Removing(p)') =>
                req'[p].id # serial + 1
          BY <1>1, <2>3, <2>7, <2>11
        <5>3. \A x \in rows : x.id # serial + 1
          BY <1>1, <2>9 DEF IdInv
        <5>4. QED
          BY <1>1, <2>4, <2>5, <4>1, <5>1, <5>2, <5>3
      <4>2. CASE q # r
        <5>1. Uploading(q) /\ req'[q] = req[q] /\ Key(q)' = Key(q)
          BY <2>3, <2>7, <3>1, <4>2
        <5>2. req[q].id \in 1 .. serial /\ Key(q) \in objects
          BY <5>1 DEF UploadingInv
        <5>3. \A k \in objects' : k[2] = req[q].id => k = Key(q)
          BY <1>1, <2>5, <5>1, <5>2 DEF UploadingInv
        <5>4. \A x \in rows : x.id # req[q].id
          BY <5>1 DEF UploadingInv
        <5>5. \A p \in Reqs : p # q /\ (Uploading(p)' \/ Removing(p)') =>
                req'[p].id # req[q].id
          <6>1. req'[r].id # req[q].id
            BY <1>1, <2>4, <5>2
          <6>2. \A p \in Reqs \ {r} : p # q /\ (Uploading(p)' \/ Removing(p)') =>
                  req'[p].id # req[q].id
            BY <2>3, <2>7, <5>1 DEF UploadingInv
          <6>3. QED
            BY <6>1, <6>2
        <5>6. QED
          BY <1>1, <2>5, <5>1, <5>2, <5>3, <5>4, <5>5
      <4>3. QED
        BY <4>1, <4>2
    <3>2. QED
      BY <3>1 DEF UploadingInv
  <2>13. RemovingInv'
    <3>1. ASSUME NEW q \in Reqs, Removing(q)'
          PROVE  /\ req'[q].id \in 1 .. serial'
                 /\ \A x \in rows' : x.id = req'[q].id =>
                      x.model = "Upload" /\ x.organizationId = req'[q].tenantId
                 /\ pc'[q] = "row" => Key(q)' \notin objects' \/ "remove" \in faults'
      <4>1. /\ q # r /\ Removing(q) /\ req'[q] = req[q] /\ pc'[q] = pc[q]
            /\ Key(q)' = Key(q)
        BY <2>3, <2>6, <2>7, <3>1
      <4>2. req[q].id \in 1 .. serial
        BY <4>1 DEF RemovingInv
      <4>3. Key(q) # key
        BY <1>1, <4>2 DEF Key
      <4>4. pc[q] = "row" => Key(q) \notin objects \/ "remove" \in faults
        BY <4>1 DEF RemovingInv
      <4>5. \A x \in rows : x.id = req[q].id =>
              x.model = "Upload" /\ x.organizationId = req[q].tenantId
        BY <4>1 DEF RemovingInv
      <4>6. QED
        BY <1>1, <2>5, <4>1, <4>2, <4>3, <4>4, <4>5
    <3>2. QED
      BY <3>1 DEF RemovingInv
  <2>14. ObjectsMatchRows'
    <3>1. ASSUME NEW x \in Of("Upload", rows')
          PROVE  /\ x.r2Key = <<x.organizationId, x.id>>
                 /\ \/ x.r2Key \in objects'
                    \/ "delete" \in faults'
                    \/ \E q \in Reqs : At(q, "row", "deleteUpload")' /\ req'[q].id = x.id
      <4>1. x \in Of("Upload", rows)
        BY <1>1 DEF Of
      <4>2. \A q \in Reqs : At(q, "row", "deleteUpload") =>
              q # r /\ At(q, "row", "deleteUpload")' /\ req'[q].id = req[q].id
        BY <1>2, <2>3, <2>7 DEF Between, Removing
      <4>3. QED
        BY <2>5, <4>1, <4>2 DEF ObjectsMatchRows
    <3>2. ASSUME {"insert", "remove"} \cap faults' = {}, NEW k \in objects'
          PROVE  \/ \E x \in Of("Upload", rows') : x.r2Key = k
                 \/ \E q \in Reqs : At(q, "row", "upload")' /\ req'[q].id = k[2]
                 \/ k[1] \notin orgs'
      <4>1. CASE k = key
        BY <2>4, <2>6, <4>1
      <4>2. CASE k \in objects
        <5>1. \A q \in Reqs : At(q, "row", "upload") =>
                q # r /\ At(q, "row", "upload")' /\ req'[q].id = req[q].id
          BY <1>2, <2>3, <2>7 DEF Between, Uploading
        <5>2. Of("Upload", rows') = Of("Upload", rows)
          BY <1>1 DEF Of
        <5>3. QED
          BY <1>1, <2>5, <3>2, <4>2, <5>1, <5>2 DEF ObjectsMatchRows
      <4>3. QED
        BY <2>5, <4>1, <4>2
    <3>3. QED
      BY <3>1, <3>2 DEF ObjectsMatchRows
  <2>15. Isolation' /\ ContextKept' /\ NoRowsLeft'
    BY <1>1 DEF Isolation, ContextKept, NoRowsLeft
  <2>16. QED
    BY <2>3, <2>8, <2>12, <2>13, <2>14, <2>15
<1>5. CASE Fails("put") /\ End(r) /\ UNCHANGED objects
  <2>1. /\ faults \subseteq faults' /\ faults' \subseteq faults \cup {"put"}
        /\ faults' \subseteq FaultKinds
    BY <1>5 DEF Fails, IdInv
  <2>2. /\ ScopeInv' /\ ~Between(r)'
        /\ \A q \in Reqs \ {r} : pc'[q] = pc[q] /\ req'[q] = req[q]
    <3>1. /\ orgs' \subseteq Orgs
          /\ tokens' \subseteq [organizationId: Orgs \cup {Null}, scopes: Scopes]
      BY <1>1 DEF ScopeInv
    <3>2. QED
      BY <1>5, <3>1, EndScope
  <2>3. serial' \in {serial, serial + 1}
    BY <1>1
  <2>4. IdInv' /\ UploadingInv' /\ RemovingInv' /\ ObjectsMatchRows' /\ NoRowsLeft'
    <3> DEFINE gone == {}  new == {}
    <3>1. /\ gone \cap Of("Upload", rows) = {}
          /\ \A x \in new :
               /\ x.id = serial + 1 /\ serial' = serial + 1
               /\ x.model # "Upload"
               /\ x.organizationId \in Orgs \cup {Null}
               /\ x.model = "AuditLog" \/ x.organizationId \in orgs'
          /\ \A x, y \in new : x = y
          /\ rows' = (rows \ gone) \cup new
      BY <1>1
    <3>2. /\ orgs' \subseteq orgs /\ serial' <= MaxId /\ objects' = objects
          /\ \A x \in rows : x.model # "AuditLog" => x.organizationId \in orgs'
      BY <1>1, <1>5 DEF NoRowsLeft, TenancyAssumption
    <3> HIDE DEF gone, new
    <3>3. QED
      BY <1>2, <2>1, <2>2, <2>3, <3>1, <3>2, Aside
  <2>5. QED
    BY <1>1, <2>2, <2>4 DEF Isolation, ContextKept
<1>6. QED
  BY <1>1, <1>4, <1>5 DEF PutObject, PutFailed

\* The row of an upload refers to the object that was put for it; if it fails
\* the object stays.
LEMMA InsertUploadInv ==
    ASSUME TenancyAssumption, TenancyInv, NEW r \in Reqs, InsertUpload(r)
    PROVE  TenancyInv'
<1> USE DEF TenancyInv
<1>1. /\ pc[r] = "row" /\ req[r].op = "upload" /\ Uploading(r) /\ ~Removing(r)
      /\ End(r) /\ UNCHANGED <<orgs, tokens, objects, serial>>
  BY DEF InsertUpload, Uploading, Removing, At
<1>2. PICK o \in Orgs, b \in BOOLEAN :
        req[r].tenantId = o /\ req[r].home = o /\ als[r] = Context(o, b)
  BY <1>1, Tenanted DEF requireTenant
<1>3. PICK i \in 1 .. serial : req[r].id = i
  BY <1>1 DEF UploadingInv
<1>4. o # Null /\ o \in Orgs \cup {Null} /\ serial \in Nat
  BY DEF TenancyAssumption, IdInv
<1> DEFINE row == [model |-> "Upload", id |-> i, organizationId |-> o, r2Key |-> <<o, i>>]
           all == {x \in {row} : "Upload" = "AuditLog" \/ o \in orgs}
<1>5. row.model = "Upload" /\ row.id = i /\ row.organizationId = o /\ row.r2Key = <<o, i>>
  OBVIOUS
<1>6. PICK new \in SUBSET {row} :
        /\ rows' = rows \cup new
        /\ new # {} => o \in orgs
        /\ \/ faults' = faults /\ (o \in orgs => row \in new)
           \/ faults' = faults \cup {"insert"} /\ faults' \subseteq FaultKinds
        /\ UNCHANGED <<strays, refused>>
  <2>1. CASE /\ Query(req[r].home, als[r], "create",
                      Created(als[r], [Row("Upload", req[r].tenantId,
                                           <<req[r].tenantId, req[r].id>>)
                                         EXCEPT !.id = req[r].id]))
             /\ rows' = rows \cup
                        Created(als[r], [Row("Upload", req[r].tenantId,
                                             <<req[r].tenantId, req[r].id>>)
                                           EXCEPT !.id = req[r].id])
             /\ UNCHANGED faults
    <3>1. [Row("Upload", req[r].tenantId, <<req[r].tenantId, req[r].id>>)
             EXCEPT !.id = req[r].id] = row
      BY <1>2, <1>3 DEF Row
    <3>2. Created(Context(o, b), row) = all
      BY <1>4, CreatedIs
    <3>3. Query(o, Context(o, b), "create", all) /\ rows' = rows \cup all
      BY <1>2, <2>1, <3>1, <3>2
    <3>4. \A x \in all : x = row /\ o \in orgs
      OBVIOUS
    <3>5. o \in orgs => row \in all
      OBVIOUS
    <3>6. \A x \in all : o \in {Null, x.organizationId}
      BY <1>5, <3>4
    <3> HIDE DEF row, all
    <3>7. UNCHANGED <<strays, refused>>
      BY <1>4, <3>3, <3>6, QueryHarmless DEF FORBIDDEN_OPS
    <3>8. QED
      BY <2>1, <3>3, <3>4, <3>5, <3>7
  <2>2. CASE Fails("insert") /\ UNCHANGED <<rows, strays, refused>>
    <3>1. faults' = faults \cup {"insert"} /\ faults' \subseteq FaultKinds
      BY <2>2 DEF Fails, IdInv
    <3>2. rows' = rows \cup {}
      BY <2>2
    <3>3. QED
      BY <2>2, <3>1, <3>2
  <2>3. QED
    BY <2>1, <2>2 DEF InsertUpload
<1> HIDE DEF row, all
<1>7. \A x \in new : x = row
  BY <1>6
<1>8. /\ ScopeInv' /\ ~Between(r)'
      /\ \A q \in Reqs \ {r} : pc'[q] = pc[q] /\ req'[q] = req[q]
  <2>1. /\ orgs' \subseteq Orgs
        /\ tokens' \subseteq [organizationId: Orgs \cup {Null}, scopes: Scopes]
    BY <1>1 DEF ScopeInv
  <2>2. QED
    BY <1>1, <2>1, EndScope
<1>9. /\ \A x \in rows : x.id # i
      /\ \A k \in objects : k[2] = i => k = <<o, i>>
      /\ <<o, i>> \in objects
      /\ \A q \in Reqs : q # r /\ (Uploading(q) \/ Removing(q)) => req[q].id # i
  BY <1>1, <1>2, <1>3 DEF UploadingInv, Key
<1>10. \A q \in Reqs :
         /\ Uploading(q)' => q # r /\ Uploading(q)
         /\ Removing(q)' => q # r /\ Removing(q)
  BY <1>8 DEF Between, Uploading, Removing, At
<1>11. IdInv'
  <2>1. \A x, y \in rows' : x.id = y.id => x = y
    BY <1>5, <1>6, <1>7, <1>9 DEF IdInv
  <2>2. \A x \in rows' : x.id \in 1 .. serial /\ x.organizationId \in Orgs \cup {Null}
    BY <1>5, <1>6, <1>7 DEF IdInv
  <2>3. faults' \subseteq FaultKinds
    BY <1>6 DEF IdInv
  <2>4. QED
    BY <1>1, <2>1, <2>2, <2>3 DEF IdInv
<1>12. UploadingInv'
  <2>1. ASSUME NEW q \in Reqs, Uploading(q)'
        PROVE  /\ req'[q].id \in 1 .. serial'
               /\ Key(q)' \in objects'
               /\ \A k \in objects' : k[2] = req'[q].id => k = Key(q)'
               /\ \A x \in rows' : x.id # req'[q].id
               /\ \A p \in Reqs : p # q /\ (Uploading(p)' \/ Removing(p)') =>
                    req'[p].id # req'[q].id
    <3>1. q # r /\ Uploading(q) /\ req'[q] = req[q] /\ Key(q)' = Key(q)
      BY <1>8, <1>10, <2>1 DEF Key
    <3>2. req[q].id \in 1 .. serial /\ Key(q) \in objects
      BY <3>1 DEF UploadingInv
    <3>3. \A k \in objects : k[2] = req[q].id => k = Key(q)
      BY <3>1 DEF UploadingInv
    <3>4. \A x \in rows' : x.id # req[q].id
      BY <1>5, <1>6, <1>7, <1>9, <3>1 DEF UploadingInv
    <3>5. \A p \in Reqs : p # q /\ (Uploading(p)' \/ Removing(p)') =>
            req'[p].id # req[q].id
      BY <1>8, <1>10, <3>1 DEF UploadingInv
    <3>6. QED
      BY <1>1, <3>1, <3>2, <3>3, <3>4, <3>5
  <2>2. QED
    BY <2>1 DEF UploadingInv
<1>13. RemovingInv'
  <2>1. ASSUME NEW q \in Reqs, Removing(q)'
        PROVE  /\ req'[q].id \in 1 .. serial'
               /\ \A x \in rows' : x.id = req'[q].id =>
                    x.model = "Upload" /\ x.organizationId = req'[q].tenantId
               /\ pc'[q] = "row" => Key(q)' \notin objects' \/ "remove" \in faults'
    <3>1. q # r /\ Removing(q) /\ req'[q] = req[q] /\ pc'[q] = pc[q] /\ Key(q)' = Key(q)
      BY <1>8, <1>10, <2>1 DEF Key
    <3>2. req[q].id \in 1 .. serial /\ req[q].id # i
      BY <1>9, <3>1 DEF RemovingInv
    <3>3. \A x \in rows : x.id = req[q].id =>
            x.model = "Upload" /\ x.organizationId = req[q].tenantId
      BY <3>1 DEF RemovingInv
    <3>4. pc[q] = "row" => Key(q) \notin objects \/ "remove" \in faults
      BY <3>1 DEF RemovingInv
    <3>5. \A x \in rows' : x.id = req[q].id => x \in rows
      BY <1>5, <1>6, <1>7, <3>2
    <3>6. QED
      BY <1>1, <1>6, <3>1, <3>2, <3>3, <3>4, <3>5
  <2>2. QED
    BY <2>1 DEF RemovingInv
<1>14. ObjectsMatchRows'
  <2>1. Of("Upload", rows) \subseteq Of("Upload", rows')
    BY <1>6 DEF Of
  <2>2. ASSUME NEW x \in Of("Upload", rows')
        PROVE  /\ x.r2Key = <<x.organizationId, x.id>>
               /\ \/ x.r2Key \in objects'
                  \/ "delete" \in faults'
                  \/ \E q \in Reqs : At(q, "row", "deleteUpload")' /\ req'[q].id = x.id
    <3>1. CASE x = row
      BY <1>1, <1>5, <1>9, <3>1
    <3>2. CASE x \in Of("Upload", rows)
      <4>1. \A q \in Reqs : At(q, "row", "deleteUpload") =>
              q # r /\ At(q, "row", "deleteUpload")' /\ req'[q].id = req[q].id
        BY <1>1, <1>8 DEF At
      <4>2. "delete" \in faults => "delete" \in faults'
        BY <1>6
      <4>3. QED
        BY <1>1, <3>2, <4>1, <4>2 DEF ObjectsMatchRows
    <3>3. QED
      BY <1>6, <1>7, <3>1, <3>2 DEF Of
  <2>3. ASSUME {"insert", "remove"} \cap faults' = {}, NEW k \in objects'
        PROVE  \/ \E x \in Of("Upload", rows') : x.r2Key = k
               \/ \E q \in Reqs : At(q, "row", "upload")' /\ req'[q].id = k[2]
               \/ k[1] \notin orgs'
    <3>1. faults' = faults /\ (o \in orgs => row \in new)
      BY <1>6, <2>3
    <3>2. CASE k[2] = i
      <4>1. k = <<o, i>>
        BY <1>1, <1>9, <3>2
      <4>2. CASE o \in orgs
        <5>1. row \in Of("Upload", rows') /\ row.r2Key = k
          BY <1>5, <1>6, <3>1, <4>1, <4>2 DEF Of
        <5>2. QED
          BY <5>1
      <4>3. CASE o \notin orgs
        BY <1>1, <4>1, <4>3
      <4>4. QED
        BY <4>2, <4>3
    <3>3. CASE k[2] # i
      <4>1. \A q \in Reqs : At(q, "row", "upload") /\ req[q].id = k[2] =>
              q # r /\ At(q, "row", "upload")' /\ req'[q].id = k[2]
        BY <1>3, <1>8, <3>3 DEF At
      <4>2. QED
        BY <1>1, <2>1, <2>3, <3>1, <4>1 DEF ObjectsMatchRows
    <3>4. QED
      BY <3>2, <3>3
  <2>4. QED
    BY <2>2, <2>3 DEF ObjectsMatchRows
<1>15. NoRowsLeft'
  BY <1>1, <1>5, <1>6, <1>7 DEF NoRowsLeft
<1>16. Isolation' /\ ContextKept'
  BY <1>6 DEF Isolation, ContextKept
<1>17. QED
  BY <1>8, <1>11, <1>12, <1>13, <1>14, <1>15, <1>16

\* A request that finds the upload it is to delete found it in its own
\* organization.
LEMMA FindUploadInv ==
    ASSUME TenancyAssumption, TenancyInv, NEW r \in Reqs, FindUpload(r)
    PROVE  TenancyInv'
<1> USE DEF TenancyInv
<1>1. /\ pc[r] = "handler" /\ req[r].op = "deleteUpload"
      /\ UNCHANGED <<orgs, tokens, rows, objects, serial, faults>>
  BY DEF FindUpload, At, dataVars
<1>2. ~Between(r)
  BY <1>1 DEF Between, Uploading, Removing, At
<1>3. PICK o \in Orgs, b \in BOOLEAN :
        /\ req[r].tenantId = o /\ req[r].isSuper = b
        /\ req[r].home = o /\ als[r] = Context(o, b)
  BY <1>1, Tenanted DEF requireTenant
<1>4. o # Null /\ o \in Orgs \cup {Null} /\ "findFirst" \notin FORBIDDEN_OPS
  BY DEF TenancyAssumption, FORBIDDEN_OPS
<1> DEFINE found == {x \in Of("Upload", Visible(Context(o, b), "findFirst")) : x.id = req[r].id}
<1>5. UploadContext(r, als[r]) = Context(o, b)
  BY <1>3 DEF UploadContext, WithTenant
<1>6. Query(o, Context(o, b), "findFirst", found)
  BY <1>3, <1>5 DEF FindUpload
<1>7. \A x \in found : x \in rows /\ x.model = "Upload" /\ x.organizationId = o /\ x.id = req[r].id
  BY <1>4, VisibleIs DEF Of
<1>8. UNCHANGED <<strays, refused>>
  <2> HIDE DEF found
  <2>1. QED
    BY <1>4, <1>6, <1>7, QueryHarmless
<1>9. CASE End(r)
  <2>1. /\ UNCHANGED <<orgs, rows, objects, serial, history>>
        /\ tokens' \subseteq [organizationId: Orgs \cup {Null}, scopes: Scopes]
    BY <1>1, <1>8 DEF history, ScopeInv
  <2>2. QED
    BY <1>2, <1>9, <2>1, EndQuiet
<1>10. CASE found # {} /\ Go(r, "object") /\ als' = [als EXCEPT ![r] = Context(o, b)]
  <2>1. PICK y \in rows : y.model = "Upload" /\ y.organizationId = o /\ y.id = req[r].id
    BY <1>7, <1>10
  <2> HIDE DEF found
  <2>2. /\ ScopeInv'
        /\ \A q \in Reqs \ {r} : pc'[q] = pc[q] /\ req'[q] = req[q]
        /\ pc'[r] = "object"
    <3>1. pc' = [pc EXCEPT ![r] = "object"] /\ req' = req
      BY <1>10 DEF Go
    <3>2. als' = [als EXCEPT ![r] = Context(req[r].tenantId, req[r].isSuper)]
      BY <1>3, <1>10
    <3>3. "object" \in Steps \ {"idle"} /\ serial \in Nat
      BY DEF Steps, IdInv, TenancyAssumption
    <3>4. QED
      BY <1>1, <3>1, <3>2, <3>3, GoScope
  <2>3. req' = req
    BY <1>10 DEF Go
  <2>4. IdInv'
    BY <1>1 DEF IdInv
  <2>5. \A q \in Reqs :
          /\ Uploading(q)' => q # r /\ Uploading(q)
          /\ Removing(q)' => q = r \/ Removing(q)
          /\ Key(q)' = Key(q)
    BY <1>1, <2>2, <2>3 DEF Uploading, Removing, At, Key
  <2>6. UploadingInv'
    <3>1. ASSUME NEW q \in Reqs, Uploading(q)'
          PROVE  /\ req'[q].id \in 1 .. serial'
                 /\ Key(q)' \in objects'
                 /\ \A k \in objects' : k[2] = req'[q].id => k = Key(q)'
                 /\ \A x \in rows' : x.id # req'[q].id
                 /\ \A p \in Reqs : p # q /\ (Uploading(p)' \/ Removing(p)') =>
                      req'[p].id # req'[q].id
      <4>1. Uploading(q) /\ req'[q] = req[q] /\ Key(q)' = Key(q)
        BY <2>3, <2>5, <3>1
      <4>2. /\ req[q].id \in 1 .. serial /\ Key(q) \in objects
            /\ \A k \in objects : k[2] = req[q].id => k = Key(q)
            /\ \A x \in rows : x.id # req[q].id
        BY <4>1 DEF UploadingInv
      <4>3. \A p \in Reqs : p # q /\ (Uploading(p)' \/ Removing(p)') =>
              req[p].id # req[q].id
        BY <2>1, <2>5, <4>1, <4>2 DEF UploadingInv
      <4>4. QED
        BY <1>1, <2>3, <4>1, <4>2, <4>3
    <3>2. QED
      BY <3>1 DEF UploadingInv
  <2>7. RemovingInv'
    <3>1. ASSUME NEW q \in Reqs, Removing(q)'
          PROVE  /\ req'[q].id \in 1 .. serial'
                 /\ \A x \in rows' : x.id = req'[q].id =>
                      x.model = "Upload" /\ x.organizationId = req'[q].tenantId
                 /\ pc'[q] = "row" => Key(q)' \notin objects' \/ "remove" \in faults'
      <4>1. CASE q = r
        <5>1. req[r].id \in 1 .. serial
          BY <2>1 DEF IdInv
        <5>2. \A x \in rows : x.id = req[r].id => x = y
          BY <2>1 DEF IdInv
        <5>3. QED
          BY <1>1, <1>3, <2>1, <2>2, <2>3, <4>1, <5>1, <5>2
      <4>2. CASE q # r
        <5>1. Removing(q) /\ pc'[q] = pc[q]
          BY <2>2, <2>5, <3>1, <4>2
        <5>2. QED
          BY <1>1, <2>3, <2>5, <5>1 DEF RemovingInv
      <4>3. QED
        BY <4>1, <4>2
    <3>2. QED
      BY <3>1 DEF RemovingInv
  <2>8. ObjectsMatchRows'
    <3>1. \A q \in Reqs :
            /\ At(q, "row", "deleteUpload") => At(q, "row", "deleteUpload")'
            /\ At(q, "row", "upload") => At(q, "row", "upload")'
      BY <1>1, <2>2, <2>3 DEF At
    <3>2. Of("Upload", rows') = Of("Upload", rows)
      BY <1>1 DEF Of
    <3>3. QED
      BY <1>1, <2>3, <3>1, <3>2 DEF ObjectsMatchRows
  <2>9. Isolation' /\ ContextKept' /\ NoRowsLeft'
    BY <1>1, <1>8 DEF Isolation, ContextKept, NoRowsLeft
  <2>10. QED
    BY <2>2, <2>4, <2>6, <2>7, <2>8, <2>9
<1>11. QED
  BY <1>3, <1>5, <1>9, <1>10 DEF FindUpload

\* While its row is there an object goes only under a deletion of that row.
LEMMA RemoveObjectInv ==
    ASSUME TenancyAssumption, TenancyInv, NEW r \in Reqs, RemoveObject(r)
    PROVE  TenancyInv'
<1> USE DEF TenancyInv
<1>1. /\ pc[r] = "object" /\ req[r].op = "deleteUpload" /\ Removing(r)
      /\ pc' = [pc EXCEPT ![r] = "row"] /\ req' = req
      /\ UNCHANGED <<orgs, tokens, rows, serial, als, strays, refused>>
  BY DEF RemoveObject, At, Go, Removing
<1>2. /\ ScopeInv'
      /\ \A q \in Reqs \ {r} : pc'[q] = pc[q] /\ req'[q] = req[q]
      /\ pc'[r] = "row"
  <2>1. "row" \in Steps \ {"idle"} /\ serial \in Nat
    BY DEF Steps, IdInv, TenancyAssumption
  <2>2. QED
    BY <1>1, <2>1, GoScope
<1>3. /\ \/ objects' = objects \ {Key(r)} /\ faults' = faults
         \/ objects' = objects /\ faults' = faults \cup {"remove"}
      /\ faults' \subseteq FaultKinds
  BY DEF RemoveObject, Fails, Key, IdInv
<1>4. IdInv'
  BY <1>1, <1>3 DEF IdInv
<1>5. \A q \in Reqs :
        /\ Uploading(q)' => q # r /\ Uploading(q)
        /\ Removing(q)' => Removing(q)
        /\ Key(q)' = Key(q)
  BY <1>1, <1>2 DEF Uploading, Removing, At, Key
<1>6. UploadingInv'
  <2>1. ASSUME NEW q \in Reqs, Uploading(q)'
        PROVE  /\ req'[q].id \in 1 .. serial'
               /\ Key(q)' \in objects'
               /\ \A k \in objects' : k[2] = req'[q].id => k = Key(q)'
               /\ \A x \in rows' : x.id # req'[q].id
               /\ \A p \in Reqs : p # q /\ (Uploading(p)' \/ Removing(p)') =>
                    req'[p].id # req'[q].id
    <3>1. Uploading(q) /\ q # r /\ Key(q)' = Key(q)
      BY <1>5, <2>1
    <3>2. /\ req[q].id \in 1 .. serial /\ Key(q) \in objects
          /\ \A k \in objects : k[2] = req[q].id => k = Key(q)
          /\ \A x \in rows : x.id # req[q].id
      BY <3>1 DEF UploadingInv
    <3>3. req[r].id # req[q].id
      BY <1>1, <3>1 DEF UploadingInv
    <3>4. Key(r) # Key(q)
      BY <3>3 DEF Key
    <3>5. \A p \in Reqs : p # q /\ (Uploading(p)' \/ Removing(p)') =>
            req[p].id # req[q].id
      BY <1>5, <3>1 DEF UploadingInv
    <3>6. QED
      BY <1>1, <1>3, <3>1, <3>2, <3>4, <3>5
  <2>2. QED
    BY <2>1 DEF UploadingInv
<1>7. RemovingInv'
  <2>1. ASSUME NEW q \in Reqs, Removing(q)'
        PROVE  /\ req'[q].id \in 1 .. serial'
               /\ \A x \in rows' : x.id = req'[q].id =>
                    x.model = "Upload" /\ x.organizationId = req'[q].tenantId
               /\ pc'[q] = "row" => Key(q)' \notin objects' \/ "remove" \in faults'
    <3>1. Removing(q) /\ Key(q)' = Key(q)
      BY <1>5, <2>1
    <3>2. /\ req[q].id \in 1 .. serial
          /\ \A x \in rows : x.id = req[q].id =>
               x.model = "Upload" /\ x.organizationId = req[q].tenantId
          /\ pc[q] = "row" => Key(q) \notin objects \/ "remove" \in faults
      BY <3>1 DEF RemovingInv
    <3>3. pc'[q] = "row" => Key(q) \notin objects' \/ "remove" \in faults'
      BY <1>2, <1>3, <3>2
    <3>4. QED
      BY <1>1, <3>1, <3>2, <3>3
  <2>2. QED
    BY <2>1 DEF RemovingInv
<1>8. ObjectsMatchRows'
  <2>1. \A q \in Reqs :
          /\ At(q, "row", "deleteUpload") => At(q, "row", "deleteUpload")'
          /\ At(q, "row", "upload") => At(q, "row", "upload")'
    BY <1>1, <1>2 DEF At
  <2>2. Of("Upload", rows') = Of("Upload", rows)
    BY <1>1 DEF Of
  <2>3. At(r, "row", "deleteUpload")'
    BY <1>1, <1>2 DEF At
  <2>4. ASSUME NEW x \in Of("Upload", rows)
        PROVE  /\ x.r2Key = <<x.organizationId, x.id>>
               /\ \/ x.r2Key \in objects'
                  \/ "delete" \in faults'
                  \/ \E q \in Reqs : At(q, "row", "deleteUpload")' /\ req'[q].id = x.id
    <3>1. /\ x.r2Key = <<x.organizationId, x.id>>
          /\ \/ x.r2Key \in objects
             \/ "delete" \in faults
             \/ \E q \in Reqs : At(q, "row", "deleteUpload") /\ req[q].id = x.id
      BY DEF ObjectsMatchRows
    <3>2. CASE x.r2Key = Key(r)
      <4>1. req'[r].id = x.id
        BY <1>1, <3>1, <3>2 DEF Key
      <4>2. QED
        BY <2>3, <3>1, <4>1
    <3>3. CASE x.r2Key # Key(r)
      BY <1>1, <1>3, <2>1, <3>1, <3>3
    <3>4. QED
      BY <3>2, <3>3
  <2>5. ASSUME {"insert", "remove"} \cap faults' = {}, NEW k \in objects'
        PROVE  \/ \E x \in Of("Upload", rows) : x.r2Key = k
               \/ \E q \in Reqs : At(q, "row", "upload")' /\ req'[q].id = k[2]
               \/ k[1] \notin orgs'
    BY <1>1, <1>3, <2>1, <2>5 DEF ObjectsMatchRows
  <2>6. QED
    BY <2>2, <2>4, <2>5 DEF ObjectsMatchRows
<1>9. Isolation' /\ ContextKept' /\ NoRowsLeft'
  BY <1>1 DEF Isolation, ContextKept, NoRowsLeft
<1>10. QED
  BY <1>2, <1>4, <1>6, <1>7, <1>8, <1>9

\* The row goes after its object.
LEMMA DeleteRowInv ==
    ASSUME TenancyAssumption, TenancyInv, NEW r \in Reqs, DeleteRow(r)
    PROVE  TenancyInv'
<1> USE DEF TenancyInv
<1>1. /\ pc[r] = "row" /\ req[r].op = "deleteUpload" /\ Removing(r) /\ ~Uploading(r)
      /\ End(r) /\ UNCHANGED <<orgs, tokens, objects, serial>>
  BY DEF DeleteRow, At, Removing, Uploading
<1>2. PICK o \in Orgs, b \in BOOLEAN :
        req[r].tenantId = o /\ req[r].home = o /\ als[r] = Context(o, b)
  BY <1>1, Tenanted DEF requireTenant
<1>3. o # Null /\ o \in Orgs \cup {Null} /\ "deleteMany" \notin FORBIDDEN_OPS
  BY DEF TenancyAssumption, FORBIDDEN_OPS
<1> DEFINE gone == {x \in Of("Upload", Visible(Context(o, b), "deleteMany")) :
                      x.id = req[r].id}
<1>4. gone = {x \in rows : x.model = "Upload" /\ x.organizationId = o /\ x.id = req[r].id}
  BY <1>3, VisibleIs DEF Of
<1>5. \A x \in rows : x.id = req[r].id => x.model = "Upload" /\ x.organizationId = o
  BY <1>1, <1>2 DEF RemovingInv
<1>6. \A x \in rows : x \in gone <=> x.id = req[r].id
  BY <1>4, <1>5
<1>7. gone \subseteq rows /\ \A x \in gone : o \in {Null, x.organizationId}
  BY <1>4
<1>8. \/ Query(o, Context(o, b), "deleteMany", gone) /\ rows' = rows \ gone /\ UNCHANGED faults
      \/ Fails("delete") /\ UNCHANGED <<rows, strays, refused>>
  BY <1>2 DEF DeleteRow
<1> HIDE DEF gone
<1>9. /\ UNCHANGED <<strays, refused>>
      /\ \/ rows' = rows \ gone /\ faults' = faults
         \/ rows' = rows /\ faults' = faults \cup {"delete"} /\ faults' \subseteq FaultKinds
  <2>1. CASE Query(o, Context(o, b), "deleteMany", gone) /\ rows' = rows \ gone /\ UNCHANGED faults
    BY <1>3, <1>7, <2>1, QueryHarmless
  <2>2. CASE Fails("delete") /\ UNCHANGED <<rows, strays, refused>>
    BY <2>2 DEF Fails, IdInv
  <2>3. QED
    BY <1>8, <2>1, <2>2
<1>10. /\ ScopeInv' /\ ~Between(r)'
       /\ \A q \in Reqs \ {r} : pc'[q] = pc[q] /\ req'[q] = req[q]
  <2>1. /\ orgs' \subseteq Orgs
        /\ tokens' \subseteq [organizationId: Orgs \cup {Null}, scopes: Scopes]
    BY <1>1 DEF ScopeInv
  <2>2. QED
    BY <1>1, <2>1, EndScope
<1>11. \A q \in Reqs :
         /\ Uploading(q)' => q # r /\ Uploading(q) /\ req'[q] = req[q] /\ Key(q)' = Key(q)
         /\ Removing(q)' => /\ q # r /\ Removing(q)
                            /\ req'[q] = req[q] /\ pc'[q] = pc[q] /\ Key(q)' = Key(q)
  BY <1>10 DEF Between, Uploading, Removing, At, Key
<1>12. IdInv'
  BY <1>1, <1>9 DEF IdInv
<1>13. UploadingInv'
  <2>1. ASSUME NEW q \in Reqs, Uploading(q)'
        PROVE  /\ req[q].id \in 1 .. serial
               /\ Key(q) \in objects
               /\ \A k \in objects : k[2] = req[q].id => k = Key(q)
               /\ \A x \in rows' : x.id # req[q].id
               /\ \A p \in Reqs : p # q /\ (Uploading(p)' \/ Removing(p)') =>
                    req[p].id # req[q].id
    BY <1>9, <1>11, <2>1 DEF UploadingInv
  <2>2. QED
    BY <1>1, <1>11, <2>1 DEF UploadingInv
<1>14. RemovingInv'
  <2>1. ASSUME NEW q \in Reqs, Removing(q)'
        PROVE  /\ req[q].id \in 1 .. serial
               /\ \A x \in rows' : x.id = req[q].id =>
                    x.model = "Upload" /\ x.organizationId = req[q].tenantId
               /\ pc[q] = "row" => Key(q) \notin objects \/ "remove" \in faults'
    BY <1>9, <1>11, <2>1 DEF RemovingInv
  <2>2. QED
    BY <1>1, <1>11, <2>1 DEF RemovingInv
<1>15. ObjectsMatchRows'
  <2>1. ASSUME NEW x \in Of("Upload", rows')
        PROVE  /\ x.r2Key = <<x.organizationId, x.id>>
               /\ \/ x.r2Key \in objects'
                  \/ "delete" \in faults'
                  \/ \E q \in Reqs : At(q, "row", "deleteUpload")' /\ req'[q].id = x.id
    <3>1. x \in Of("Upload", rows)
      BY <1>9 DEF Of
    <3>2. /\ x.r2Key = <<x.organizationId, x.id>>
          /\ \/ x.r2Key \in objects
             \/ "delete" \in faults
             \/ \E q \in Reqs : At(q, "row", "deleteUpload") /\ req[q].id = x.id
      BY <3>1 DEF ObjectsMatchRows
    <3>3. x.id = req[r].id => "delete" \in faults'
      BY <1>6, <1>9, <3>1 DEF Of
    <3>4. \A q \in Reqs : At(q, "row", "deleteUpload") /\ q # r =>
            At(q, "row", "deleteUpload")' /\ req'[q].id = req[q].id
      BY <1>10 DEF At
    <3>5. QED
      BY <1>1, <1>9, <3>2, <3>3, <3>4
  <2>2. ASSUME {"insert", "remove"} \cap faults' = {}, NEW k \in objects'
        PROVE  \/ \E x \in Of("Upload", rows') : x.r2Key = k
               \/ \E q \in Reqs : At(q, "row", "upload")' /\ req'[q].id = k[2]
               \/ k[1] \notin orgs'
    <3>1. {"insert", "remove"} \cap faults = {} /\ k \in objects
      BY <1>1, <1>9, <2>2
    <3>2. CASE \E x \in Of("Upload", rows) : x.r2Key = k
      <4>1. PICK x \in Of("Upload", rows) : x.r2Key = k
        BY <3>2
      <4>2. x \in rows /\ x.model = "Upload" /\ k = <<x.organizationId, x.id>>
        BY <4>1 DEF Of, ObjectsMatchRows
      <4>3. x.id # req[r].id
        <5>1. SUFFICES ASSUME x.id = req[r].id PROVE FALSE
          OBVIOUS
        <5>2. k = Key(r)
          BY <1>2, <1>5, <4>2, <5>1 DEF Key
        <5>3. Key(r) \notin objects
          BY <1>1, <3>1 DEF RemovingInv
        <5>4. QED
          BY <3>1, <5>2, <5>3
      <4>4. x \in Of("Upload", rows')
        BY <1>6, <1>9, <4>2, <4>3 DEF Of
      <4>5. QED
        BY <4>1, <4>4
    <3>3. CASE \E q \in Reqs : At(q, "row", "upload") /\ req[q].id = k[2]
      <4>1. PICK q \in Reqs : At(q, "row", "upload") /\ req[q].id = k[2]
        BY <3>3
      <4>2. At(q, "row", "upload")' /\ req'[q].id = k[2]
        BY <1>1, <1>10, <4>1 DEF At, Uploading
      <4>3. QED
        BY <4>2
    <3>4. CASE k[1] \notin orgs
      BY <1>1, <3>4
    <3>5. QED
      BY <3>1, <3>2, <3>3, <3>4 DEF ObjectsMatchRows
  <2>3. QED
    BY <2>1, <2>2 DEF ObjectsMatchRows
<1>16. Isolation' /\ ContextKept' /\ NoRowsLeft'
  BY <1>1, <1>9 DEF Isolation, ContextKept, NoRowsLeft
<1>17. QED
  BY <1>10, <1>12, <1>13, <1>14, <1>15, <1>16

-----------------------------------------------------------------------------
(* The theorems.                                                           *)

LEMMA ArriveInv ==
    ASSUME TenancyAssumption, TenancyInv, NEW r \in Reqs, Arrive(r) \/ ArriveConsumer(r)
    PROVE  TenancyInv'
<1>1. CASE Arrive(r)
  <2>1. PICK auth \in Jwts, orgId \in Orgs \cup {Null}, op \in Ops :
          \E id \in (IF op \in Unbound THEN orgs
                     ELSE IF op \in byId THEN 1 .. serial ELSE {0}) :
            Enter(r, op, id, auth, orgId)
    BY <1>1 DEF Arrive
  <2>2. PICK id \in (IF op \in Unbound THEN orgs
                     ELSE IF op \in byId THEN 1 .. serial ELSE {0}) :
          Enter(r, op, id, auth, orgId)
    BY <2>1
  <2>3. IF op \in Unbound THEN id \in orgs ELSE id \in Nat
    BY DEF TenancyInv, IdInv
  <2>4. auth.organizationId \in Orgs \cup {Null}
    BY DEF Jwts
  <2>5. QED
    BY <2>2, <2>3, <2>4, EnterInv
<1>2. CASE ArriveConsumer(r)
  <2>1. PICK t \in tokens, orgId \in Orgs \cup {Null} :
          /\ "publicReviews" \in Ops
          /\ Enter(r, "publicReviews", 0,
                   [role |-> "none", organizationId |-> t.organizationId,
                    scopes |-> t.scopes], orgId)
    BY <1>2 DEF ArriveConsumer
  <2>2. t.organizationId \in Orgs \cup {Null}
    BY DEF TenancyInv, ScopeInv
  <2>3. "publicReviews" \notin Unbound
    BY DEF Unbound
  <2> DEFINE auth == [role |-> "none", organizationId |-> t.organizationId,
                      scopes |-> t.scopes]
  <2>4. auth.organizationId \in Orgs \cup {Null}
    BY <2>2
  <2>5. Enter(r, "publicReviews", 0, auth, orgId)
    BY <2>1
  <2> HIDE DEF auth
  <2>6. QED
    BY <2>1, <2>3, <2>4, <2>5, EnterInv
<1>3. QED
  BY <1>1, <1>2

LEMMA NextInv ==
    ASSUME TenancyAssumption, TenancyInv, [Next]_vars
    PROVE  TenancyInv'
<1>1. ASSUME NEW r \in Reqs, Request(r) PROVE TenancyInv'
  BY <1>1, ArriveInv, ListReviewsInv, CreateReviewInv, DeleteReviewInv, PutObjectInv,
     InsertUploadInv, FindUploadInv, RemoveObjectInv, DeleteRowInv, TokenInv,
     CountRowsInv, DeleteOrgInv, AuditInv DEF Request
<1>2. CASE Snapshot
  BY <1>2, SnapshotInv
<1>3. CASE UNCHANGED vars
  BY <1>3 DEF vars, dataVars, requestVars, history, TenancyInv, ScopeInv, IdInv,
     UploadingInv, RemovingInv, Isolation, ContextKept, ObjectsMatchRows, NoRowsLeft,
     Scoped, Uploading, Removing, At, Key, Of
<1>4. QED
  BY <1>1, <1>2, <1>3 DEF Next

LEMMA Inductive ==
    ASSUME TenancyAssumption
    PROVE  Spec => []TenancyInv
<1>1. Init => TenancyInv
  BY InitInv
<1>2. TenancyInv /\ [Next]_vars => TenancyInv'
  BY NextInv
<1>3. QED
  BY <1>1, <1>2, PTL DEF Spec

LEMMA TypeFollows ==
    ASSUME TenancyAssumption, TenancyInv
    PROVE  TypeOK
<1> USE DEF TenancyInv
<1>1. orgs \subseteq Orgs /\ \A t \in tokens : t.organizationId \in Orgs \cup {Null}
  BY DEF ScopeInv
<1>2. /\ \A x \in rows : x.id \in 1 .. serial /\ x.organizationId \in Orgs \cup {Null}
      /\ objects \subseteq Orgs \X (1 .. serial)
      /\ serial \in 0 .. MaxId /\ faults \subseteq FaultKinds
  BY DEF IdInv
<1>3. ASSUME NEW c \in Reqs PROVE als[c] = NoContext <=> ~als[c].set
  <2>1. als[c] \in {NoContext} \cup {Context(o, b) : o \in Orgs \cup {Null}, b \in BOOLEAN}
    BY DEF ScopeInv
  <2>2. ~NoContext.set
    BY DEF NoContext
  <2>3. ASSUME NEW o \in Orgs \cup {Null}, NEW b \in BOOLEAN
        PROVE  Context(o, b).set /\ Context(o, b) # NoContext
    <3>1. Context(o, b).set
      BY DEF Context
    <3>2. QED
      BY <2>2, <3>1
  <2>4. QED
    BY <2>1, <2>2, <2>3
<1>4. ASSUME NEW c \in Reqs PROVE pc[c] = "idle" <=> req[c] = NoReq
  BY DEF ScopeInv, NoReq, TenancyAssumption
<1>5. QED
  BY <1>1, <1>2, <1>3, <1>4 DEF TypeOK

\* Organizations, tokens, rows, objects and contexts have their types in every
\* state, whatever requests overlap and whichever calls fail.
THEOREM TenancyTypeCorrect ==
    ASSUME TenancyAssumption
    PROVE  Spec => []TypeOK
<1>1. TenancyInv => TypeOK
  BY TypeFollows
<1>2. QED
  BY <1>1, Inductive, PTL

\* No query made on behalf of one organization reaches a row of another, for
\* any number of organizations and of overlapping requests (prisma.ts 8-12,
\* tenant.ts 10-12).
THEOREM TenantsIsolated ==
    ASSUME TenancyAssumption
    PROVE  Spec => []Isolation
<1>1. TenancyInv => Isolation
  BY DEF TenancyInv
<1>2. QED
  BY <1>1, Inductive, PTL

\* Every query has a context that the extension takes, the uploads' included,
\* which multer calls outside the one of their request (upload.controller.ts
\* 6-8).
THEOREM ContextNeverLost ==
    ASSUME TenancyAssumption
    PROVE  Spec => []ContextKept
<1>1. TenancyInv => ContextKept
  BY DEF TenancyInv
<1>2. QED
  BY <1>1, Inductive, PTL

\* Objects and rows of uploads refer to each other but for what is under way
\* and what failed calls leave (upload.service.ts 49, 78-86).
THEOREM StorageMatchesRows ==
    ASSUME TenancyAssumption
    PROVE  Spec => []ObjectsMatchRows
<1>1. TenancyInv => ObjectsMatchRows
  BY DEF TenancyInv
<1>2. QED
  BY <1>1, Inductive, PTL

\* An organization that goes leaves no review and no upload, although rows are
\* counted before and deleted after (organization.service.ts 57).
THEOREM NothingOrphaned ==
    ASSUME TenancyAssumption
    PROVE  Spec => []NoRowsLeft
<1>1. TenancyInv => NoRowsLeft
  BY DEF TenancyInv
<1>2. QED
  BY <1>1, Inductive, PTL

=============================================================================
