------------------------------ MODULE Tenancy -------------------------------
(***************************************************************************)
(* What keeps organizations apart: the principal of a request, the tenant  *)
(* context that an asynchronous call chain carries, the Prisma extension   *)
(* that reads it, and the operations that run under it.  The requests, the *)
(* delivery worker's snapshot and the removal of an organization interleave*)
(* at every awaited call; a call to the database or to the object storage  *)
(* may fail.                                                               *)
(*                                                                         *)
(* Rows stand for the tenant-scoped models: a review (a job has the same   *)
(* handlers), an upload, which has an object in the storage, and an audit  *)
(* entry.  A request that is rejected before it calls anything changes     *)
(* nothing and is left out.                                                *)
(***************************************************************************)
EXTENDS Naturals, FiniteSets

CONSTANTS
    Orgs,        \* organizations
    Null,        \* null
    Reqs,        \* requests that may overlap (bound)
    Scopes,      \* what a consumer token may be created with
    Ops,         \* operations in use
    FaultKinds,  \* calls that may fail: "put", "remove", "insert", "delete"
    MaxFaults,   \* how many do (bound)
    MaxId        \* the last id that is given out (bound)

ASSUME TenancyAssumption ==
    /\ Null \notin Orgs
    /\ IsFiniteSet(Orgs)
    /\ MaxId \in Nat /\ MaxFaults \in Nat
    /\ Cardinality(Orgs) <= MaxId
    /\ "none" \notin Ops

VARIABLES
    orgs,       \* organizations that exist
    tokens,     \* consumer tokens: [organizationId, scopes]
    rows,       \* [model, id, organizationId, r2Key]
    objects,    \* keys in the object storage
    serial,     \* ids given out
    als,        \* per request: the store of tenantContext in its call chain
    pc, req,    \* per request: where it is, and the fields of req
    faults,     \* history: calls that failed
    strays,     \* history: <<for, touched>> organizations of a query gone astray
    refused     \* history: operations that had no usable context

dataVars == <<orgs, tokens, rows, objects, serial>>
requestVars == <<als, pc, req>>
history == <<faults, strays, refused>>
vars == <<dataVars, requestVars, history>>

NoContext == [tenantId |-> Null, isSuper |-> FALSE, set |-> FALSE]
Context(tenantId, isSuper) ==
    [tenantId |-> tenantId, isSuper |-> isSuper, set |-> TRUE]
SUPER == Context(Null, TRUE)
NoKey == <<>>
NoReq == [op |-> "none", id |-> 0, tenantId |-> Null, isSuper |-> FALSE, home |-> Null]

TypeOK ==
    /\ orgs \subseteq Orgs
    /\ \A t \in tokens : t.organizationId \in Orgs \cup {Null}
    /\ \A x \in rows : x.id \in 1 .. serial /\ x.organizationId \in Orgs \cup {Null}
    /\ objects \subseteq Orgs \X (1 .. serial)
    /\ serial \in 0 .. MaxId
    /\ \A c \in Reqs : als[c] = NoContext <=> ~als[c].set
    /\ \A c \in Reqs : pc[c] = "idle" <=> req[c] = NoReq
    /\ faults \subseteq FaultKinds

\* Every organization has a review; one id each.
Init ==
    /\ orgs = Orgs
    /\ tokens = {}
    /\ serial = Cardinality(Orgs)
    /\ \E id \in [Orgs -> 1 .. serial] :
         /\ \A o, p \in Orgs : id[o] = id[p] => o = p
         /\ rows = {[model |-> "Review", id |-> id[o], organizationId |-> o,
                     r2Key |-> NoKey] : o \in Orgs}
    /\ objects = {}
    /\ als = [c \in Reqs |-> NoContext]
    /\ pc = [c \in Reqs |-> "idle"]
    /\ req = [c \in Reqs |-> NoReq]
    /\ faults = {} /\ strays = {} /\ refused = {}

-----------------------------------------------------------------------------
(* The context and the extension.                                          *)

\* Mutant: fn's promise is returned, and awaited by the caller.
Unawaited(outer, ctx) == outer

\* Mutant: inside another context the new one has no effect.
NestedIgnored(outer, ctx) == IF outer.set THEN outer ELSE ctx

\* withTenant: the context of fn's queries, called in the context outer.
WithTenant(outer, ctx) == ctx

Unscoped(ctx) == ctx.isSuper /\ ctx.tenantId = Null

FORBIDDEN_OPS == {"findUnique", "findUniqueOrThrow", "upsert", "update", "delete"}

\* The extension lets the query through.
Admits(ctx, operation) ==
    /\ ctx.set
    /\ \/ Unscoped(ctx)
       \/ ctx.tenantId # Null /\ operation \notin FORBIDDEN_OPS

\* WHERE_INJECT_OPS: the rows that a query may see, change or delete.
Visible(ctx, operation) ==
    IF ~Admits(ctx, operation) THEN {}
    ELSE IF Unscoped(ctx) THEN rows
    ELSE {x \in rows : x.organizationId = ctx.tenantId}

\* create: the organization is stamped on; the foreign key wants it to exist,
\* except in AuditLog, which has none.
Created(ctx, row) ==
    LET org == IF Unscoped(ctx) THEN row.organizationId ELSE ctx.tenantId
    IN  {x \in {[row EXCEPT !.organizationId = org]} :
            Admits(ctx, "create") /\ (x.model = "AuditLog" \/ org \in orgs)}

\* A query on behalf of the organization home, in ctx, touches found.
Query(home, ctx, operation, found) ==
    /\ refused' = IF Admits(ctx, operation) THEN refused ELSE refused \cup {operation}
    /\ strays' = strays \cup
         {<<home, x.organizationId>> : x \in {y \in found : home \notin {Null, y.organizationId}}}

-----------------------------------------------------------------------------
(* Routes: middleware up to the first awaited call of the handler.         *)

ROLE_PERMISSIONS == [SUPER_ADMIN |-> {"*"},
                     ADMIN |-> {"reviews:read", "reviews:write", "reviews:delete",
                                "uploads:write", "uploads:delete"}]

principalHasPermission(auth, permission) ==
    LET granted == IF auth.role # "none" THEN ROLE_PERMISSIONS[auth.role]
                                         ELSE auth.scopes
    IN  {"*", permission} \cap granted # {}

Permission == [
    listReviews   |-> "reviews:read",   publicReviews |-> "reviews:read",
    createReview  |-> "reviews:write",  deleteReview  |-> "reviews:delete",
    upload        |-> "uploads:write",  deleteUpload  |-> "uploads:delete",
    createToken   |-> "tokens:write",   revokeToken   |-> "tokens:write",
    deleteOrg     |-> "organizations:write"]

requireSuperAdmin == {"createToken", "revokeToken"}

\* Mutant: the upload route forgets it.
requireTenantButUploads == {"createReview", "deleteReview", "deleteUpload", "createToken"}

requireTenant == {"createReview", "deleteReview", "upload", "deleteUpload", "createToken"}
byId == {"deleteReview", "deleteUpload"}

\* The routes of organizations do without tenantScope.
Unbound == {"deleteOrg"}

\* Mutant: whoever names an organization gets it.
AnyQuery(auth, orgId) ==
    IF auth.role = "SUPER_ADMIN" \/ orgId # Null THEN Context(orgId, auth.role = "SUPER_ADMIN")
    ELSE IF auth.organizationId = Null THEN NoContext
    ELSE Context(auth.organizationId, FALSE)

\* ?orgId counts for a super admin only; nobody else goes without a tenant.
TenantScope(auth, orgId) ==
    IF auth.role = "SUPER_ADMIN" THEN Context(orgId, TRUE)
    ELSE IF auth.organizationId = Null THEN NoContext
    ELSE Context(auth.organizationId, FALSE)

\* What a JWT may say: its role and organization are the ones of sign-in.
Jwts == {[role |-> "SUPER_ADMIN", organizationId |-> Null, scopes |-> {}]} \cup
        {[role |-> "ADMIN", organizationId |-> o, scopes |-> {}] : o \in Orgs \cup {Null}}

Enter(r, op, id, auth, orgId) ==
    LET ctx == IF op \in Unbound THEN NoContext ELSE TenantScope(auth, orgId) IN
    /\ pc[r] = "idle"
    /\ op \in Unbound \/ ctx.set
    /\ op \in requireSuperAdmin => auth.role = "SUPER_ADMIN"
    /\ principalHasPermission(auth, Permission[op])
    /\ op \in requireTenant => ctx.tenantId # Null
    /\ pc' = [pc EXCEPT ![r] = "handler"]
    /\ als' = [als EXCEPT ![r] = ctx]
    /\ req' = [req EXCEPT ![r] =
                 [op |-> op, id |-> id, tenantId |-> ctx.tenantId, isSuper |-> ctx.isSuper,
                  home |-> IF op \in Unbound THEN id
                           ELSE IF auth.role = "SUPER_ADMIN" THEN orgId
                           ELSE auth.organizationId]]
    /\ UNCHANGED <<dataVars, history>>

\* authJwt reads nothing but the token.  For an organization, id is its own.
Arrive(r) ==
    \E auth \in Jwts, orgId \in Orgs \cup {Null}, op \in Ops \ {"publicReviews", "login"} :
        \E id \in (IF op \in Unbound THEN orgs
                   ELSE IF op \in byId THEN 1 .. serial ELSE {0}) :
            Enter(r, op, id, auth, orgId)

\* authConsumerToken: findUnique by hash, of a type that has an organization.
ArriveConsumer(r) ==
    \E t \in tokens, orgId \in Orgs \cup {Null} :
        /\ "publicReviews" \in Ops
        /\ t.organizationId # Null
        /\ Enter(r, "publicReviews", 0,
                 [role |-> "none", organizationId |-> t.organizationId,
                  scopes |-> t.scopes], orgId)

\* The call chain of c ends.
End(c) ==
    /\ pc' = [pc EXCEPT ![c] = "idle"]
    /\ als' = [als EXCEPT ![c] = NoContext]
    /\ req' = [req EXCEPT ![c] = NoReq]

Go(c, to) == pc' = [pc EXCEPT ![c] = to] /\ UNCHANGED req

At(c, where, op) == pc[c] = where /\ req[c].op = op

-----------------------------------------------------------------------------
(* Handlers.                                                               *)

Of(model, set) == {x \in set : x.model = model}

Row(model, org, key) ==
    [model |-> model, id |-> serial + 1, organizationId |-> org, r2Key |-> key]

\* findMany
ListReviews(r) ==
    /\ At(r, "handler", "listReviews") \/ At(r, "handler", "publicReviews")
    /\ Query(req[r].home, als[r], "findMany", Of("Review", Visible(als[r], "findMany")))
    /\ End(r)
    /\ UNCHANGED <<dataVars, faults>>

CreateReview(r) ==
    LET new == Created(als[r], Row("Review", req[r].tenantId, NoKey)) IN
    /\ At(r, "handler", "createReview")
    /\ serial < MaxId
    /\ Query(req[r].home, als[r], "create", new)
    /\ rows' = rows \cup new
    /\ serial' = serial + 1
    /\ End(r)
    /\ UNCHANGED <<orgs, tokens, objects, faults>>

\* deleteMany by id
DeleteReview(r) ==
    LET gone == {x \in Of("Review", Visible(als[r], "deleteMany")) : x.id = req[r].id} IN
    /\ At(r, "handler", "deleteReview")
    /\ Query(req[r].home, als[r], "deleteMany", gone)
    /\ rows' = rows \ gone
    /\ End(r)
    /\ UNCHANGED <<orgs, tokens, objects, serial, faults>>

\* A call fails, as far as the bound allows.
Fails(kind) ==
    /\ kind \in FaultKinds
    /\ Cardinality(faults) < MaxFaults
    /\ faults' = faults \cup {kind}

\* The upload controllers set the context again.
UploadContext(r, outer) ==
    WithTenant(outer, Context(req[r].tenantId, req[r].isSuper))

\* Mutant: a failure of the put is ignored, as the one of the removal is.
PutIgnored == "row"

\* Where uploadFile goes when the storage rejects the object.
PutFailed == "idle"

\* uploadFile, for which multer leaves no context behind: the object first.
PutObject(r) ==
    /\ At(r, "handler", "upload")
    /\ serial < MaxId
    /\ serial' = serial + 1
    /\ \/ /\ objects' = objects \cup {<<req[r].tenantId, serial + 1>>}
          /\ pc' = [pc EXCEPT ![r] = "row"]
          /\ req' = [req EXCEPT ![r].id = serial + 1]
          /\ als' = [als EXCEPT ![r] = UploadContext(r, NoContext)]
          /\ UNCHANGED faults
       \/ /\ Fails("put")
          /\ IF PutFailed = "idle" THEN End(r)
             ELSE /\ pc' = [pc EXCEPT ![r] = PutFailed]
                  /\ req' = [req EXCEPT ![r].id = serial + 1]
                  /\ als' = [als EXCEPT ![r] = UploadContext(r, NoContext)]
          /\ UNCHANGED objects
    /\ UNCHANGED <<orgs, tokens, rows, strays, refused>>

\* ... then the row; the object stays if this fails.
InsertUpload(r) ==
    LET key == <<req[r].tenantId, req[r].id>>
        new == Created(als[r], [Row("Upload", req[r].tenantId, key) EXCEPT !.id = req[r].id])
    IN  /\ At(r, "row", "upload")
        /\ \/ /\ Query(req[r].home, als[r], "create", new)
              /\ rows' = rows \cup new
              /\ UNCHANGED faults
           \/ Fails("insert") /\ UNCHANGED <<rows, strays, refused>>
        /\ End(r)
        /\ UNCHANGED <<orgs, tokens, objects, serial>>

\* deleteUpload: findFirst, 404 without a row
FindUpload(r) ==
    LET ctx == UploadContext(r, als[r])
        found == {x \in Of("Upload", Visible(ctx, "findFirst")) : x.id = req[r].id}
    IN  /\ At(r, "handler", "deleteUpload")
        /\ Query(req[r].home, ctx, "findFirst", found)
        /\ IF found = {} THEN End(r)
           ELSE Go(r, "object") /\ als' = [als EXCEPT ![r] = ctx]
        /\ UNCHANGED <<dataVars, faults>>

\* ... the object, whether that works or not
RemoveObject(r) ==
    /\ At(r, "object", "deleteUpload")
    /\ \/ objects' = objects \ {<<req[r].tenantId, req[r].id>>} /\ UNCHANGED faults
       \/ Fails("remove") /\ UNCHANGED objects
    /\ Go(r, "row")
    /\ UNCHANGED <<orgs, tokens, rows, serial, als, strays, refused>>

\* ... and the row
DeleteRow(r) ==
    LET gone == {x \in Of("Upload", Visible(als[r], "deleteMany")) : x.id = req[r].id} IN
    /\ At(r, "row", "deleteUpload")
    /\ \/ /\ Query(req[r].home, als[r], "deleteMany", gone)
          /\ rows' = rows \ gone
          /\ UNCHANGED faults
       \/ Fails("delete") /\ UNCHANGED <<rows, strays, refused>>
    /\ End(r)
    /\ UNCHANGED <<orgs, tokens, objects, serial>>

-----------------------------------------------------------------------------
(* Models without tenant scope: tokens and organizations.                  *)

\* The foreign key wants the organization to exist.
CreateToken(r) ==
    /\ At(r, "handler", "createToken")
    /\ \E s \in Scopes :
         tokens' = tokens \cup {[organizationId |-> o, scopes |-> s] :
                                  o \in orgs \cap {req[r].tenantId}}
    /\ End(r)
    /\ UNCHANGED <<orgs, rows, objects, serial, history>>

\* revokeToken: a super admin with ?orgId reaches that organization's only.
RevokeToken(r) ==
    /\ At(r, "handler", "revokeToken")
    /\ \E S \in {{}} \cup {{t} : t \in tokens} :
         /\ \A t \in S : req[r].tenantId \in {Null, t.organizationId}
         /\ tokens' = tokens \ S
    /\ End(r)
    /\ UNCHANGED <<orgs, rows, objects, serial, history>>

\* deleteOrganization counts in the context of the organization.
CountRows(r) ==
    LET ctx == WithTenant(als[r], Context(req[r].id, FALSE))
        found == Visible(ctx, "count") \ Of("AuditLog", rows)
    IN  /\ At(r, "handler", "deleteOrg")
        /\ Query(req[r].home, ctx, "count", found)
        /\ IF found # {} \/ req[r].id \notin orgs THEN End(r) ELSE Go(r, "drop") /\ UNCHANGED als
        /\ UNCHANGED <<dataVars, faults>>

\* Mutant: the foreign keys do not restrict.
NotRestricted(o) == FALSE

\* The foreign keys of the tenant models restrict.
Restricted(o) == \E x \in rows : x.model # "AuditLog" /\ x.organizationId = o

\* ... and deletes later, whatever was created since: a token of it loses its
\* organization.
DeleteOrg(r) ==
    LET o == req[r].id IN
    /\ At(r, "drop", "deleteOrg")
    /\ IF Restricted(o) \/ o \notin orgs THEN UNCHANGED <<orgs, tokens>>
       ELSE /\ orgs' = orgs \ {o}
            /\ tokens' = {IF t.organizationId = o THEN [t EXCEPT !.organizationId = Null]
                                                  ELSE t : t \in tokens}
    /\ End(r)
    /\ UNCHANGED <<rows, objects, serial, history>>

-----------------------------------------------------------------------------
(* Call chains without a request's context.                                *)

\* recordAudit in a sign-in: a context of its own; a failure is swallowed.
Audit(r) ==
    /\ pc[r] = "idle" /\ "login" \in Ops
    /\ serial < MaxId
    /\ \E o \in orgs \cup {Null} :
         LET ctx == WithTenant(als[r], Context(o, o = Null))
             new == Created(ctx, Row("AuditLog", o, NoKey))
         IN  /\ Query(o, ctx, "create", new)
             /\ rows' = rows \cup new
    /\ serial' = serial + 1
    /\ UNCHANGED <<orgs, tokens, objects, requestVars, faults>>

\* processDueJobs runs as SUPER; the row of an organization makes dispatch
\* build the snapshot in the context of that organization.
Snapshot ==
    /\ \E o \in orgs :
         LET ctx == WithTenant(WithTenant(NoContext, SUPER), Context(o, FALSE)) IN
         Query(o, ctx, "findMany", Of("Review", Visible(ctx, "findMany")))
    /\ UNCHANGED <<dataVars, requestVars, faults>>

-----------------------------------------------------------------------------

Request(r) ==
    \/ Arrive(r) \/ ArriveConsumer(r)
    \/ ListReviews(r) \/ CreateReview(r) \/ DeleteReview(r)
    \/ PutObject(r) \/ InsertUpload(r)
    \/ FindUpload(r) \/ RemoveObject(r) \/ DeleteRow(r)
    \/ CreateToken(r) \/ RevokeToken(r)
    \/ CountRows(r) \/ DeleteOrg(r) \/ Audit(r)

Next == (\E r \in Reqs : Request(r)) \/ Snapshot

Spec == Init /\ [][Next]_vars

-----------------------------------------------------------------------------
(* Properties.                                                             *)

\* Tenant isolation (prisma.ts 8-12, tenant.ts 10-12): no query made for one
\* organization, by its own user, by its consumer token, by a super admin who
\* chose it or by the worker that publishes it, returns, creates, changes or
\* deletes a row of another.
Isolation == strays = {}

\* Nobody who is let in runs into "ran without a tenant context" (upload
\* .controller.ts 6-8): whatever the chain, multer's included, every query of
\* a tenant-scoped model has a context that the extension takes.
ContextKept == refused = {}

\* An object belongs to the organization of its row, however it was uploaded.
\* While no call fails a row has its object, or is about to be deleted, and an
\* object has its row, or is about to get it.  What a failed insert or removal
\* leaves behind is an object nobody refers to; only a failed deletion of the
\* row leaves a row without its object, never a failed put (upload.service.ts
\* 49, 78-86).
ObjectsMatchRows ==
    /\ \A x \in Of("Upload", rows) :
         /\ x.r2Key = <<x.organizationId, x.id>>
         /\ \/ x.r2Key \in objects
            \/ "delete" \in faults
            \/ \E r \in Reqs : At(r, "row", "deleteUpload") /\ req[r].id = x.id
    /\ {"insert", "remove"} \cap faults = {} =>
         \A k \in objects :
           \/ \E x \in Of("Upload", rows) : x.r2Key = k
           \/ \E r \in Reqs : At(r, "row", "upload") /\ req[r].id = k[2]
           \/ k[1] \notin orgs

\* "Organization has users or data; remove them before deleting"
\* (organization.service.ts 57): the counts come first and the deletion later,
\* and yet no review or upload is left of an organization that is gone.
NoRowsLeft ==
    \A x \in rows : x.model # "AuditLog" => x.organizationId \in orgs

=============================================================================
