------------------------------- MODULE Tenancy -------------------------------
(***************************************************************************)
(* The tenancy context: the command handlers that create, update and       *)
(* delete tenants and add members, interleaved at their awaits.  None of   *)
(* them opens a transaction: every query autocommits, and consistency      *)
(* rests on the constraints of the migration (UNIQUE(app_id, slug),        *)
(* UNIQUE(tenant_id, user_id), foreign keys ON DELETE CASCADE).            *)
(*                                                                         *)
(* TenantPermissionGuard decides from the roles in the caller's access     *)
(* tokens, which are snapshots of the membership table.                    *)
(***************************************************************************)
EXTENDS Integers, FiniteSets

CONSTANTS App,         \* registered apps
          User,        \* registered users
          Slug,        \* tenant slugs
          Name,        \* tenant names
          Request,     \* concurrent request slots
          MaxTenants,  \* bound: tenants ever created
          AddedRole,   \* bound: the roles that AddTenantMember commands ask for
          Null         \* no row, no value; an unknown app or email

TenantId == 1..MaxTenants

Role == {"OWNER", "ADMIN", "MEMBER"}
Permission == {"VIEW_TENANT", "MANAGE_TENANT", "DELETE_TENANT", "MANAGE_MEMBERS"}

TENANT_ROLE_PERMISSIONS ==
    [OWNER  |-> Permission,
     ADMIN  |-> Permission \ {"DELETE_TENANT"},
     MEMBER |-> {"VIEW_TENANT"}]

Column == {"name", "slug"}   \* the columns an update can change
TenantRow == [app : App, name : Name, slug : Slug]
Membership == TenantId \X User \X Role

ASSUME TenancyAssumption ==
    /\ MaxTenants \in Nat
    /\ IsFiniteSet(Request)
    /\ AddedRole \subseteq Role
    /\ Null \notin App \cup User \cup Slug \cup Name
    /\ Null \notin Role /\ Null \notin TenantId /\ Null \notin TenantRow

VARIABLES
    tenants,      \* table tenant: id -> [app, name, slug], or Null
    memberships,  \* table tenant_membership: <<tenant, user, role>>
    claims,       \* <<tenant, role>> pairs in each user's unexpired access tokens
    nextTenant,   \* next id a tenant builder will generate
    pc,           \* where each request is
    arg,          \* the command of each request
    copy,         \* the tenant aggregate a handler has loaded
    diff,         \* the columns that save()'s SELECT found to differ
    rewritten,    \* history: columns that others have written since an update's load
    owned,        \* history: tenants whose creation completed
    deleting,     \* history: tenants whose memberships were bulk-deleted
    deleted       \* history: tenants whose row was deleted

tables == <<tenants, memberships>>
loaded == <<copy, diff, rewritten>>
history == <<owned, deleting, deleted>>
vars == <<tables, claims, nextTenant, pc, arg, loaded, history>>

-----------------------------------------------------------------------------
Exists(t) == tenants[t] # Null

SameSlug(row, other) == other # Null /\ row.app = other.app /\ row.slug = other.slug

\* findByAppIdAndSlug
SlugTaken(row) == \E t \in TenantId : SameSlug(row, tenants[t])

\* Mutant: the migration has no UNIQUE(app_id, slug).
SlugConflictIgnored(t, row) == FALSE

\* UNIQUE(app_id, slug) rejects writing row as tenant t.
SlugConflict(t, row) == \E o \in TenantId \ {t} : SameSlug(row, tenants[o])

IsMember(t, u) == \E role \in Role : <<t, u, role>> \in memberships

\* Mutant: the migration has no UNIQUE(tenant_id, user_id).
MembershipConflictIgnored(t, u) == FALSE

\* UNIQUE(tenant_id, user_id) rejects a row for u in t.
MembershipConflict(t, u) == IsMember(t, u)

HasOwner(t) == \E u \in User : <<t, u, "OWNER">> \in memberships

\* Mutant: DELETE without its WHERE.
MembershipsOfAnyTenant(t) == memberships

\* Mutant: owners are left to the deletion of the tenant.
MembershipsOfNonOwners(t) == {m \in memberships : m[1] = t /\ m[3] # "OWNER"}

\* deleteAllByTenantId: DELETE ... WHERE tenant_id = t
MembershipsOf(t) == {m \in memberships : m[1] = t}

\* Mutant: the foreign key does not cascade.
CascadedNone(t) == {}

\* Rows that ON DELETE CASCADE removes with tenant t.
Cascaded(t) == {m \in memberships : m[1] = t}

\* findAllByUserId, and the claims the auth context makes of the rows.
MembershipsOfUser(u) == {m \in memberships : m[2] = u}
RolesOf(u) == {<<m[1], m[3]>> : m \in MembershipsOfUser(u)}

\* assertExists and findUserIdByEmail ask the app and user contexts, which never
\* delete anything.
AppFound(a) == a \in App
UserFound(m) == m \in User

\* The table with a new membership built and inserted.
Joined(t, u, role) == memberships \cup {<<t, u, role>>}

\* Mutant: the role is looked up without comparing the tenant.
GrantedAnyTenant(u, t, p) ==
    \E c \in claims[u] : p \in TENANT_ROLE_PERMISSIONS[c[2]]

\* TenantPermissionGuard: some role for t in the caller's token grants p.
Granted(u, t, p) ==
    \E role \in Role : <<t, role>> \in claims[u] /\ p \in TENANT_ROLE_PERMISSIONS[role]

\* Mutant: changeName and changeSlug are called although the command has none.
UpdatedUnconditionally(row, a) == [row EXCEPT !.name = a.name, !.slug = a.slug]

\* TenantAggregate.update: what the command leaves out stays as it was loaded.
Updated(row, a) ==
    [row EXCEPT !.name = IF a.name # Null THEN a.name ELSE @,
                !.slug = IF a.slug # Null THEN a.slug ELSE @]

\* Program points from which a request may still insert a new tenant.
Creating == {"createCheck", "createTenant"}
NoArg == [user |-> Null, app |-> Null, tenant |-> Null, name |-> Null,
          slug |-> Null, member |-> Null, role |-> Null]

TypeOK ==
    /\ tenants \in [TenantId -> TenantRow \cup {Null}]
    /\ memberships \subseteq Membership
    /\ claims \in [User -> SUBSET (TenantId \X Role)]
    /\ nextTenant \in 1..(MaxTenants + 1)
    /\ pc \in [Request -> Creating \cup
               {"idle", "createOwner", "updateLoad", "updateCheck",
                "updateSave", "updateWrite", "updateInsert", "deleteLoad", "deleteOwner",
                "deleteMembers", "deleteTenant", "addLoad", "addCheck", "addSave"}]
    /\ arg \in [Request -> [user : User \cup {Null}, app : App \cup {Null},
                            tenant : TenantId \cup {Null},
                            name : Name \cup {Null}, slug : Slug \cup {Null},
                            member : User \cup {Null}, role : Role \cup {Null}]]
    /\ copy \in [Request -> TenantRow \cup {Null}]
    /\ diff \in [Request -> SUBSET Column]
    /\ rewritten \in [Request -> SUBSET Column]
    /\ owned \subseteq TenantId /\ deleting \subseteq TenantId
    /\ deleted \subseteq TenantId

Init ==
    /\ tenants = [t \in TenantId |-> Null]
    /\ memberships = {}
    /\ claims = [u \in User |-> {}]
    /\ nextTenant = 1
    /\ pc = [r \in Request |-> "idle"]
    /\ arg = [r \in Request |-> NoArg]
    /\ copy = [r \in Request |-> Null]
    /\ diff = [r \in Request |-> {}]
    /\ rewritten = [r \in Request |-> {}]
    /\ owned = {} /\ deleting = {} /\ deleted = {}

-----------------------------------------------------------------------------
Start(r, a, label) ==
    /\ pc[r] = "idle"
    /\ pc' = [pc EXCEPT ![r] = label]
    /\ arg' = [arg EXCEPT ![r] = a]
    /\ UNCHANGED <<tables, claims, nextTenant, loaded, history>>

Goto(r, label) ==
    /\ pc' = [pc EXCEPT ![r] = label]
    /\ UNCHANGED arg

\* The request is answered; its locals are gone.
End(r) ==
    /\ pc' = [pc EXCEPT ![r] = "idle"]
    /\ arg' = [arg EXCEPT ![r] = NoArg]
    /\ copy' = [copy EXCEPT ![r] = Null]
    /\ diff' = [diff EXCEPT ![r] = {}]

\* It ends without having changed anything in this step: an exception, which the
\* filters turn into 404, 403 or 409, a violated constraint (500), or nothing to do.
Fail(r) ==
    /\ End(r)
    /\ rewritten' = [rewritten EXCEPT ![r] = {}]
    /\ UNCHANGED <<tables, claims, nextTenant, history>>

\* It passes a read-only step.
Pass(r, label) ==
    /\ Goto(r, label)
    /\ UNCHANGED <<tables, claims, nextTenant, loaded, history>>

-----------------------------------------------------------------------------
(* Access tokens.  Login and refresh read the memberships and sign them    *)
(* some awaits later, while older tokens of the user may be valid still.   *)
(* Reading and signing are one step: signing late leaves the user with the *)
(* same claims as signing at once and keeping the token.                   *)

IssueToken(u) ==
    /\ \/ claims' = [claims EXCEPT ![u] = RolesOf(u)]
       \/ claims' = [claims EXCEPT ![u] = @ \cup RolesOf(u)]
    /\ UNCHANGED <<tables, nextTenant, pc, arg, loaded, history>>

-----------------------------------------------------------------------------
(* CreateTenantCommandHandler                                              *)

\* Bound: every creation under way has an id left.
Capacity ==
    nextTenant + Cardinality({r \in Request : pc[r] \in Creating}) =< MaxTenants

StartCreate(r, u, a, nm, sl) ==
    /\ Capacity
    /\ Start(r, [NoArg EXCEPT !.user = u, !.app = a, !.name = nm, !.slug = sl],
             "createCheck")

\* The tenant that the builder makes of a command.
NewTenant(a) == [app |-> a.app, name |-> a.name, slug |-> a.slug]

\* assertAppExists and assertTenantSlugAvailable.
CreateCheck(r) ==
    /\ pc[r] = "createCheck"
    /\ \/ ~AppFound(arg[r].app) /\ Fail(r)
       \/ /\ AppFound(arg[r].app)
          /\ IF SlugTaken(NewTenant(arg[r]))
             THEN Fail(r) ELSE Pass(r, "createTenant")

\* The tenant is inserted and its event published before the owner exists.  Capacity
\* has left an id for it.
SaveTenant(r) ==
    LET row == NewTenant(arg[r])
    IN /\ pc[r] = "createTenant" /\ nextTenant =< MaxTenants
       /\ \/ SlugConflict(nextTenant, row) /\ Fail(r)
          \/ /\ ~SlugConflict(nextTenant, row)
             /\ tenants' = [tenants EXCEPT ![nextTenant] = row]
             /\ nextTenant' = nextTenant + 1
             /\ pc' = [pc EXCEPT ![r] = "createOwner"]
             /\ arg' = [arg EXCEPT ![r].tenant = nextTenant]
             /\ UNCHANGED <<memberships, claims, loaded, history>>

\* The foreign key holds: nobody has a role yet with which to delete the tenant.
SaveOwner(r) ==
    LET t == arg[r].tenant
    IN /\ pc[r] = "createOwner"
       /\ memberships' = Joined(t, arg[r].user, "OWNER")
       /\ owned' = owned \cup {t}
       /\ End(r)
       /\ UNCHANGED <<tenants, claims, nextTenant, rewritten, deleting, deleted>>

-----------------------------------------------------------------------------
(* UpdateTenantCommandHandler.  nm and sl are Null when the command leaves *)
(* them out.  repo.save() runs a SELECT by id of its own and then writes   *)
(* the columns in which the aggregate differs from that row.               *)

StartUpdate(r, u, t, nm, sl) ==
    /\ Granted(u, t, "MANAGE_TENANT")
    /\ Start(r, [NoArg EXCEPT !.tenant = t, !.name = nm, !.slug = sl], "updateLoad")

\* Mutant: a load that another request has just made of the tenant is shared.
UpdateLoadShared(r) ==
    LET t == arg[r].tenant
        shared == {copy[q] : q \in {q \in Request : arg[q].tenant = t /\ copy[q] # Null}}
    IN /\ pc[r] = "updateLoad"
       /\ \/ ~Exists(t) /\ Fail(r)
          \/ /\ Exists(t)
             /\ \E row \in IF shared = {} THEN {tenants[t]} ELSE shared :
                  copy' = [copy EXCEPT ![r] = row]
             /\ Goto(r, "updateCheck")
             /\ UNCHANGED <<tables, claims, nextTenant, diff, rewritten, history>>

UpdateLoad(r) ==
    LET t == arg[r].tenant
    IN /\ pc[r] = "updateLoad"
       /\ \/ ~Exists(t) /\ Fail(r)
          \/ /\ Exists(t)
             /\ copy' = [copy EXCEPT ![r] = tenants[t]]
             /\ Goto(r, "updateCheck")
             /\ UNCHANGED <<tables, claims, nextTenant, diff, rewritten, history>>

\* A slug other than the loaded one must be free.
UpdateCheck(r) ==
    LET row == Updated(copy[r], arg[r])
    IN /\ pc[r] = "updateCheck"
       /\ IF row.slug # copy[r].slug /\ SlugTaken(row)
          THEN Fail(r) ELSE Pass(r, "updateSave")

\* The SELECT of save().
UpdateSave(r) ==
    LET row == tenants[arg[r].tenant]
        differing == {c \in Column : row[c] # Updated(copy[r], arg[r])[c]}
    IN /\ pc[r] = "updateSave"
       /\ \/ row = Null /\ Pass(r, "updateInsert")
          \/ row # Null /\ differing = {} /\ Fail(r)
          \/ /\ row # Null /\ differing # {}
             /\ diff' = [diff EXCEPT ![r] = differing]
             /\ Goto(r, "updateWrite")
             /\ UNCHANGED <<tables, claims, nextTenant, copy, rewritten, history>>

\* r writes columns of its tenant, which becomes row, unless the slug is taken.  History:
\* what other updates of the tenant had loaded is old from now on.
UpdateStore(r, row, columns) ==
    LET t == arg[r].tenant
        outdated == {q \in Request \ {r} : arg[q].tenant = t /\ copy[q] # Null}
    IN \/ SlugConflict(t, row) /\ Fail(r)
       \/ /\ ~SlugConflict(t, row)
          /\ tenants' = [tenants EXCEPT ![t] = row]
          /\ rewritten' = [q \in Request |->
                            IF q = r THEN {}
                            ELSE rewritten[q] \cup IF q \in outdated THEN columns ELSE {}]
          /\ End(r)
          /\ UNCHANGED <<memberships, claims, nextTenant, history>>

\* The row after r's UPDATE of the columns that differed.
Written(r) ==
    LET new == Updated(copy[r], arg[r])
    IN [tenants[arg[r].tenant] EXCEPT !.name = IF "name" \in diff[r] THEN new.name ELSE @,
                                      !.slug = IF "slug" \in diff[r] THEN new.slug ELSE @]

\* UPDATE ... WHERE id = t.  It changes nothing when the row is gone by now.
UpdateWrite(r) ==
    /\ pc[r] = "updateWrite"
    /\ IF Exists(arg[r].tenant) THEN UpdateStore(r, Written(r), diff[r]) ELSE Fail(r)

\* save() found no row and INSERTs the aggregate; another one may have done so.
UpdateInsert(r) ==
    /\ pc[r] = "updateInsert"
    /\ IF Exists(arg[r].tenant) THEN Fail(r)
       ELSE UpdateStore(r, Updated(copy[r], arg[r]), Column)

-----------------------------------------------------------------------------
(* DeleteTenantCommandHandler                                              *)

StartDelete(r, u, t) ==
    /\ Granted(u, t, "DELETE_TENANT")
    /\ Start(r, [NoArg EXCEPT !.user = u, !.tenant = t], "deleteLoad")

DeleteLoad(r) ==
    /\ pc[r] = "deleteLoad"
    /\ IF Exists(arg[r].tenant) THEN Pass(r, "deleteOwner") ELSE Fail(r)

DeleteAssertOwner(r) ==
    /\ pc[r] = "deleteOwner"
    /\ IF <<arg[r].tenant, arg[r].user, "OWNER">> \in memberships
       THEN Pass(r, "deleteMembers") ELSE Fail(r)

DeleteMembers(r) ==
    LET t == arg[r].tenant
    IN /\ pc[r] = "deleteMembers"
       /\ memberships' = memberships \ MembershipsOf(t)
       /\ deleting' = deleting \cup {t}
       /\ Goto(r, "deleteTenant")
       /\ UNCHANGED <<tenants, claims, nextTenant, loaded, owned, deleted>>

DeleteTenant(r) ==
    LET t == arg[r].tenant
    IN /\ pc[r] = "deleteTenant"
       /\ tenants' = [tenants EXCEPT ![t] = Null]
       /\ memberships' = memberships \ Cascaded(t)
       /\ deleted' = deleted \cup {t}
       /\ End(r)
       /\ UNCHANGED <<claims, nextTenant, rewritten, owned, deleting>>

-----------------------------------------------------------------------------
(* AddTenantMemberCommandHandler.  m is Null for an unregistered email.    *)

StartAdd(r, u, t, m, role) ==
    /\ Granted(u, t, "MANAGE_MEMBERS")
    /\ Start(r, [NoArg EXCEPT !.tenant = t, !.member = m, !.role = role], "addLoad")

AddLoad(r) ==
    /\ pc[r] = "addLoad"
    /\ IF Exists(arg[r].tenant) THEN Pass(r, "addCheck") ELSE Fail(r)

\* findUserIdByEmail and assertTenantMembershipAvailable.
AddCheck(r) ==
    /\ pc[r] = "addCheck"
    /\ \/ ~UserFound(arg[r].member) /\ Fail(r)
       \/ /\ UserFound(arg[r].member)
          /\ IF IsMember(arg[r].tenant, arg[r].member)
             THEN Fail(r) ELSE Pass(r, "addSave")

AddSave(r) ==
    LET t == arg[r].tenant
        m == arg[r].member
    IN /\ pc[r] = "addSave"
       /\ \/ (~Exists(t) \/ MembershipConflict(t, m)) /\ Fail(r)
          \/ /\ Exists(t) /\ ~MembershipConflict(t, m)
             /\ memberships' = Joined(t, m, arg[r].role)
             /\ End(r)
             /\ UNCHANGED <<tenants, claims, nextTenant, rewritten, history>>

-----------------------------------------------------------------------------
\* The process dies or a query fails: what was written stays, nothing follows.
Crash(r) == pc[r] # "idle" /\ Fail(r)

Step(r) ==
    \/ CreateCheck(r) \/ SaveTenant(r) \/ SaveOwner(r)
    \/ UpdateLoad(r) \/ UpdateCheck(r) \/ UpdateSave(r)
    \/ UpdateWrite(r) \/ UpdateInsert(r)
    \/ DeleteLoad(r) \/ DeleteAssertOwner(r) \/ DeleteMembers(r) \/ DeleteTenant(r)
    \/ AddLoad(r) \/ AddCheck(r) \/ AddSave(r)
    \/ Crash(r)

Next ==
    \/ \E u \in User : IssueToken(u)
    \/ \E r \in Request :
         \/ Step(r)
         \/ \E u \in User :
              \/ \E a \in App \cup {Null}, nm \in Name, sl \in Slug :
                   StartCreate(r, u, a, nm, sl)
              \/ \E t \in TenantId :
                   \/ \E nm \in Name \cup {Null}, sl \in Slug \cup {Null} :
                        StartUpdate(r, u, t, nm, sl)
                   \/ StartDelete(r, u, t)
                   \/ \E m \in User \cup {Null}, role \in AddedRole :
                        StartAdd(r, u, t, m, role)

Spec == Init /\ [][Next]_vars

-----------------------------------------------------------------------------
(* Safety.                                                                 *)

\* However creations, re-slugs and re-insertions interleave between the slug check
\* and the write, no two tenants of an app end up with one slug.
UniqueSlugs ==
    \A s, t \in TenantId : Exists(s) /\ SameSlug(tenants[s], tenants[t]) => s = t

\* Concurrent additions of one user, each of which found no membership, leave the
\* user with one role in the tenant.
OneRolePerMember ==
    \A m, n \in memberships : m[1] = n[1] /\ m[2] = n[2] => m[3] = n[3]

\* No membership outlives its tenant row, even one added between the bulk delete of
\* the memberships and the delete of the tenant.
NoOrphanMemberships == \A m \in memberships : Exists(m[1])

\* Once its creation has completed, and until a DeleteTenantCommand of an owner
\* starts to remove it, a tenant has its row and an owner.  (What a deletion that fails
\* half-way leaves behind is what AbandonedForGood is about.)
OwnersUntilDeletion ==
    \A t \in owned \ deleting : Exists(t) /\ HasOwner(t)

\* Nobody gets into a tenant, by membership or by token, before the creator's
\* ownership has been stored: a half-created tenant stays closed.
NoEntryBeforeOwner ==
    /\ \A m \in memberships : m[1] \in owned
    /\ \A u \in User : \A c \in claims[u] : c[1] \in owned

\* The roles in access tokens, from which TenantPermissionGuard decides, are at most
\* the stored ones unless the tenant is being deleted or was.
ClaimsNeverExceedRoles ==
    \A u \in User : \A c \in claims[u] :
      c[1] \notin deleting => <<c[1], u, c[2]>> \in memberships

\* A column of a stored tenant changes only by the UPDATE of an update command, which writes
\* the value that the command names.  A column that the command leaves out it changes only if
\* another request has written that column since this one loaded the tenant, and then back to
\* what it had loaded: updates are lost where two overlap, never one after the other.
LostUpdatesNeedOverlap ==
    [][\A t \in TenantId, c \in Column :
         Exists(t) /\ Exists(t)' /\ tenants'[t][c] # tenants[t][c] =>
           \E r \in Request :
             /\ arg[r].tenant = t /\ pc[r] = "updateWrite" /\ pc'[r] = "idle"
             /\ \/ arg[r][c] # Null /\ tenants'[t][c] = arg[r][c]
                \/ arg[r][c] = Null /\ c \in rewritten[r] /\ tenants'[t][c] = copy[r][c]]_vars

\* Nobody has a role in t, a token for it or a request that works on it.
Abandoned(t) ==
    /\ t < nextTenant
    /\ \A m \in memberships : m[1] # t
    /\ \A u \in User : \A c \in claims[u] : c[1] # t
    /\ \A r \in Request : arg[r].tenant # t

\* What a creation or a deletion that failed between its two writes leaves, or an update
\* that stored a deleted tenant again, stays as it is once its tokens have expired: nobody
\* gets into the tenant, changes it or deletes it, and its slug stays taken.
AbandonedForGood ==
    [][\A t \in TenantId : Abandoned(t) => Abandoned(t)' /\ tenants'[t] = tenants[t]]_vars

-----------------------------------------------------------------------------
(* Refinement.                                                             *)

Access == INSTANCE TenantAccess WITH
    Tenant <- TenantId,
    Member <- User,
    Rank <- Role,
    present <- {t \in TenantId : Exists(t)},
    founded <- owned,
    closing <- deleting,
    roles <- memberships,
    granted <- claims

\* Interleaved at their awaits and failing anywhere, the handlers change who may enter
\* a tenant only by the atomic operations of TenantAccess: a role is given once and is
\* lost only with all others of its tenant, which an owner deletes; what an update
\* stores again after a deletion is a tenant without roles.
ImplementsAccess == Access!Spec

-----------------------------------------------------------------------------
(* What the documentation says and the interleaved handlers do not keep.   *)

\* tenancy/README.md:143: "the invariant (every tenant has an owner) must never be
\* violated, even transiently".  Stated more weakly than that: of tenants that no
\* request is creating or deleting.
TenantsAtRestHaveOwners ==
    \A t \in TenantId \ deleting :
      Exists(t) /\ (\A r \in Request : arg[r].tenant # t) => HasOwner(t)

\* tenancy/README.md:170: "Delete is a hard delete - the tenant row is physically
\* removed".  A deleted tenant stays deleted.
DeletedStaysDeleted == \A t \in deleted : ~Exists(t)
=============================================================================
