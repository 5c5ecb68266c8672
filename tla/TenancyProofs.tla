---------------------------- MODULE TenancyProofs ----------------------------
(***************************************************************************)
(* The tables of the tenancy context stay consistent for any number of     *)
(* apps, users, tenants and requests, although no handler opens a          *)
(* transaction.                                                            *)
(***************************************************************************)
EXTENDS Tenancy, TLAPS

Updating == {"updateCheck", "updateSave", "updateWrite", "updateInsert"}
Adding == {"addLoad", "addCheck", "addSave"}
Managing ==
    Updating \cup Adding \cup
      {"updateLoad", "deleteLoad", "deleteOwner", "deleteMembers", "deleteTenant"}

\* Tenants that were never inserted, or whose creation has not completed, are untouched.
FreshInv ==
    /\ \A t \in TenantId : t >= nextTenant => ~Exists(t) /\ t \notin owned
    /\ deleting \subseteq owned

\* What the tables, tokens and history satisfy together.
TableInv ==
    /\ FreshInv
    /\ UniqueSlugs /\ OneRolePerMember /\ NoOrphanMemberships
    /\ OwnersUntilDeletion /\ NoEntryBeforeOwner /\ ClaimsNeverExceedRoles

\* What a request knows at each program point.
RequestInv ==
    \A r \in Request :
      /\ pc[r] \in Creating \cup {"createOwner"} =>
           arg[r].user \in User /\ arg[r].name \in Name /\ arg[r].slug \in Slug
      /\ pc[r] = "createTenant" => arg[r].app \in App
      /\ pc[r] = "createOwner" =>
           arg[r].tenant \in TenantId /\ Exists(arg[r].tenant) /\ arg[r].tenant \notin owned
      /\ pc[r] \in Managing => arg[r].tenant \in owned
      /\ pc[r] \in Updating => copy[r] \in TenantRow
      /\ pc[r] = "deleteTenant" => arg[r].tenant \in deleting
      /\ pc[r] \in Adding => arg[r].role \in Role
      /\ pc[r] = "addSave" => arg[r].member \in User

\* No two creations work on one tenant.
CreationInv ==
    \A r, q \in Request :
      r # q /\ pc[r] = "createOwner" /\ pc[q] = "createOwner" => arg[r].tenant # arg[q].tenant

IInv == TypeOK /\ TableInv /\ RequestInv /\ CreationInv

-----------------------------------------------------------------------------
\* The invariant holds of the empty tables that the migration leaves.
LEMMA InitIInv == Init => IInv
<1> SUFFICES ASSUME Init PROVE IInv
  OBVIOUS
<1> USE TenancyAssumption DEF Init
<1>1. TypeOK
  BY DEF TypeOK, NoArg, Creating, TenantId
<1>2. TableInv
  BY DEF TableInv, FreshInv, UniqueSlugs, OneRolePerMember, NoOrphanMemberships,
     OwnersUntilDeletion, NoEntryBeforeOwner, ClaimsNeverExceedRoles, Exists, SameSlug
<1>3. RequestInv /\ CreationInv
  BY DEF RequestInv, CreationInv, Creating, Updating, Adding, Managing
<1> QED
  BY <1>1, <1>2, <1>3 DEF IInv

\* A step that leaves tables, tokens and history alone leaves what they satisfy.
LEMMA TableUnchanged ==
  ASSUME TableInv, UNCHANGED <<tables, claims, nextTenant, history>>
  PROVE  TableInv'
  BY DEF TableInv, FreshInv, UniqueSlugs, OneRolePerMember, NoOrphanMemberships,
     OwnersUntilDeletion, NoEntryBeforeOwner, ClaimsNeverExceedRoles, Exists, SameSlug,
     HasOwner, tables, history

\* A request that ends without a change, whatever it was doing.
LEMMA FailIInv ==
  ASSUME IInv, NEW r \in Request, Fail(r)
  PROVE  IInv'
<1>1. TableInv'
  BY TableUnchanged DEF IInv, Fail
<1>2. TypeOK'
  BY DEF IInv, TypeOK, Fail, End, NoArg, tables, history
<1>3. RequestInv' /\ CreationInv'
  BY DEF IInv, TypeOK, RequestInv, CreationInv, Fail, End, Exists, Creating, Updating,
     Adding, Managing, tables, history
<1> QED
  BY <1>1, <1>2, <1>3 DEF IInv

\* A request is given its command.
LEMMA StartIInv ==
  ASSUME IInv, NEW r \in Request, NEW a, NEW label, Start(r, a, label),
         a \in [user : User \cup {Null}, app : App \cup {Null},
                tenant : TenantId \cup {Null},
                name : Name \cup {Null}, slug : Slug \cup {Null},
                member : User \cup {Null}, role : Role \cup {Null}],
         \/ label = "createCheck" /\ a.user \in User /\ a.name \in Name /\ a.slug \in Slug
         \/ label \in {"updateLoad", "deleteLoad"} /\ a.tenant \in owned
         \/ label = "addLoad" /\ a.tenant \in owned /\ a.role \in Role
  PROVE  IInv'
<1>1. TableInv'
  BY TableUnchanged DEF IInv, Start
<1>2. TypeOK'
  BY DEF IInv, TypeOK, Start, Creating, tables, loaded, history
<1>3. RequestInv' /\ CreationInv'
  BY DEF IInv, TypeOK, RequestInv, CreationInv, Start, Exists, Creating, Updating,
     Adding, Managing, tables, loaded, history
<1> QED
  BY <1>1, <1>2, <1>3 DEF IInv

\* A request passes a read-only step.
LEMMA PassIInv ==
  ASSUME IInv, NEW r \in Request, NEW label, Pass(r, label),
         \/ pc[r] = "createCheck" /\ label = "createTenant" /\ arg[r].app \in App
         \/ pc[r] = "updateCheck" /\ label = "updateSave"
         \/ pc[r] = "updateSave" /\ label = "updateInsert"
         \/ pc[r] = "deleteLoad" /\ label = "deleteOwner"
         \/ pc[r] = "deleteOwner" /\ label = "deleteMembers"
         \/ pc[r] = "addLoad" /\ label = "addCheck"
         \/ pc[r] = "addCheck" /\ label = "addSave" /\ arg[r].member \in User
  PROVE  IInv'
<1>1. TableInv'
  BY TableUnchanged DEF IInv, Pass
<1>2. TypeOK'
  BY DEF IInv, TypeOK, Pass, Goto, Creating, tables, loaded, history
<1>3. RequestInv' /\ CreationInv'
  BY DEF IInv, TypeOK, RequestInv, CreationInv, Pass, Goto, Exists, Creating, Updating,
     Adding, Managing, tables, loaded, history
<1> QED
  BY <1>1, <1>2, <1>3 DEF IInv

\* The aggregate after the command is a row again, with the app it was loaded with.
LEMMA UpdatedType ==
  ASSUME NEW row \in TenantRow, NEW a,
         a.name \in Name \cup {Null}, a.slug \in Slug \cup {Null}
  PROVE  Updated(row, a) \in TenantRow /\ Updated(row, a).app = row.app
  BY DEF Updated, TenantRow

\* So is the row after an UPDATE of the columns that differed.
LEMMA WrittenType ==
  ASSUME TypeOK, NEW r \in Request, copy[r] \in TenantRow,
         arg[r].tenant \in TenantId, Exists(arg[r].tenant)
  PROVE  Written(r) \in TenantRow
<1>1. Updated(copy[r], arg[r]) \in TenantRow
  BY UpdatedType DEF TypeOK
<1>2. tenants[arg[r].tenant] \in TenantRow
  BY DEF TypeOK, Exists
<1> QED
  BY <1>1, <1>2 DEF Written, TenantRow

\* Login and refresh copy roles from the membership table.
LEMMA IssueIInv ==
  ASSUME IInv, NEW u \in User, IssueToken(u)
  PROVE  IInv'
<1>1. \A c \in RolesOf(u) : c \in TenantId \X Role /\ <<c[1], u, c[2]>> \in memberships
  BY DEF IInv, TypeOK, RolesOf, MembershipsOfUser, Membership
<1>2. \A v \in User : \A c \in claims'[v] :
        c \in claims[v] \/ (c \in TenantId \X Role /\ <<c[1], v, c[2]>> \in memberships)
  BY <1>1 DEF IInv, TypeOK, IssueToken
<1>3. claims' \in [User -> SUBSET (TenantId \X Role)]
  <2>1. claims \in [User -> SUBSET (TenantId \X Role)]
    BY DEF IInv, TypeOK
  <2>2. RolesOf(u) \in SUBSET (TenantId \X Role)
    BY <1>1
  <2>3. \/ claims' = [claims EXCEPT ![u] = RolesOf(u)]
        \/ claims' = [claims EXCEPT ![u] = claims[u] \cup RolesOf(u)]
    BY DEF IssueToken
  <2>4. claims[u] \cup RolesOf(u) \in SUBSET (TenantId \X Role)
    BY <2>1, <2>2
  <2> QED
    BY <2>1, <2>2, <2>3, <2>4
<1>4. TypeOK'
  BY <1>3 DEF IInv, TypeOK, IssueToken, tables, loaded, history
<1>5. NoEntryBeforeOwner'
  <2>1. \A v \in User : \A c \in claims'[v] : c[1] \in owned
    BY <1>2 DEF IInv, TableInv, NoEntryBeforeOwner
  <2> QED
    BY <2>1 DEF IInv, TableInv, NoEntryBeforeOwner, IssueToken, tables, history
<1>6. ClaimsNeverExceedRoles'
  <2>1. \A v \in User : \A c \in claims'[v] :
          c[1] \notin deleting => <<c[1], v, c[2]>> \in memberships
    BY <1>2 DEF IInv, TableInv, ClaimsNeverExceedRoles
  <2> QED
    BY <2>1 DEF ClaimsNeverExceedRoles, IssueToken, tables, history
<1>7. FreshInv' /\ UniqueSlugs' /\ OneRolePerMember' /\ NoOrphanMemberships'
        /\ OwnersUntilDeletion'
  BY DEF IInv, TableInv, FreshInv, UniqueSlugs, OneRolePerMember, NoOrphanMemberships,
     OwnersUntilDeletion, Exists, SameSlug, HasOwner, IssueToken, tables, history
<1>8. RequestInv' /\ CreationInv'
  BY DEF IInv, RequestInv, CreationInv, Exists, IssueToken, tables, loaded, history
<1> QED
  BY <1>4, <1>5, <1>6, <1>7, <1>8 DEF IInv, TableInv

\* The new row is a tenant that nobody has heard of.
LEMMA SaveTenantIInv ==
  ASSUME IInv, NEW r \in Request, SaveTenant(r), ~Fail(r)
  PROVE  IInv'
<1> DEFINE row == NewTenant(arg[r])
<1>1. /\ pc[r] = "createTenant" /\ ~SlugConflict(nextTenant, row)
      /\ tenants' = [tenants EXCEPT ![nextTenant] = row]
      /\ nextTenant' = nextTenant + 1 /\ nextTenant \in TenantId
      /\ pc' = [pc EXCEPT ![r] = "createOwner"]
      /\ arg' = [arg EXCEPT ![r].tenant = nextTenant]
      /\ UNCHANGED <<memberships, claims, copy, diff, rewritten, owned, deleting, deleted>>
  BY TenancyAssumption DEF SaveTenant, loaded, history, IInv, TypeOK, TenantId
<1>2. row \in TenantRow /\ row # Null
  BY <1>1, TenancyAssumption
  DEF IInv, RequestInv, Creating, NewTenant, TenantRow
<1>3. /\ nextTenant \notin owned /\ ~Exists(nextTenant)
      /\ \A t \in owned : t \in TenantId /\ t < nextTenant
  BY <1>1, TenancyAssumption DEF IInv, TypeOK, TableInv, FreshInv, TenantId
<1>4. TypeOK'
  <2>1. tenants' \in [TenantId -> TenantRow \cup {Null}]
    BY <1>1, <1>2 DEF IInv, TypeOK
  <2>2. nextTenant' \in 1..(MaxTenants + 1)
    BY <1>1, TenancyAssumption DEF IInv, TypeOK, TenantId
  <2> DEFINE Command == [user : User \cup {Null}, app : App \cup {Null},
                         tenant : TenantId \cup {Null},
                         name : Name \cup {Null}, slug : Slug \cup {Null},
                         member : User \cup {Null}, role : Role \cup {Null}]
  <2>3. arg' \in [Request -> Command]
    <3>1. arg' = [arg EXCEPT ![r] = [arg[r] EXCEPT !.tenant = nextTenant]]
      BY <1>1
    <3>2. arg \in [Request -> Command] /\ arg[r] \in Command
      BY DEF IInv, TypeOK
    <3>3. nextTenant \in TenantId
      BY <1>1
    <3>4. [arg[r] EXCEPT !.tenant = nextTenant] \in Command
      BY <3>2, <3>3
    <3> HIDE DEF Command
    <3> QED
      BY <3>1, <3>2, <3>4
  <2> QED
    BY <1>1, <2>1, <2>2, <2>3 DEF IInv, TypeOK, Creating
<1>5. \A t \in TenantId : tenants'[t] = IF t = nextTenant THEN row ELSE tenants[t]
  BY <1>1 DEF IInv, TypeOK
<1>6. FreshInv'
  BY <1>1, <1>5, TenancyAssumption
  DEF IInv, TypeOK, TableInv, FreshInv, Exists, TenantId
<1>7. UniqueSlugs'
  BY <1>1, <1>2, <1>5 DEF IInv, TableInv, UniqueSlugs, Exists, SameSlug, SlugConflict
<1>8. NoOrphanMemberships' /\ OwnersUntilDeletion'
  BY <1>1, <1>2, <1>3, <1>5
  DEF IInv, TypeOK, TableInv, NoOrphanMemberships, NoEntryBeforeOwner,
      OwnersUntilDeletion, Exists, HasOwner
<1>9. OneRolePerMember' /\ NoEntryBeforeOwner' /\ ClaimsNeverExceedRoles'
  BY <1>1
  DEF IInv, TableInv, OneRolePerMember, NoEntryBeforeOwner, ClaimsNeverExceedRoles
<1>10. /\ arg'[r] = [arg[r] EXCEPT !.tenant = nextTenant] /\ pc'[r] = "createOwner"
       /\ \A q \in Request \ {r} : arg'[q] = arg[q] /\ pc'[q] = pc[q]
  BY <1>1 DEF IInv, TypeOK
<1>11. RequestInv'
  BY <1>1, <1>2, <1>3, <1>5, <1>10
  DEF IInv, TypeOK, RequestInv, Exists, Creating, Updating, Adding, Managing
<1>12. CreationInv'
  BY <1>3, <1>10 DEF IInv, TypeOK, RequestInv, CreationInv
<1> QED
  BY <1>4, <1>6, <1>7, <1>8, <1>9, <1>11, <1>12 DEF IInv, TableInv

\* The creator's membership is the first of its tenant.
LEMMA SaveOwnerIInv ==
  ASSUME IInv, NEW r \in Request, SaveOwner(r)
  PROVE  IInv'
<1> DEFINE t == arg[r].tenant
           u == arg[r].user
<1>1. /\ pc[r] = "createOwner"
      /\ memberships' = memberships \cup {<<t, u, "OWNER">>}
      /\ owned' = owned \cup {t}
      /\ End(r)
      /\ UNCHANGED <<tenants, claims, nextTenant, rewritten, deleting, deleted>>
  BY DEF SaveOwner, Joined
<1>2. t \in TenantId /\ Exists(t) /\ t \notin owned /\ u \in User
  BY <1>1 DEF IInv, RequestInv
<1>3. \A m \in memberships : m \in Membership /\ m[1] # t
  BY <1>2 DEF IInv, TypeOK, TableInv, NoEntryBeforeOwner
<1>4. \A s \in TenantId : s >= nextTenant => s # t
  BY <1>2 DEF IInv, TableInv, FreshInv
<1>5. /\ pc'[r] = "idle"
      /\ \A q \in Request \ {r} : pc'[q] = pc[q] /\ arg'[q] = arg[q] /\ copy'[q] = copy[q]
  BY <1>1 DEF IInv, TypeOK, End
<1>6. \A q \in Request \ {r} : pc[q] = "createOwner" => arg[q].tenant # t
  BY <1>1 DEF IInv, CreationInv
<1>7. TypeOK'
  BY <1>1, <1>2 DEF IInv, TypeOK, End, NoArg, Membership, Role
<1>8. FreshInv'
  BY <1>1, <1>4 DEF IInv, TableInv, FreshInv, Exists
<1>9. UniqueSlugs'
  BY <1>1 DEF IInv, TableInv, UniqueSlugs, Exists, SameSlug
<1>10. OneRolePerMember'
  BY <1>1, <1>3 DEF IInv, TableInv, OneRolePerMember
<1>11. NoOrphanMemberships'
  BY <1>1, <1>2 DEF IInv, TableInv, NoOrphanMemberships, Exists
<1>12. OwnersUntilDeletion'
  BY <1>1, <1>2 DEF IInv, TableInv, OwnersUntilDeletion, Exists, HasOwner
<1>13. NoEntryBeforeOwner' /\ ClaimsNeverExceedRoles'
  BY <1>1 DEF IInv, TableInv, NoEntryBeforeOwner, ClaimsNeverExceedRoles
<1>14. RequestInv'
  BY <1>1, <1>5, <1>6
  DEF IInv, RequestInv, Exists, Creating, Updating, Adding, Managing
<1>15. CreationInv'
  BY <1>5 DEF IInv, CreationInv
<1> QED
  BY <1>7, <1>8, <1>9, <1>10, <1>11, <1>12, <1>13, <1>14, <1>15 DEF IInv, TableInv

\* The new row has a slug of its own, and the tenant had its owner before.
LEMMA StoreIInv ==
  ASSUME IInv, NEW r \in Request, NEW row \in TenantRow, NEW columns \in SUBSET Column,
         pc[r] \in Managing, UpdateStore(r, row, columns), ~Fail(r)
  PROVE  IInv'
<1> DEFINE t == arg[r].tenant
<1>1. /\ ~SlugConflict(t, row)
      /\ tenants' = [tenants EXCEPT ![t] = row]
      /\ End(r)
      /\ rewritten' \in [Request -> SUBSET Column]
      /\ UNCHANGED <<memberships, claims, nextTenant, owned, deleting, deleted>>
  BY DEF UpdateStore, history, IInv, TypeOK
<1>2. t \in owned /\ t \in TenantId /\ row # Null
  BY TenancyAssumption DEF IInv, TypeOK, RequestInv
<1>3. \A s \in TenantId : tenants'[s] = IF s = t THEN row ELSE tenants[s]
  BY <1>1 DEF IInv, TypeOK
<1>4. /\ pc'[r] = "idle"
      /\ \A q \in Request \ {r} : pc'[q] = pc[q] /\ arg'[q] = arg[q] /\ copy'[q] = copy[q]
  BY <1>1 DEF IInv, TypeOK, End
<1>5. TypeOK'
  BY <1>1, <1>2 DEF IInv, TypeOK, End, NoArg
<1>6. FreshInv'
  BY <1>1, <1>2, <1>3 DEF IInv, TableInv, FreshInv, Exists
<1>7. UniqueSlugs'
  BY <1>1, <1>2, <1>3 DEF IInv, TableInv, UniqueSlugs, Exists, SameSlug, SlugConflict
<1>8. NoOrphanMemberships' /\ OwnersUntilDeletion'
  BY <1>1, <1>2, <1>3
  DEF IInv, TypeOK, TableInv, NoOrphanMemberships, NoEntryBeforeOwner,
      OwnersUntilDeletion, Exists, HasOwner
<1>9. OneRolePerMember' /\ NoEntryBeforeOwner' /\ ClaimsNeverExceedRoles'
  BY <1>1
  DEF IInv, TableInv, OneRolePerMember, NoEntryBeforeOwner, ClaimsNeverExceedRoles
<1>10. RequestInv'
  BY <1>1, <1>2, <1>3, <1>4
  DEF IInv, RequestInv, Exists, Creating, Updating, Adding, Managing
<1>11. CreationInv'
  BY <1>4 DEF IInv, CreationInv
<1> QED
  BY <1>5, <1>6, <1>7, <1>8, <1>9, <1>10, <1>11 DEF IInv, TableInv

\* The bulk delete takes the memberships of one tenant, from now on being deleted.
LEMMA DeleteMembersIInv ==
  ASSUME IInv, NEW r \in Request, DeleteMembers(r)
  PROVE  IInv'
<1> DEFINE t == arg[r].tenant
<1>1. /\ pc[r] = "deleteMembers"
      /\ memberships' = {m \in memberships : m[1] # t}
      /\ deleting' = deleting \cup {t}
      /\ pc' = [pc EXCEPT ![r] = "deleteTenant"]
      /\ UNCHANGED <<tenants, claims, nextTenant, arg, copy, diff, rewritten, owned, deleted>>
  BY DEF DeleteMembers, MembershipsOf, Goto, loaded
<1>2. t \in owned /\ t \in TenantId
  BY <1>1 DEF IInv, TypeOK, RequestInv, Managing
<1>3. TypeOK'
  BY <1>1, <1>2 DEF IInv, TypeOK
<1>4. FreshInv' /\ UniqueSlugs'
  BY <1>1, <1>2 DEF IInv, TableInv, FreshInv, UniqueSlugs, Exists, SameSlug
<1>5. OneRolePerMember' /\ NoOrphanMemberships' /\ NoEntryBeforeOwner'
  BY <1>1
  DEF IInv, TableInv, OneRolePerMember, NoOrphanMemberships, NoEntryBeforeOwner, Exists
<1>6. OwnersUntilDeletion'
  BY <1>1 DEF IInv, TableInv, OwnersUntilDeletion, Exists, HasOwner
<1>7. ClaimsNeverExceedRoles'
  BY <1>1 DEF IInv, TableInv, ClaimsNeverExceedRoles
<1>8. RequestInv' /\ CreationInv'
  BY <1>1, <1>2
  DEF IInv, TypeOK, RequestInv, CreationInv, Exists, Creating, Updating, Adding, Managing
<1> QED
  BY <1>3, <1>4, <1>5, <1>6, <1>7, <1>8 DEF IInv, TableInv

\* The cascade takes what was added since the bulk delete.
LEMMA DeleteTenantIInv ==
  ASSUME IInv, NEW r \in Request, DeleteTenant(r)
  PROVE  IInv'
<1> DEFINE t == arg[r].tenant
<1>1. /\ pc[r] = "deleteTenant"
      /\ tenants' = [tenants EXCEPT ![t] = Null]
      /\ memberships' = {m \in memberships : m[1] # t}
      /\ deleted' = deleted \cup {t}
      /\ End(r)
      /\ UNCHANGED <<claims, nextTenant, rewritten, owned, deleting>>
  BY DEF DeleteTenant, Cascaded
<1>2. t \in owned /\ t \in deleting /\ t \in TenantId
  BY <1>1 DEF IInv, TypeOK, RequestInv, Managing
<1>3. \A s \in TenantId : tenants'[s] = IF s = t THEN Null ELSE tenants[s]
  BY <1>1 DEF IInv, TypeOK
<1>4. /\ pc'[r] = "idle"
      /\ \A q \in Request \ {r} : pc'[q] = pc[q] /\ arg'[q] = arg[q] /\ copy'[q] = copy[q]
  BY <1>1 DEF IInv, TypeOK, End
<1>5. TypeOK'
  BY <1>1, <1>2 DEF IInv, TypeOK, End, NoArg
<1>6. FreshInv' /\ UniqueSlugs'
  BY <1>1, <1>2, <1>3 DEF IInv, TableInv, FreshInv, UniqueSlugs, Exists, SameSlug
<1>7. OneRolePerMember' /\ NoEntryBeforeOwner'
  BY <1>1 DEF IInv, TableInv, OneRolePerMember, NoEntryBeforeOwner
<1>8. NoOrphanMemberships'
  BY <1>1, <1>3 DEF IInv, TypeOK, TableInv, NoOrphanMemberships, Exists, Membership
<1>9. OwnersUntilDeletion' /\ ClaimsNeverExceedRoles'
  <2>1. \A s \in owned \ deleting : s # t /\ s \in TenantId
    BY <1>2 DEF IInv, TypeOK
  <2> QED
    BY <1>1, <1>2, <1>3, <2>1
    DEF IInv, TableInv, OwnersUntilDeletion, ClaimsNeverExceedRoles, Exists, HasOwner
<1>10. RequestInv'
  BY <1>1, <1>2, <1>3, <1>4
  DEF IInv, RequestInv, Exists, Creating, Updating, Adding, Managing
<1>11. CreationInv'
  BY <1>4 DEF IInv, CreationInv
<1> QED
  BY <1>5, <1>6, <1>7, <1>8, <1>9, <1>10, <1>11 DEF IInv, TableInv

\* The new member had no role in the tenant, which has its row and had its owner.
LEMMA AddSaveIInv ==
  ASSUME IInv, NEW r \in Request, AddSave(r), ~Fail(r)
  PROVE  IInv'
<1> DEFINE t == arg[r].tenant
           u == arg[r].member
           role == arg[r].role
<1>1. /\ pc[r] = "addSave" /\ Exists(t) /\ ~IsMember(t, u)
      /\ memberships' = memberships \cup {<<t, u, role>>}
      /\ End(r)
      /\ UNCHANGED <<tenants, claims, nextTenant, rewritten, owned, deleting, deleted>>
  BY DEF AddSave, MembershipConflict, Joined, history
<1>2. t \in owned /\ t \in TenantId /\ u \in User /\ role \in Role
  BY <1>1 DEF IInv, TypeOK, RequestInv, Managing, Adding
<1>3. \A m \in memberships : ~(m[1] = t /\ m[2] = u)
  <2> SUFFICES ASSUME NEW m \in memberships, m[1] = t, m[2] = u PROVE FALSE
    OBVIOUS
  <2>1. m \in Membership
    BY DEF IInv, TypeOK
  <2>2. m = <<t, u, m[3]>> /\ m[3] \in Role
    BY <2>1 DEF Membership
  <2> QED
    BY <1>1, <2>2 DEF IsMember
<1>4. /\ pc'[r] = "idle"
      /\ \A q \in Request \ {r} : pc'[q] = pc[q] /\ arg'[q] = arg[q] /\ copy'[q] = copy[q]
  BY <1>1 DEF IInv, TypeOK, End
<1>5. TypeOK'
  BY <1>1, <1>2 DEF IInv, TypeOK, End, NoArg, Membership
<1>6. FreshInv' /\ UniqueSlugs'
  BY <1>1 DEF IInv, TableInv, FreshInv, UniqueSlugs, Exists, SameSlug
<1>7. OneRolePerMember'
  BY <1>1, <1>3 DEF IInv, TableInv, OneRolePerMember
<1>8. NoOrphanMemberships' /\ NoEntryBeforeOwner' /\ ClaimsNeverExceedRoles'
  BY <1>1, <1>2
  DEF IInv, TableInv, NoOrphanMemberships, NoEntryBeforeOwner, ClaimsNeverExceedRoles,
      Exists
<1>9. OwnersUntilDeletion'
  BY <1>1 DEF IInv, TableInv, OwnersUntilDeletion, Exists, HasOwner
<1>10. RequestInv'
  BY <1>1, <1>4
  DEF IInv, RequestInv, Exists, Creating, Updating, Adding, Managing
<1>11. CreationInv'
  BY <1>4 DEF IInv, CreationInv
<1> QED
  BY <1>5, <1>6, <1>7, <1>8, <1>9, <1>10, <1>11 DEF IInv, TableInv

\* Whoever is let through to a tenant holds a token for it, so its creation completed.
LEMMA GrantedOwned ==
  ASSUME IInv, NEW u \in User, NEW t, NEW p, Granted(u, t, p)
  PROVE  t \in owned
  BY DEF IInv, TableInv, NoEntryBeforeOwner, Granted

\* Every step of the context keeps the invariant.
LEMMA StepIInv == IInv /\ [Next]_vars => IInv'
<1> SUFFICES ASSUME IInv, [Next]_vars PROVE IInv'
  OBVIOUS
<1>1. CASE UNCHANGED vars
  BY <1>1, TableUnchanged
  DEF vars, tables, loaded, history, IInv, TypeOK, RequestInv, CreationInv, Exists
<1>2. ASSUME NEW u \in User, IssueToken(u) PROVE IInv'
  BY <1>2, IssueIInv
<1>3. ASSUME NEW r \in Request, Step(r) PROVE IInv'
  <2>1. CASE Fail(r)
    BY <2>1, FailIInv
  <2>2. CASE CreateCheck(r) /\ ~Fail(r)
    BY <2>2, PassIInv DEF CreateCheck, AppFound
  <2>3. CASE SaveTenant(r) /\ ~Fail(r)
    BY <2>3, SaveTenantIInv
  <2>4. CASE SaveOwner(r)
    BY <2>4, SaveOwnerIInv
  <2>5. CASE UpdateLoad(r) /\ ~Fail(r)
    <3>1. /\ pc[r] = "updateLoad" /\ Exists(arg[r].tenant)
          /\ copy' = [copy EXCEPT ![r] = tenants[arg[r].tenant]]
          /\ pc' = [pc EXCEPT ![r] = "updateCheck"]
          /\ UNCHANGED <<tenants, memberships, claims, nextTenant, arg, diff, rewritten,
                         owned, deleting, deleted>>
      BY <2>5 DEF UpdateLoad, Goto, tables, history
    <3>2. arg[r].tenant \in TenantId /\ tenants[arg[r].tenant] \in TenantRow
      BY <3>1 DEF IInv, TypeOK, RequestInv, Managing, Exists
    <3>3. TableInv'
      BY <3>1, TableUnchanged DEF IInv, tables, history
    <3>4. TypeOK'
      BY <3>1, <3>2 DEF IInv, TypeOK
    <3>5. RequestInv' /\ CreationInv'
      BY <3>1, <3>2
      DEF IInv, TypeOK, RequestInv, CreationInv, Exists, Creating, Updating, Adding, Managing
    <3> QED
      BY <3>3, <3>4, <3>5 DEF IInv
  <2>6. CASE UpdateCheck(r) /\ ~Fail(r)
    BY <2>6, PassIInv DEF UpdateCheck
  <2>7. CASE UpdateSave(r) /\ ~Fail(r)
    <3>1. CASE pc[r] = "updateSave" /\ Pass(r, "updateInsert")
      BY <3>1, PassIInv
    <3>2. CASE ~Pass(r, "updateInsert")
      <4>1. PICK d \in SUBSET Column :
              /\ pc[r] = "updateSave"
              /\ diff' = [diff EXCEPT ![r] = d]
              /\ pc' = [pc EXCEPT ![r] = "updateWrite"]
              /\ UNCHANGED <<tenants, memberships, claims, nextTenant, arg, copy, rewritten,
                             owned, deleting, deleted>>
        BY <2>7, <3>2 DEF UpdateSave, Goto, tables, history
      <4>2. TableInv'
        BY <4>1, TableUnchanged DEF IInv, tables, history
      <4>3. TypeOK'
        BY <4>1 DEF IInv, TypeOK
      <4>4. RequestInv' /\ CreationInv'
        BY <4>1
        DEF IInv, TypeOK, RequestInv, CreationInv, Exists, Creating, Updating, Adding,
            Managing
      <4> QED
        BY <4>2, <4>3, <4>4 DEF IInv
    <3> QED
      BY <2>7, <3>1, <3>2 DEF UpdateSave
  <2>8. CASE UpdateWrite(r) /\ ~Fail(r)
    <3>1. /\ pc[r] = "updateWrite" /\ Exists(arg[r].tenant)
          /\ UpdateStore(r, Written(r), diff[r]) /\ diff[r] \in SUBSET Column
      BY <2>8 DEF UpdateWrite, IInv, TypeOK
    <3>2. Written(r) \in TenantRow
      BY <3>1, WrittenType DEF IInv, TypeOK, RequestInv, Managing, Updating
    <3> QED
      BY <2>8, <3>1, <3>2, StoreIInv DEF Managing, Updating
  <2>9. CASE UpdateInsert(r) /\ ~Fail(r)
    <3>1. pc[r] = "updateInsert" /\ UpdateStore(r, Updated(copy[r], arg[r]), Column)
      BY <2>9 DEF UpdateInsert
    <3>2. Updated(copy[r], arg[r]) \in TenantRow
      BY <3>1, UpdatedType DEF IInv, TypeOK, RequestInv, Updating
    <3> QED
      BY <2>9, <3>1, <3>2, StoreIInv DEF Managing, Updating
  <2>10. CASE DeleteLoad(r) /\ ~Fail(r)
    BY <2>10, PassIInv DEF DeleteLoad
  <2>11. CASE DeleteAssertOwner(r) /\ ~Fail(r)
    BY <2>11, PassIInv DEF DeleteAssertOwner
  <2>12. CASE DeleteMembers(r)
    BY <2>12, DeleteMembersIInv
  <2>13. CASE DeleteTenant(r)
    BY <2>13, DeleteTenantIInv
  <2>14. CASE AddLoad(r) /\ ~Fail(r)
    BY <2>14, PassIInv DEF AddLoad
  <2>15. CASE AddCheck(r) /\ ~Fail(r)
    BY <2>15, PassIInv DEF AddCheck, UserFound
  <2>16. CASE AddSave(r) /\ ~Fail(r)
    BY <2>16, AddSaveIInv
  <2> QED
    BY <1>3, <2>1, <2>2, <2>3, <2>4, <2>5, <2>6, <2>7, <2>8, <2>9, <2>10, <2>11, <2>12,
       <2>13, <2>14, <2>15, <2>16
    DEF Step, Crash
<1>4. ASSUME NEW r \in Request, NEW u \in User, NEW a \in App \cup {Null},
             NEW nm \in Name, NEW sl \in Slug, StartCreate(r, u, a, nm, sl)
      PROVE  IInv'
  <2> DEFINE b == [NoArg EXCEPT !.user = u, !.app = a, !.name = nm, !.slug = sl]
  <2>1. /\ b \in [user : User \cup {Null}, app : App \cup {Null},
                  tenant : TenantId \cup {Null},
                  name : Name \cup {Null}, slug : Slug \cup {Null},
                  member : User \cup {Null}, role : Role \cup {Null}]
        /\ b.user \in User /\ b.name \in Name /\ b.slug \in Slug
    BY DEF NoArg
  <2>2. Start(r, b, "createCheck")
    BY <1>4 DEF StartCreate
  <2> HIDE DEF b
  <2> QED
    BY <2>1, <2>2, StartIInv
<1>5. ASSUME NEW r \in Request, NEW u \in User, NEW t \in TenantId,
             NEW nm \in Name \cup {Null}, NEW sl \in Slug \cup {Null},
             StartUpdate(r, u, t, nm, sl)
      PROVE  IInv'
  <2> DEFINE b == [NoArg EXCEPT !.tenant = t, !.name = nm, !.slug = sl]
  <2>1. /\ b \in [user : User \cup {Null}, app : App \cup {Null},
                  tenant : TenantId \cup {Null},
                  name : Name \cup {Null}, slug : Slug \cup {Null},
                  member : User \cup {Null}, role : Role \cup {Null}]
        /\ b.tenant = t
    BY DEF NoArg
  <2>2. Start(r, b, "updateLoad") /\ t \in owned
    BY <1>5, GrantedOwned DEF StartUpdate
  <2> HIDE DEF b
  <2> QED
    BY <2>1, <2>2, StartIInv
<1>6. ASSUME NEW r \in Request, NEW u \in User, NEW t \in TenantId, StartDelete(r, u, t)
      PROVE  IInv'
  <2> DEFINE b == [NoArg EXCEPT !.user = u, !.tenant = t]
  <2>1. /\ b \in [user : User \cup {Null}, app : App \cup {Null},
                  tenant : TenantId \cup {Null},
                  name : Name \cup {Null}, slug : Slug \cup {Null},
                  member : User \cup {Null}, role : Role \cup {Null}]
        /\ b.tenant = t
    BY DEF NoArg
  <2>2. Start(r, b, "deleteLoad") /\ t \in owned
    BY <1>6, GrantedOwned DEF StartDelete
  <2> HIDE DEF b
  <2> QED
    BY <2>1, <2>2, StartIInv
<1>7. ASSUME NEW r \in Request, NEW u \in User, NEW t \in TenantId,
             NEW m \in User \cup {Null}, NEW role \in AddedRole,
             StartAdd(r, u, t, m, role)
      PROVE  IInv'
  <2> DEFINE b == [NoArg EXCEPT !.tenant = t, !.member = m, !.role = role]
  <2>1. /\ b \in [user : User \cup {Null}, app : App \cup {Null},
                  tenant : TenantId \cup {Null},
                  name : Name \cup {Null}, slug : Slug \cup {Null},
                  member : User \cup {Null}, role : Role \cup {Null}]
        /\ b.tenant = t /\ b.role \in Role
    BY TenancyAssumption DEF NoArg
  <2>2. Start(r, b, "addLoad") /\ t \in owned
    BY <1>7, GrantedOwned DEF StartAdd
  <2> HIDE DEF b
  <2> QED
    BY <2>1, <2>2, StartIInv
<1> QED
  BY <1>1, <1>2, <1>3, <1>4, <1>5, <1>6, <1>7 DEF Next

\* The invariant holds throughout.
LEMMA Invariance == Spec => []IInv
  BY InitIInv, StepIInv, PTL DEF Spec

-----------------------------------------------------------------------------
\* Tables, tokens, commands and loaded aggregates keep their types.
THEOREM TypeCorrect == Spec => []TypeOK
  BY Invariance, PTL DEF IInv

\* However checks and writes interleave, no app has two tenants with one slug.
THEOREM SlugsAreUnique == Spec => []UniqueSlugs
  BY Invariance, PTL DEF IInv, TableInv

\* Concurrent additions of a user leave one role.
THEOREM OneRoleEach == Spec => []OneRolePerMember
  BY Invariance, PTL DEF IInv, TableInv

\* Deleting a tenant leaves none of its memberships, whenever they were added.
THEOREM NoOrphans == Spec => []NoOrphanMemberships
  BY Invariance, PTL DEF IInv, TableInv

\* A tenant whose creation completed keeps its row and an owner until its deletion.
THEOREM OwnersStay == Spec => []OwnersUntilDeletion
  BY Invariance, PTL DEF IInv, TableInv

\* A half-created tenant stays closed to everybody.
THEOREM HalfCreatedIsClosed == Spec => []NoEntryBeforeOwner
  BY Invariance, PTL DEF IInv, TableInv

\* Access tokens grant no more than the membership table, deletions aside.
THEOREM ClaimsAreBacked == Spec => []ClaimsNeverExceedRoles
  BY Invariance, PTL DEF IInv, TableInv

\* A step of one request moves no other request.
LEMMA OthersStay ==
  ASSUME IInv, NEW r \in Request, NEW q \in Request, q # r,
         \/ Step(q)
         \/ \E a, label : Start(q, a, label)
  PROVE  /\ pc'[r] = pc[r] /\ arg'[r] = arg[r] /\ copy'[r] = copy[r]
         /\ rewritten[r] \subseteq rewritten'[r]
<1>1. CASE Fail(q)
  BY <1>1 DEF IInv, TypeOK, Fail, End
<1>2. CASE \E label : Pass(q, label)
  BY <1>2 DEF IInv, TypeOK, Pass, Goto, loaded
<1>3. CASE \E a, label : Start(q, a, label)
  BY <1>3 DEF IInv, TypeOK, Start, loaded
<1>4. CASE SaveTenant(q)
  BY <1>1, <1>4 DEF IInv, TypeOK, SaveTenant, loaded
<1>5. CASE SaveOwner(q) \/ DeleteTenant(q) \/ DeleteMembers(q)
  BY <1>5 DEF IInv, TypeOK, SaveOwner, DeleteTenant, DeleteMembers, End, Goto, loaded
<1>6. CASE UpdateLoad(q) \/ UpdateSave(q)
  BY <1>1, <1>2, <1>6 DEF IInv, TypeOK, UpdateLoad, UpdateSave, Goto
<1>7. CASE UpdateWrite(q) \/ UpdateInsert(q) \/ AddSave(q)
  BY <1>1, <1>7 DEF IInv, TypeOK, UpdateWrite, UpdateInsert, UpdateStore, AddSave, End
<1>8. CASE CreateCheck(q) \/ UpdateCheck(q) \/ DeleteLoad(q) \/ DeleteAssertOwner(q)
             \/ AddLoad(q) \/ AddCheck(q) \/ Crash(q)
  BY <1>1, <1>2, <1>8
  DEF CreateCheck, UpdateCheck, DeleteLoad, DeleteAssertOwner, AddLoad, AddCheck, Crash
<1> QED
  BY <1>3, <1>4, <1>5, <1>6, <1>7, <1>8 DEF Step

\* The steps that write tables, tokens or history; the others are silent.
LEMMA WritingSteps ==
  ASSUME [Next]_vars
  PROVE  \/ UNCHANGED <<tables, claims, nextTenant, owned, deleting>>
         \/ \E u \in User : IssueToken(u)
         \/ \E r \in Request :
              /\ ~Fail(r)
              /\ \/ SaveTenant(r) \/ SaveOwner(r) \/ UpdateWrite(r) \/ UpdateInsert(r)
                 \/ DeleteMembers(r) \/ DeleteTenant(r) \/ AddSave(r)
<1>1. CASE \E r \in Request : Fail(r)
  BY <1>1 DEF Fail, history
<1>2. CASE \E r \in Request : \E label : Pass(r, label)
  BY <1>2 DEF Pass, history
<1>3. CASE \E r \in Request : \E a, label : Start(r, a, label)
  BY <1>3 DEF Start, history
<1>4. CASE UNCHANGED vars
  BY <1>4 DEF vars, history
<1>5. ASSUME NEW r \in Request, Step(r), ~Fail(r), ~ \E label : Pass(r, label)
      PROVE  \/ UNCHANGED <<tables, claims, nextTenant, owned, deleting>>
             \/ SaveTenant(r) \/ SaveOwner(r) \/ UpdateWrite(r) \/ UpdateInsert(r)
             \/ DeleteMembers(r) \/ DeleteTenant(r) \/ AddSave(r)
  <2>1. CASE UpdateLoad(r) \/ UpdateSave(r)
    BY <1>5, <2>1 DEF UpdateLoad, UpdateSave, history
  <2>2. CASE CreateCheck(r) \/ UpdateCheck(r) \/ DeleteLoad(r) \/ DeleteAssertOwner(r)
               \/ AddLoad(r) \/ AddCheck(r) \/ Crash(r)
    BY <1>5, <2>2
    DEF CreateCheck, UpdateCheck, DeleteLoad, DeleteAssertOwner, AddLoad, AddCheck, Crash
  <2> QED
    BY <1>5, <2>1, <2>2 DEF Step
<1> QED
  BY <1>1, <1>2, <1>3, <1>4, <1>5
  DEF Next, StartCreate, StartUpdate, StartDelete, StartAdd

-----------------------------------------------------------------------------
(* Lost updates.                                                           *)

\* What an update has loaded is what the table holds, but for the columns that others have
\* written since.
OverlapInv ==
    \A r \in Request :
      pc[r] \in Updating /\ Exists(arg[r].tenant) =>
        \A c \in Column \ rewritten[r] : tenants[arg[r].tenant][c] = copy[r][c]

\* Who is in an update after a step has just loaded its tenant, or has been in it before.
LEMMA UpdateContinues ==
  ASSUME IInv, [Next]_vars, NEW r \in Request, pc'[r] \in Updating
  PROVE  \/ /\ copy'[r] = tenants[arg[r].tenant] /\ arg'[r] = arg[r] /\ tenants' = tenants
         \/ /\ pc[r] \in Updating /\ arg'[r] = arg[r] /\ copy'[r] = copy[r]
            /\ rewritten[r] \subseteq rewritten'[r]
<1>1. CASE UNCHANGED vars \/ \E u \in User : IssueToken(u)
  BY <1>1 DEF vars, loaded, IssueToken
<1>2. ASSUME NEW q \in Request, q # r, Step(q) \/ \E a, label : Start(q, a, label)
      PROVE  /\ pc[r] \in Updating /\ arg'[r] = arg[r] /\ copy'[r] = copy[r]
             /\ rewritten[r] \subseteq rewritten'[r]
  BY <1>2, OthersStay
<1>3. ASSUME NEW a, NEW label \in {"createCheck", "updateLoad", "deleteLoad", "addLoad"},
             Start(r, a, label)
      PROVE  FALSE
  BY <1>3 DEF Start, IInv, TypeOK, Updating
<1>4. CASE Step(r)
  <2>1. ~End(r) /\ ~Fail(r)
    BY DEF End, Fail, IInv, TypeOK, Updating
  <2>2. ASSUME NEW label, Goto(r, label) PROVE label \in Updating
    BY <2>2 DEF Goto, IInv, TypeOK
  <2>3. ASSUME NEW label, Pass(r, label) PROVE label \in Updating
    BY <2>2, <2>3 DEF Pass
  <2>4. ~SaveTenant(r)
    BY <2>1 DEF SaveTenant, IInv, TypeOK, Updating
  <2>5. ~SaveOwner(r) /\ ~UpdateWrite(r) /\ ~UpdateInsert(r) /\ ~DeleteTenant(r)
          /\ ~AddSave(r) /\ ~Crash(r)
    BY <2>1 DEF SaveOwner, UpdateWrite, UpdateInsert, UpdateStore, DeleteTenant,
       AddSave, Crash
  <2>6. ~CreateCheck(r) /\ ~DeleteLoad(r) /\ ~DeleteAssertOwner(r) /\ ~DeleteMembers(r)
          /\ ~AddLoad(r) /\ ~AddCheck(r)
    BY <2>1, <2>2, <2>3
    DEF CreateCheck, DeleteLoad, DeleteAssertOwner, DeleteMembers, AddLoad, AddCheck,
        Updating
  <2>7. CASE UpdateLoad(r)
    BY <2>1, <2>7 DEF UpdateLoad, Goto, IInv, TypeOK, tables
  <2>8. CASE UpdateCheck(r)
    BY <2>1, <2>8 DEF UpdateCheck, Pass, Goto, loaded, Updating
  <2>9. CASE UpdateSave(r)
    BY <2>1, <2>9 DEF UpdateSave, Pass, Goto, loaded, Updating
  <2> QED
    BY <1>4, <2>4, <2>5, <2>6, <2>7, <2>8, <2>9 DEF Step
<1> QED
  BY <1>1, <1>2, <1>3, <1>4
  DEF Next, StartCreate, StartUpdate, StartDelete, StartAdd

\* Another request's write is recorded.
LEMMA StoreIsRecorded ==
  ASSUME IInv, NEW q \in Request, NEW r \in Request, q # r, pc[r] \in Updating,
         NEW row \in TenantRow, NEW columns \in SUBSET Column,
         UpdateStore(q, row, columns), ~Fail(q)
  PROVE  IF arg[q].tenant = arg[r].tenant
         THEN tenants'[arg[r].tenant] = row /\ columns \subseteq rewritten'[r]
         ELSE tenants'[arg[r].tenant] = tenants[arg[r].tenant]
<1>1. arg[r].tenant \in TenantId /\ copy[r] # Null
  BY TenancyAssumption DEF IInv, TypeOK, RequestInv, Managing
<1>2. tenants' = [tenants EXCEPT ![arg[q].tenant] = row]
  BY DEF UpdateStore
<1>3. arg[q].tenant = arg[r].tenant => rewritten'[r] = rewritten[r] \cup columns
  BY <1>1 DEF UpdateStore
<1> QED
  BY <1>1, <1>2, <1>3 DEF IInv, TypeOK

\* Every step.
LEMMA StepOverlapInv == IInv /\ OverlapInv /\ [Next]_vars => OverlapInv'
<1> SUFFICES ASSUME IInv, OverlapInv, [Next]_vars, NEW r \in Request,
                    pc'[r] \in Updating, Exists(arg[r].tenant)',
                    NEW c \in Column \ rewritten'[r]
             PROVE  tenants'[arg'[r].tenant][c] = copy'[r][c]
  BY DEF OverlapInv
<1> DEFINE t == arg[r].tenant
<1>1. CASE copy'[r] = tenants[t] /\ arg'[r] = arg[r] /\ tenants' = tenants
  BY <1>1
<1>2. CASE /\ pc[r] \in Updating /\ arg'[r] = arg[r] /\ copy'[r] = copy[r]
           /\ rewritten[r] \subseteq rewritten'[r]
  <2>1. t \in owned /\ t \in TenantId
    BY <1>2 DEF IInv, TypeOK, RequestInv, Managing
  <2>2. CASE tenants'[t] = tenants[t]
    BY <1>2, <2>2 DEF OverlapInv, Exists
  <2>3. CASE UNCHANGED <<tables, claims, nextTenant, owned, deleting>>
    BY <2>2, <2>3 DEF tables
  <2>4. CASE \E u \in User : IssueToken(u)
    BY <2>2, <2>4 DEF IssueToken, tables
  <2>5. ASSUME NEW q \in Request, ~Fail(q), SaveTenant(q) PROVE tenants'[t] = tenants[t]
    <3>1. tenants' = [tenants EXCEPT ![nextTenant] = NewTenant(arg[q])]
      BY <2>5 DEF SaveTenant
    <3>2. nextTenant # t
      BY <2>1 DEF IInv, TypeOK, TableInv, FreshInv, TenantId
    <3> QED
      BY <2>1, <3>1, <3>2 DEF IInv, TypeOK
  <2>6. ASSUME NEW q \in Request, ~Fail(q),
               SaveOwner(q) \/ DeleteMembers(q) \/ AddSave(q)
        PROVE  tenants'[t] = tenants[t]
    BY <2>6 DEF SaveOwner, DeleteMembers, AddSave
  <2>7. ASSUME NEW q \in Request, DeleteTenant(q) PROVE tenants'[t] = tenants[t]
    BY <1>2, <2>1, <2>7 DEF DeleteTenant, Exists, IInv, TypeOK
  <2>8. ASSUME NEW q \in Request, UpdateWrite(q) \/ UpdateInsert(q), ~Fail(q)
        PROVE  q # r
    BY <2>8 DEF UpdateWrite, UpdateInsert, UpdateStore, End, IInv, TypeOK, Updating
  <2>9. ASSUME NEW q \in Request, UpdateWrite(q), ~Fail(q)
        PROVE  tenants'[arg'[r].tenant][c] = copy'[r][c]
    <3>1. /\ UpdateStore(q, Written(q), diff[q]) /\ Exists(arg[q].tenant)
          /\ diff[q] \in SUBSET Column /\ arg[q].tenant \in TenantId
      BY <2>9 DEF UpdateWrite, IInv, TypeOK, RequestInv, Managing, Updating
    <3>2. Written(q) \in TenantRow
      BY <2>9, <3>1, WrittenType
      DEF UpdateWrite, IInv, RequestInv, Updating
    <3>3. CASE arg[q].tenant # t
      BY <1>2, <2>2, <2>8, <2>9, <3>1, <3>2, <3>3, StoreIsRecorded
    <3>4. CASE arg[q].tenant = t
      <4>1. tenants'[t] = Written(q) /\ diff[q] \subseteq rewritten'[r]
        BY <1>2, <2>8, <2>9, <3>1, <3>2, <3>4, StoreIsRecorded
      <4>2. c \notin diff[q] /\ c \in {"name", "slug"}
        BY <4>1 DEF Column
      <4>3. tenants[t] \in TenantRow
        BY <2>1, <3>1, <3>4 DEF Exists, IInv, TypeOK
      <4>4. Written(q)[c] = tenants[t][c]
        BY <3>4, <4>2, <4>3 DEF Written, TenantRow
      <4>5. tenants[t][c] = copy[r][c]
        BY <1>2, <3>1, <3>4 DEF OverlapInv
      <4> QED
        BY <1>2, <4>1, <4>4, <4>5
    <3> QED
      BY <3>3, <3>4
  <2>10. ASSUME NEW q \in Request, UpdateInsert(q), ~Fail(q)
         PROVE  tenants'[t] = tenants[t]
    <3>1. UpdateStore(q, Updated(copy[q], arg[q]), Column)
      BY <2>10 DEF UpdateInsert
    <3>2. Updated(copy[q], arg[q]) \in TenantRow
      BY <2>10, UpdatedType DEF UpdateInsert, IInv, TypeOK, RequestInv, Updating
    <3>3. arg[q].tenant # t
      BY <1>2, <2>8, <2>10, <3>1, <3>2, StoreIsRecorded
    <3> QED
      BY <1>2, <2>8, <2>10, <3>1, <3>2, <3>3, StoreIsRecorded
  <2> QED
    BY <2>2, <2>3, <2>4, <2>5, <2>6, <2>7, <2>9, <2>10, WritingSteps
<1> QED
  BY <1>1, <1>2, UpdateContinues

\* Updates are lost only where two overlap, whatever the number of requests: a column that
\* an update changes unasked was written by another one since it loaded the tenant.
THEOREM UpdatesAreLostOnlyInOverlap == Spec => LostUpdatesNeedOverlap
<1> DEFINE Writes(t, c, r) ==
             /\ arg[r].tenant = t /\ pc[r] = "updateWrite" /\ pc'[r] = "idle"
             /\ \/ arg[r][c] # Null /\ tenants'[t][c] = arg[r][c]
                \/ arg[r][c] = Null /\ c \in rewritten[r] /\ tenants'[t][c] = copy[r][c]
           Changes(t, c) == Exists(t) /\ Exists(t)' /\ tenants'[t][c] # tenants[t][c]
<1>1. Init => OverlapInv
  BY DEF Init, OverlapInv, Updating
<1>2. ASSUME IInv, OverlapInv, [Next]_vars, NEW t \in TenantId, NEW c \in Column, Changes(t, c)
      PROVE  \E r \in Request : Writes(t, c, r)
  <2>1. ~UNCHANGED tenants
    BY <1>2
  <2>2. ASSUME NEW q \in Request, ~Fail(q), SaveTenant(q) PROVE FALSE
    <3>1. tenants' = [tenants EXCEPT ![nextTenant] = NewTenant(arg[q])]
      BY <2>2 DEF SaveTenant
    <3>2. nextTenant # t
      BY <1>2 DEF IInv, TypeOK, TableInv, FreshInv, TenantId
    <3> QED
      BY <1>2, <3>1, <3>2 DEF IInv, TypeOK
  <2>3. ASSUME NEW q \in Request, DeleteTenant(q) PROVE FALSE
    BY <1>2, <2>3 DEF DeleteTenant, Exists, IInv, TypeOK
  <2>4. ASSUME NEW q \in Request, ~Fail(q), UpdateInsert(q) PROVE FALSE
    BY <1>2, <2>4 DEF UpdateInsert, UpdateStore, IInv, TypeOK
  <2>5. ASSUME NEW q \in Request, ~Fail(q), UpdateWrite(q) PROVE Writes(t, c, q)
    <3> DEFINE new == Updated(copy[q], arg[q])
    <3>1. /\ pc[q] = "updateWrite" /\ pc'[q] = "idle"
          /\ tenants' = [tenants EXCEPT ![arg[q].tenant] = Written(q)]
      BY <1>2, <2>5 DEF UpdateWrite, UpdateStore, End, IInv, TypeOK
    <3>2. arg[q].tenant = t
      BY <1>2, <3>1 DEF IInv, TypeOK
    <3>3. copy[q] \in TenantRow /\ tenants[t] \in TenantRow /\ c \in {"name", "slug"}
      BY <1>2, <3>1 DEF IInv, TypeOK, RequestInv, Updating, Exists, Column
    <3>4. tenants'[t] = Written(q)
      BY <1>2, <3>1, <3>2 DEF IInv, TypeOK
    <3>5. Written(q)[c] = IF c \in diff[q] THEN new[c] ELSE tenants[t][c]
      BY <3>2, <3>3 DEF Written, TenantRow
    <3>6. new[c] = IF arg[q][c] # Null THEN arg[q][c] ELSE copy[q][c]
      BY <3>3 DEF Updated, TenantRow
    <3>7. tenants'[t][c] = new[c]
      BY <1>2, <3>4, <3>5
    <3>8. arg[q][c] = Null => c \in rewritten[q]
      BY <1>2, <3>1, <3>2, <3>6, <3>7 DEF OverlapInv, Updating
    <3> QED
      BY <3>1, <3>2, <3>6, <3>7, <3>8
  <2> QED
    BY <1>2, <2>1, <2>2, <2>3, <2>4, <2>5, WritingSteps
    DEF tables, IssueToken, SaveOwner, DeleteMembers, AddSave
<1>3. IInv /\ OverlapInv /\ [Next]_vars
        => [\A t \in TenantId, c \in Column :
              Changes(t, c) => \E r \in Request : Writes(t, c, r)]_vars
  BY <1>2
<1> QED
  BY <1>1, <1>3, StepOverlapInv, Invariance, PTL DEF Spec, LostUpdatesNeedOverlap

-----------------------------------------------------------------------------
(* What failures leave behind.                                             *)

\* A request works on the tenant it worked on before, on none, on a new one, or on one for
\* which its caller holds a token.
LEMMA WorksOn ==
  ASSUME IInv, [Next]_vars, NEW r \in Request
  PROVE  \/ arg'[r].tenant \in {arg[r].tenant, Null, nextTenant}
         \/ \E u \in User : \E c \in claims[u] : c[1] = arg'[r].tenant
<1> DEFINE Fine == \/ arg'[r].tenant \in {arg[r].tenant, Null, nextTenant}
                   \/ \E u \in User : \E c \in claims[u] : c[1] = arg'[r].tenant
<1>1. ASSUME UNCHANGED vars \/ \E u \in User : IssueToken(u) PROVE Fine
  BY <1>1 DEF vars, IssueToken
<1>2. ASSUME NEW q \in Request, q # r, Step(q) \/ \E a, label : Start(q, a, label)
      PROVE  Fine
  BY <1>2, OthersStay
<1>3. ASSUME NEW u \in User, NEW t, NEW p, Granted(u, t, p)
      PROVE  \E c \in claims[u] : c[1] = t
  BY <1>3 DEF Granted
<1>4. ASSUME NEW a, NEW label, Start(r, a, label) PROVE arg'[r] = a
  BY <1>4 DEF Start, IInv, TypeOK
<1>5. ASSUME NEW u \in User, NEW a \in App \cup {Null}, NEW nm \in Name, NEW sl \in Slug,
             StartCreate(r, u, a, nm, sl)
      PROVE  Fine
  BY <1>4, <1>5 DEF StartCreate, NoArg
<1>6. ASSUME NEW u \in User, NEW t \in TenantId,
             NEW nm \in Name \cup {Null}, NEW sl \in Slug \cup {Null},
             StartUpdate(r, u, t, nm, sl)
      PROVE  Fine
  <2>1. arg'[r] = [NoArg EXCEPT !.tenant = t, !.name = nm, !.slug = sl]
    BY <1>4, <1>6 DEF StartUpdate
  <2>2. arg'[r].tenant = t
    BY <2>1 DEF NoArg
  <2> QED
    BY <1>3, <1>6, <2>2 DEF StartUpdate
<1>7. ASSUME NEW u \in User, NEW t \in TenantId, StartDelete(r, u, t) PROVE Fine
  <2>1. arg'[r] = [NoArg EXCEPT !.user = u, !.tenant = t]
    BY <1>4, <1>7 DEF StartDelete
  <2>2. arg'[r].tenant = t
    BY <2>1 DEF NoArg
  <2> QED
    BY <1>3, <1>7, <2>2 DEF StartDelete
<1>8. ASSUME NEW u \in User, NEW t \in TenantId,
             NEW m \in User \cup {Null}, NEW role \in AddedRole, StartAdd(r, u, t, m, role)
      PROVE  Fine
  <2>1. arg'[r] = [NoArg EXCEPT !.tenant = t, !.member = m, !.role = role]
    BY <1>4, <1>8 DEF StartAdd
  <2>2. arg'[r].tenant = t
    BY <2>1 DEF NoArg
  <2> QED
    BY <1>3, <1>8, <2>2 DEF StartAdd
<1>9. ASSUME Step(r) PROVE Fine
  <2>1. CASE End(r)
    BY <2>1 DEF End, NoArg, IInv, TypeOK
  <2>2. CASE \E label : Goto(r, label)
    BY <2>2 DEF Goto
  <2>3. CASE arg' = [arg EXCEPT ![r].tenant = nextTenant]
    BY <2>3 DEF IInv, TypeOK
  <2>4. Fail(r) => End(r)
    BY DEF Fail
  <2>5. \A label : Pass(r, label) => Goto(r, label)
    BY DEF Pass
  <2>6. \/ End(r) \/ \E label : Goto(r, label)
        \/ arg' = [arg EXCEPT ![r].tenant = nextTenant]
    <3>1. CASE SaveTenant(r)
      BY <2>4, <3>1 DEF SaveTenant
    <3>2. CASE \/ CreateCheck(r) \/ UpdateLoad(r) \/ UpdateCheck(r) \/ UpdateSave(r)
               \/ DeleteLoad(r) \/ DeleteAssertOwner(r) \/ DeleteMembers(r)
               \/ AddLoad(r) \/ AddCheck(r)
      BY <2>4, <2>5, <3>2
      DEF CreateCheck, UpdateLoad, UpdateCheck, UpdateSave, DeleteLoad, DeleteAssertOwner,
          DeleteMembers, AddLoad, AddCheck
    <3>3. CASE \/ SaveOwner(r) \/ UpdateWrite(r) \/ UpdateInsert(r) \/ DeleteTenant(r)
               \/ AddSave(r) \/ Crash(r)
      BY <2>4, <3>3
      DEF SaveOwner, UpdateWrite, UpdateInsert, UpdateStore, DeleteTenant, AddSave, Crash
    <3> QED
      BY <1>9, <3>1, <3>2, <3>3 DEF Step
  <2> QED
    BY <2>1, <2>2, <2>3, <2>6
<1> HIDE DEF Fine
<1>10. ASSUME NEW q \in Request,
              \/ Step(q)
              \/ \E u \in User :
                   \/ \E a \in App \cup {Null}, nm \in Name, sl \in Slug :
                        StartCreate(q, u, a, nm, sl)
                   \/ \E t \in TenantId :
                        \/ \E nm \in Name \cup {Null}, sl \in Slug \cup {Null} :
                             StartUpdate(q, u, t, nm, sl)
                        \/ StartDelete(q, u, t)
                        \/ \E m \in User \cup {Null}, role \in AddedRole :
                             StartAdd(q, u, t, m, role)
       PROVE  Fine
  <2>1. CASE q = r
    BY <1>5, <1>6, <1>7, <1>8, <1>9, <1>10, <2>1
  <2>2. CASE q # r
    <3>1. Step(q) \/ \E a, label : Start(q, a, label)
      BY <1>10 DEF StartCreate, StartUpdate, StartDelete, StartAdd
    <3> QED
      BY <1>2, <2>2, <3>1
  <2> QED
    BY <2>1, <2>2
<1>11. Fine
  BY <1>1, <1>10 DEF Next
<1> QED
  BY <1>11 DEF Fine

\* What a failed creation, a failed deletion or a late update leaves is out of everybody's
\* reach once the tokens for it have expired, for any number of users and requests.
THEOREM LeftoversStay == Spec => AbandonedForGood
<1>1. ASSUME IInv, [Next]_vars, NEW t \in TenantId, Abandoned(t)
      PROVE  Abandoned(t)' /\ tenants'[t] = tenants[t]
  <2>1. /\ t < nextTenant /\ t \in Nat /\ nextTenant \in Nat /\ t # Null /\ t # nextTenant
        /\ \A m \in memberships : m[1] # t
        /\ \A u \in User : \A c \in claims[u] : c[1] # t
        /\ \A r \in Request : arg[r].tenant # t
    BY <1>1, TenancyAssumption DEF Abandoned, IInv, TypeOK, TenantId
  <2>2. \A r \in Request : arg'[r].tenant # t
    BY <1>1, <2>1, WorksOn
  <2> DEFINE Kept == /\ t < nextTenant' /\ tenants'[t] = tenants[t]
                     /\ \A m \in memberships' : m[1] # t
                     /\ \A u \in User : \A c \in claims'[u] : c[1] # t
  <2>3. ASSUME UNCHANGED <<tables, claims, nextTenant, owned, deleting>> PROVE Kept
    BY <2>1, <2>3 DEF tables
  <2>4. ASSUME NEW u \in User, IssueToken(u) PROVE Kept
    <3>1. \A c \in RolesOf(u) : c[1] # t
      BY <2>1 DEF RolesOf, MembershipsOfUser
    <3> QED
      BY <1>1, <2>1, <2>4, <3>1 DEF IssueToken, tables, IInv, TypeOK
  <2>5. ASSUME NEW r \in Request, ~Fail(r), SaveTenant(r) PROVE Kept
    <3>1. /\ tenants' = [tenants EXCEPT ![nextTenant] = NewTenant(arg[r])]
          /\ nextTenant' = nextTenant + 1 /\ UNCHANGED <<memberships, claims>>
      BY <2>5 DEF SaveTenant
    <3> QED
      BY <1>1, <2>1, <3>1 DEF IInv, TypeOK
  <2>6. ASSUME NEW r \in Request, ~Fail(r), SaveOwner(r) \/ AddSave(r) PROVE Kept
    <3>1. /\ \E u, role : memberships' = memberships \cup {<<arg[r].tenant, u, role>>}
          /\ UNCHANGED <<tenants, claims, nextTenant>>
      BY <2>6 DEF SaveOwner, AddSave, Joined
    <3> QED
      BY <2>1, <3>1
  <2>7. ASSUME NEW r \in Request, ~Fail(r), UpdateWrite(r) \/ UpdateInsert(r) PROVE Kept
    <3>1. /\ \E row : tenants' = [tenants EXCEPT ![arg[r].tenant] = row]
          /\ UNCHANGED <<memberships, claims, nextTenant>>
      BY <2>7 DEF UpdateWrite, UpdateInsert, UpdateStore
    <3> QED
      BY <1>1, <2>1, <3>1 DEF IInv, TypeOK
  <2>8. ASSUME NEW r \in Request, DeleteMembers(r) \/ DeleteTenant(r) PROVE Kept
    <3>1. /\ memberships' \subseteq memberships /\ UNCHANGED <<claims, nextTenant>>
          /\ tenants' = tenants \/ tenants' = [tenants EXCEPT ![arg[r].tenant] = Null]
      BY <2>8 DEF DeleteMembers, DeleteTenant
    <3> QED
      BY <1>1, <2>1, <3>1 DEF IInv, TypeOK
  <2>9. Kept
    BY <1>1, <2>3, <2>4, <2>5, <2>6, <2>7, <2>8, WritingSteps
  <2> QED
    BY <2>2, <2>9 DEF Abandoned
<1>2. IInv /\ [Next]_vars
        => [\A t \in TenantId : Abandoned(t) => Abandoned(t)' /\ tenants'[t] = tenants[t]]_vars
  BY <1>1
<1> QED
  BY <1>2, Invariance, PTL DEF Spec, AbandonedForGood

-----------------------------------------------------------------------------
(* Refinement: the tables and tokens, seen as the access that they give.   *)

\* Who is about to delete the memberships of a tenant is an owner still, unless another
\* deletion was faster.
DeleterInv ==
    \A r \in Request :
      pc[r] = "deleteMembers" =>
        /\ arg[r].user \in User
        /\ <<arg[r].tenant, arg[r].user, "OWNER">> \in memberships
             \/ arg[r].tenant \in deleting

\* A membership is lost only to the deletion of its tenant.
LEMMA MembershipsStay ==
  ASSUME IInv, [Next]_vars
  PROVE  /\ deleting \subseteq deleting'
         /\ \A m \in memberships : m \in memberships' \/ m[1] \in deleting'
<1>1. CASE UNCHANGED <<tables, claims, nextTenant, owned, deleting>>
  BY <1>1 DEF tables
<1>2. CASE \E u \in User : IssueToken(u)
  BY <1>2 DEF IssueToken, tables, history
<1>3. ASSUME NEW r \in Request, ~Fail(r),
             SaveTenant(r) \/ UpdateWrite(r) \/ UpdateInsert(r)
      PROVE  UNCHANGED <<memberships, deleting>>
  BY <1>3 DEF SaveTenant, UpdateWrite, UpdateInsert, UpdateStore, history
<1>4. ASSUME NEW r \in Request, ~Fail(r), SaveOwner(r) \/ AddSave(r)
      PROVE  memberships \subseteq memberships' /\ deleting' = deleting
  BY <1>4 DEF SaveOwner, AddSave, Joined, history
<1>5. ASSUME NEW r \in Request, DeleteMembers(r)
      PROVE  /\ deleting \subseteq deleting'
             /\ \A m \in memberships : m \in memberships' \/ m[1] \in deleting'
  BY <1>5 DEF DeleteMembers, MembershipsOf
<1>6. ASSUME NEW r \in Request, DeleteTenant(r)
      PROVE  /\ deleting \subseteq deleting'
             /\ \A m \in memberships : m \in memberships' \/ m[1] \in deleting'
  BY <1>6 DEF DeleteTenant, Cascaded, IInv, RequestInv
<1> QED
  BY <1>1, <1>2, <1>3, <1>4, <1>5, <1>6, WritingSteps

\* Every step keeps the deleters' knowledge.
LEMMA StepDeleterInv == IInv /\ DeleterInv /\ [Next]_vars => DeleterInv'
<1> SUFFICES ASSUME IInv, DeleterInv, [Next]_vars,
                    NEW r \in Request, pc'[r] = "deleteMembers"
             PROVE  /\ arg'[r].user \in User
                    /\ <<arg'[r].tenant, arg'[r].user, "OWNER">> \in memberships'
                         \/ arg'[r].tenant \in deleting'
  BY DEF DeleterInv
<1> DEFINE Arrives == DeleteAssertOwner(r) /\ Pass(r, "deleteMembers")
<1>1. \/ pc[r] = "deleteMembers" /\ arg'[r] = arg[r]
      \/ Arrives
  <2>1. CASE UNCHANGED vars \/ \E u \in User : IssueToken(u)
    BY <2>1 DEF vars, IssueToken
  <2>2. ASSUME NEW q \in Request, q # r, Step(q) \/ \E a, label : Start(q, a, label)
        PROVE  pc[r] = "deleteMembers" /\ arg'[r] = arg[r]
    BY <2>2, OthersStay
  <2>3. ASSUME NEW a, NEW label, Start(r, a, label), label # "deleteMembers" PROVE FALSE
    BY <2>3 DEF Start, IInv, TypeOK
  <2>4. ASSUME Step(r) PROVE Arrives
    <3>1. ~End(r) /\ ~Fail(r)
      BY DEF End, Fail, IInv, TypeOK
    <3>2. ASSUME NEW label, Goto(r, label) PROVE label = "deleteMembers"
      BY <3>2 DEF Goto, IInv, TypeOK
    <3>3. ASSUME NEW label, Pass(r, label) PROVE label = "deleteMembers"
      BY <3>2, <3>3 DEF Pass
    <3>4. ~SaveTenant(r)
      BY <3>1 DEF SaveTenant, IInv, TypeOK
    <3>5. ~SaveOwner(r) /\ ~UpdateWrite(r) /\ ~UpdateInsert(r) /\ ~DeleteTenant(r)
            /\ ~AddSave(r) /\ ~Crash(r)
      BY <3>1 DEF SaveOwner, UpdateWrite, UpdateInsert, UpdateStore, DeleteTenant,
         AddSave, Crash
    <3>6. ~CreateCheck(r) /\ ~UpdateLoad(r) /\ ~UpdateCheck(r) /\ ~UpdateSave(r)
            /\ ~DeleteLoad(r) /\ ~DeleteMembers(r) /\ ~AddLoad(r) /\ ~AddCheck(r)
      BY <3>1, <3>2, <3>3
      DEF CreateCheck, UpdateLoad, UpdateCheck, UpdateSave, DeleteLoad, DeleteMembers,
          AddLoad, AddCheck
    <3> QED
      BY <2>4, <3>1, <3>4, <3>5, <3>6 DEF Step, DeleteAssertOwner
  <2> QED
    BY <2>1, <2>2, <2>3, <2>4
    DEF Next, StartCreate, StartUpdate, StartDelete, StartAdd
<1>2. CASE pc[r] = "deleteMembers" /\ arg'[r] = arg[r]
  <2> DEFINE own == <<arg[r].tenant, arg[r].user, "OWNER">>
  <2>1. arg[r].user \in User /\ (own \in memberships \/ arg[r].tenant \in deleting)
    BY <1>2 DEF DeleterInv
  <2>2. own[1] = arg[r].tenant
    OBVIOUS
  <2> QED
    BY <1>2, <2>1, <2>2, MembershipsStay
<1>3. CASE Arrives
  <2>1. arg' = arg /\ memberships' = memberships
    BY <1>3 DEF Pass, Goto, tables
  <2>2. <<arg[r].tenant, arg[r].user, "OWNER">> \in memberships
    BY <1>3 DEF DeleteAssertOwner, Fail, End, IInv, TypeOK
  <2>3. arg[r].user \in User
    BY <2>2 DEF IInv, TypeOK, Membership
  <2> QED
    BY <2>1, <2>2, <2>3
<1> QED
  BY <1>1, <1>2, <1>3

\* The first insert of a creation reserves the tenant.
LEMMA SaveTenantReserves ==
  ASSUME IInv, NEW r \in Request, SaveTenant(r), ~Fail(r)
  PROVE  Access!Reserve(nextTenant) /\ nextTenant \in TenantId
<1> DEFINE row == NewTenant(arg[r])
<1>1. /\ pc[r] = "createTenant" /\ nextTenant \in TenantId
      /\ tenants' = [tenants EXCEPT ![nextTenant] = row]
      /\ UNCHANGED <<memberships, claims, owned, deleting>>
  BY TenancyAssumption DEF SaveTenant, history, IInv, TypeOK, TenantId
<1>2. row # Null
  BY <1>1, TenancyAssumption DEF IInv, RequestInv, Creating, NewTenant, TenantRow
<1>3. ~Exists(nextTenant) /\ nextTenant \notin owned
  BY <1>1, TenancyAssumption DEF IInv, TypeOK, TableInv, FreshInv, TenantId
<1>4. {t \in TenantId : Exists(t)}' = {t \in TenantId : Exists(t)} \cup {nextTenant}
  BY <1>1, <1>2 DEF Exists, IInv, TypeOK
<1> QED
  BY <1>1, <1>3, <1>4 DEF Access!Reserve

\* The second insert founds it.
LEMMA SaveOwnerFounds ==
  ASSUME IInv, NEW r \in Request, SaveOwner(r)
  PROVE  /\ Access!Found(arg[r].tenant, arg[r].user)
         /\ arg[r].tenant \in TenantId /\ arg[r].user \in User
<1>1. /\ arg[r].tenant \in TenantId /\ Exists(arg[r].tenant) /\ arg[r].tenant \notin owned
      /\ arg[r].user \in User
  BY DEF SaveOwner, IInv, RequestInv
<1>2. {t \in TenantId : Exists(t)}' = {t \in TenantId : Exists(t)}
  BY DEF SaveOwner, Exists
<1> QED
  BY <1>1, <1>2 DEF SaveOwner, Joined, Access!Found

\* An update of a stored tenant changes no access; one that inserts revives the tenant.
LEMMA StoreRevives ==
  ASSUME IInv, NEW r \in Request, NEW row \in TenantRow, NEW columns \in SUBSET Column,
         pc[r] \in Managing, UpdateStore(r, row, columns), ~Fail(r)
  PROVE  \/ UNCHANGED Access!access
         \/ Access!Revive(arg[r].tenant) /\ arg[r].tenant \in TenantId
<1> DEFINE t == arg[r].tenant
<1>1. /\ tenants' = [tenants EXCEPT ![t] = row]
      /\ UNCHANGED <<memberships, claims, owned, deleting>>
  BY DEF UpdateStore, history
<1>2. t \in owned /\ t \in TenantId /\ row # Null
  BY TenancyAssumption DEF IInv, TypeOK, RequestInv
<1>3. {s \in TenantId : Exists(s)}' = {s \in TenantId : Exists(s)} \cup {t}
  BY <1>1, <1>2 DEF Exists, IInv, TypeOK
<1>4. CASE Exists(t)
  <2>1. {s \in TenantId : Exists(s)}' = {s \in TenantId : Exists(s)}
    BY <1>2, <1>3, <1>4
  <2> QED
    BY <1>1, <2>1 DEF Access!access
<1>5. CASE ~Exists(t)
  <2>1. t \in deleting
    BY <1>2, <1>5 DEF IInv, TableInv, OwnersUntilDeletion
  <2> QED
    BY <1>1, <1>2, <1>3, <1>5, <2>1 DEF Access!Revive
<1> QED
  BY <1>4, <1>5

\* The bulk delete closes the tenant.
LEMMA DeleteMembersCloses ==
  ASSUME IInv, DeleterInv, NEW r \in Request, DeleteMembers(r)
  PROVE  /\ Access!Close(arg[r].tenant, arg[r].user)
         /\ arg[r].tenant \in TenantId /\ arg[r].user \in User
<1>1. /\ arg[r].tenant \in TenantId /\ arg[r].user \in User
      /\ <<arg[r].tenant, arg[r].user, "OWNER">> \in memberships
           \/ arg[r].tenant \in deleting
  BY DEF DeleteMembers, DeleterInv, IInv, TypeOK, RequestInv, Managing
<1>2. {t \in TenantId : Exists(t)}' = {t \in TenantId : Exists(t)}
  BY DEF DeleteMembers, Exists
<1> QED
  BY <1>1, <1>2 DEF DeleteMembers, MembershipsOf, Access!Close, Access!OfOthers

\* The delete of the row removes it, with what was added meanwhile.
LEMMA DeleteTenantRemoves ==
  ASSUME IInv, NEW r \in Request, DeleteTenant(r)
  PROVE  Access!Remove(arg[r].tenant) /\ arg[r].tenant \in TenantId
<1>1. arg[r].tenant \in TenantId /\ arg[r].tenant \in deleting
  BY DEF DeleteTenant, IInv, TypeOK, RequestInv
<1>2. {t \in TenantId : Exists(t)}' = {t \in TenantId : Exists(t)} \ {arg[r].tenant}
  BY <1>1 DEF DeleteTenant, Exists, IInv, TypeOK
<1> QED
  BY <1>1, <1>2 DEF DeleteTenant, Cascaded, Access!Remove, Access!OfOthers

\* The insert of a membership admits the member.
LEMMA AddSaveAdmits ==
  ASSUME IInv, NEW r \in Request, AddSave(r), ~Fail(r)
  PROVE  /\ Access!Admit(arg[r].tenant, arg[r].member, arg[r].role)
         /\ arg[r].tenant \in TenantId /\ arg[r].member \in User /\ arg[r].role \in Role
<1>1. /\ arg[r].tenant \in TenantId /\ arg[r].tenant \in owned
      /\ arg[r].member \in User /\ arg[r].role \in Role
  BY DEF AddSave, IInv, TypeOK, RequestInv, Managing, Adding
<1>2. {t \in TenantId : Exists(t)}' = {t \in TenantId : Exists(t)}
  BY DEF AddSave, Exists
<1>3. /\ Exists(arg[r].tenant) /\ ~IsMember(arg[r].tenant, arg[r].member)
      /\ memberships' = memberships \cup {<<arg[r].tenant, arg[r].member, arg[r].role>>}
      /\ UNCHANGED <<claims, owned, deleting>>
  BY DEF AddSave, MembershipConflict, Joined, history
<1> QED
  BY <1>1, <1>2, <1>3 DEF IsMember, Access!Admit

\* Login and refresh grant what is stored.
LEMMA IssueGrants ==
  ASSUME NEW u \in User, IssueToken(u)
  PROVE  Access!Grant(u)
<1>1. RolesOf(u) = Access!Held(u)
  BY DEF RolesOf, MembershipsOfUser, Access!Held
<1>2. {t \in TenantId : Exists(t)}' = {t \in TenantId : Exists(t)}
  BY DEF IssueToken, Exists, tables
<1>3. \E earlier \in {{}, claims[u]} :
        claims' = [claims EXCEPT ![u] = earlier \cup RolesOf(u)]
  BY DEF IssueToken
<1> QED
  BY <1>1, <1>2, <1>3 DEF IssueToken, tables, history, Access!Grant

\* The handlers, interleaved and failing anywhere, implement the atomic operations.
THEOREM AccessRefinement == Spec => ImplementsAccess
<1>1. Init => DeleterInv /\ Access!Init
  BY DEF Init, DeleterInv, Exists, Access!Init
<1>2. IInv /\ DeleterInv /\ [Next]_vars => [Access!Next]_Access!access
  <2> SUFFICES ASSUME IInv, DeleterInv, [Next]_vars
               PROVE  Access!Next \/ UNCHANGED Access!access
    OBVIOUS
  <2>1. CASE UNCHANGED <<tables, claims, nextTenant, owned, deleting>>
    BY <2>1 DEF tables, Exists, Access!access
  <2>2. CASE \E u \in User : IssueToken(u)
    BY <2>2, IssueGrants DEF Access!Next
  <2>3. ASSUME NEW r \in Request, ~Fail(r), SaveTenant(r) PROVE Access!Next
    BY <2>3, SaveTenantReserves DEF Access!Next
  <2>4. ASSUME NEW r \in Request, SaveOwner(r) PROVE Access!Next
    BY <2>4, SaveOwnerFounds DEF Access!Next
  <2>5. ASSUME NEW r \in Request, ~Fail(r), UpdateWrite(r) \/ UpdateInsert(r)
        PROVE  Access!Next \/ UNCHANGED Access!access
    <3>1. PICK row \in TenantRow, columns \in SUBSET Column :
            UpdateStore(r, row, columns) /\ pc[r] \in Managing
      <4>1. CASE UpdateWrite(r)
        BY <2>5, <4>1, WrittenType
        DEF UpdateWrite, IInv, TypeOK, RequestInv, Managing, Updating
      <4>2. CASE UpdateInsert(r)
        BY <2>5, <4>2, UpdatedType
        DEF UpdateInsert, IInv, TypeOK, RequestInv, Managing, Updating
      <4> QED
        BY <2>5, <4>1, <4>2
    <3> QED
      BY <2>5, <3>1, StoreRevives DEF Access!Next
  <2>6. ASSUME NEW r \in Request, DeleteMembers(r) PROVE Access!Next
    BY <2>6, DeleteMembersCloses DEF Access!Next
  <2>7. ASSUME NEW r \in Request, DeleteTenant(r) PROVE Access!Next
    BY <2>7, DeleteTenantRemoves DEF Access!Next
  <2>8. ASSUME NEW r \in Request, ~Fail(r), AddSave(r) PROVE Access!Next
    BY <2>8, AddSaveAdmits DEF Access!Next
  <2> QED
    BY <2>1, <2>2, <2>3, <2>4, <2>5, <2>6, <2>7, <2>8, WritingSteps
<1> QED
  BY <1>1, <1>2, StepDeleterInv, Invariance, PTL
  DEF Spec, ImplementsAccess, Access!Spec
=============================================================================
