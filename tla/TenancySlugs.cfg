\* One user, two tenants of one app that contend for two slugs.
SPECIFICATION Spec
CONSTANTS
    App = {a1}
    User = {u1}
    Slug = {s1, s2}
    Name = {n1}
    Request = {r1, r2}
    MaxTenants = 2
    AddedRole = {"ADMIN"}
    Null = Null
SYMMETRY Symmetry
INVARIANTS
    TypeOK
    UniqueSlugs
    OwnersUntilDeletion
    NoEntryBeforeOwner
    ClaimsNeverExceedRoles
PROPERTIES
    AbandonedForGood
