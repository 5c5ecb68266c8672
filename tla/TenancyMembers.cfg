\* Two users contend for one tenant.
SPECIFICATION Spec
CONSTANTS
    App = {a1}
    User = {u1, u2}
    Slug = {s1}
    Name = {n1, n2}
    Request = {r1, r2}
    MaxTenants = 1
    AddedRole = {"OWNER", "MEMBER"}
    Null = Null
SYMMETRY Symmetry
INVARIANTS
    OneRolePerMember
    NoOrphanMemberships
PROPERTIES
    LostUpdatesNeedOverlap
    ImplementsAccess
