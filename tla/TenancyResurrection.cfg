\* An update whose save() runs after a concurrent delete.
SPECIFICATION Spec
CONSTANTS
    App = {a1}
    User = {u1, u2}
    Slug = {s1, s2}
    Name = {n1}
    Request = {r1, r2}
    MaxTenants = 1
    AddedRole = {"OWNER", "ADMIN", "MEMBER"}
    Null = Null
SYMMETRY Symmetry
INVARIANT DeletedStaysDeleted
