\* Two people, two concurrent requests, any sequence of deployments.
SPECIFICATION Spec
CONSTANTS
    Email = {e1, e2}
    Request = {r1, r2}
    Null = Null
SYMMETRY Symmetry
INVARIANTS
    TypeOK
    ProvisionedOnce
    OrphansOnlyByFailure
    AdminsWereAllowed
    FlagFollowsAllowlist
PROPERTIES
    IdentityIsNotAdopted
    UnsetLeavesFlags
    ImplementsAccounts
