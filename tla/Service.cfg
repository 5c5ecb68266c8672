\* Two replicas that restart with any environment, one verifier, one token.
SPECIFICATION Spec
CONSTANTS
    Process = {p1, p2}
    Verifier = {v1}
    ConfiguredKey = {k1, k2}
    EphemeralKey = {e1, e2}
    LatestMigration = 1
    MaxInFlight = 1
    MaxTokens = 1
    Null = Null
SYMMETRY Symmetry
INVARIANTS
    TypeOK
    ProductionIsConfigured
    ServesOnLatestSchema
    SignedIsPublished
    EphemeralTokensDieWithTheirProcess
