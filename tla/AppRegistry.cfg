\* Three creations at a time that contend for three slugs.
SPECIFICATION Spec
CONSTANTS
    Slug = {s1, s2, s3}
    Request = {r1, r2, r3}
    MaxApps = 4
    Null = Null
SYMMETRY Symmetry
INVARIANTS
    TypeOK
    UniqueAppSlugs
    AnnouncedAppsAreStored
    UnannouncedOnlyByFailure
PROPERTIES
    AppsArePermanent
    ImplementsCatalogue
