SPECIFICATION FairSpec
CONSTANTS
    Version = {v1, v2, v3}
    Document = {d1, d2}
    Repeating = {d2}
    Publisher = {p1, p2}
    Reader = {r1}
    NoVersion = NoVersion
    NoPublisher = NoPublisher
INVARIANTS
    PointerNamesTheActiveRelease
    ReportedVersionLoads
    SoundRefusalIsTruthful
PROPERTIES
    ReleasesAreImmutable
    IsCatalogHistory
    PublicationEnds
