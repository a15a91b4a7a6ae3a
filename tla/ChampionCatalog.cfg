CONSTANTS
    Members = {m1, m2}
    Champions = {c1, c2}
    NoChampion = NoChampion
    Unknown = Unknown
    MaxPicks = 2
SPECIFICATION FairCatalogSpec
INVARIANTS
    CatalogTypeOK
    ServingIsHonest
    PlayersAreOneSession
PROPERTIES
    SyncEnds
    EventuallyNamed
