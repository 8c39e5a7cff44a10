CONSTANTS
    author = author
    fan = fan
    p1 = p1
    r1 = r1
    r2 = r2
    r3 = r3
    User <- AuthorAndFan
    Post <- OnePost
    Owner <- ByAuthor
    Row <- Toggles
    Req <- Calls
    PoolSize = 2
SPECIFICATION FairSpec
INVARIANTS
    TypeOK
    CountersMatch
    LikedImpliesNotified
    OrphansComeFromRollbacks
    DuplicatesNeedExpiry
PROPERTY
    EveryCallEnds
