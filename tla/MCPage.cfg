CONSTANTS
    u1 = u1
    u2 = u2
    i1 = i1
    i2 = i2
    s1 = s1
    s2 = s2
    t1 = t1
    Nobody = Nobody
    Unknown = Unknown
    User <- TwoUsers
    Url <- TwoUrls
    Save <- TwoSaves
    Tag <- OneTag
    MaxInput = 5
    MaxImages = 2
SYMMETRY Interchangeable
CHECK_DEADLOCK FALSE
SPECIFICATION Spec
INVARIANTS
    SocketFollowsUser
    PageIsCurrent
    OnlyEditsAreSaved
PROPERTY
    DraftIsKept
