CONSTANTS
    u1 = u1
    u2 = u2
    u3 = u3
    unknown = unknown
    r1 = r1
    r2 = r2
    r3 = r3
    Req <- Calls
    User <- Users
    Id <- UsersAndUnknown
    Asked <- Pairs
SPECIFICATION FairSpec
INVARIANTS
    TypeOK
    CountersMatch
    FollowedImpliesNotified
    NotificationsTrackFollows
PROPERTIES
    FollowGraphSpec
    EveryCallEnds
