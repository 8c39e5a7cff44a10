CONSTANTS
    b1 = b1
    b2 = b2
    r1 = r1
    r2 = r2
    r3 = r3
    Browser <- TwoBrowsers
    Req <- Calls
    MaxSecond = 3
    MaxActive = 2
SYMMETRY Interchangeable
SPECIFICATION Spec
INVARIANTS
    TypeOK
    EndedMeansEnded
    CookieIsGood
    ResetTokensSpent
PROPERTY
    SessionLifeSpec
