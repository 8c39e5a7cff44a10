CONSTANTS
    login = login
    a1 = a1
    a2 = a2
    a3 = a3
    Req <- Requests
    Public <- Logins
    MaxExpiries = 2
SPECIFICATION FairSpec
INVARIANTS
    TypeOK
    SingleRefresh
    NobodyStranded
    OneExpiryIsInvisible
PROPERTY
    EveryRequestSettles
