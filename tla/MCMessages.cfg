CONSTANTS
    u1 = u1
    u2 = u2
    u3 = u3
    r1 = r1
    r2 = r2
    r3 = r3
    s1 = s1
    s2 = s2
    User <- Users
    Couple <- Two
    Lists <- ThreeLists
    Call <- Calls
    Socket <- Sockets
    UserOf <- SameUser
    MaxSends = 2
    Mixes <- FiveMixes
SYMMETRY Interchangeable
SPECIFICATION Spec
INVARIANTS
    TypeOK
    DirectOnce
    ParticipantsAccounted
    MessagesAccounted
