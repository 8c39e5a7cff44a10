CONSTANTS
    r1 = r1
    r2 = r2
    r3 = r3
    r4 = r4
    r5 = r5
    topic = topic
    Req <- FiveCalls
    Tag <- OneTag
    MaxImages = 0
    Escaped = {}
    Attempts = 1
SYMMETRY Interchangeable
SPECIFICATION Spec
INVARIANTS
    TypeOK
    CountersAccount
