CONSTANTS
    r1 = r1
    r2 = r2
    r3 = r3
    r4 = r4
    r5 = r5
    topic = topic
    Req <- ThreeCalls
    Tag = {}
    MaxImages = 2
    Escaped = {2}
    Attempts = 2
SPECIFICATION FairSpec
INVARIANTS
    MediaHaveFiles
    FilesAccountedFor
PROPERTY
    CleanupEnds
