CONSTANTS
    s1 = s1
    s2 = s2
    t1 = t1
    t2 = t2
    c1 = c1
    c2 = c2
    c3 = c3
    e1 = e1
    e2 = e2
    e3 = e3
    Server <- TwoProcesses
    Tab <- TwoTabs
    Conn <- ThreeSockets
    Req <- ThreeEvents
    Limit = 1
SYMMETRY Interchangeable
SPECIFICATION Spec
INVARIANTS
    PageAgrees
    RegistryIsLive
PROPERTY
    EmitsWhereConnected
