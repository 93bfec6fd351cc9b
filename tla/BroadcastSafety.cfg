\* a head judge and a listener, two broadcasts that overlap
SPECIFICATION Spec
CONSTANTS
    h1 = h1
    h2 = h2
    j1 = j1
    j2 = j2
    l1 = l1
    None = None
    HeadJudge = HeadJudge
    Conns = {h1, l1}
    Role <- OneEach
    Broadcasts = {b1, b2}
INVARIANT
    Delivered
PROPERTIES
    RemovedAfterFailure
