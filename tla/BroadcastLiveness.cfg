\* two judges, of whom any may leave; socket writes may block for ever
SPECIFICATION BlockingSpec
CONSTANTS
    h1 = h1
    h2 = h2
    j1 = j1
    j2 = j2
    l1 = l1
    None = None
    HeadJudge = HeadJudge
    Conns = {j1, j2}
    Role <- NoListener
    Broadcasts = {b1}
PROPERTIES
    RegistrationEnds
    BroadcastEnds
    StaleListsDrain
