\* a judge's page or a display alone: pages do not depend on each other
SPECIFICATION FairSpec
CONSTANTS
    Competitors = {c1, c2}
    Judges = {j1}
    Displays = {d1}
    Opened = {{j1}, {d1}}
    Nobody = Nobody
    MaxCommands = 2
    MaxFaults = 1
    MaxTimers = 1
CHECK_DEADLOCK FALSE
INVARIANT QuietIsCurrent
PROPERTIES
    PagesCatchUp
    PollingRepairs
