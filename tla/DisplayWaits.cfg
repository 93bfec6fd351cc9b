SPECIFICATION Spec
CONSTANTS
    Competitors = {c1, c2}
    Judges = {}
    Displays = {d1}
    Opened = {{d1}}
    Nobody = Nobody
    MaxCommands = 2
    MaxFaults = 1
    MaxTimers = 1
CHECK_DEADLOCK FALSE
PROPERTY NameChangesUnlessTimed
