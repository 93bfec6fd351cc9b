\* two judges and one head judge page that take turns; a database call may fail
SPECIFICATION Spec
CONSTANTS
    e1 = e1
    e2 = e2
    c1 = c1
    c2 = c2
    None = None
    Judges = {j1, j2}
    Pages = {h1}
    Events = {e1, e2}
    Competitors = {c1, c2}
    Routines <- TurnsRoutines
    FirstUp <- TurnsFirstUp
    Scores = {1}
    MaxAdjustments = 1
    MaxFaults = 1
    TurnTaking = TRUE
SYMMETRY JudgeSymmetry
INVARIANTS
    TypeOK
    ShownIsRecorded
    RecordedIsShown
    FloorConsistent
PROPERTIES
    FinalFromRecords
