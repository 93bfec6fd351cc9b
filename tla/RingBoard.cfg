\* two judges and one head judge page that take turns; the database answers
SPECIFICATION Spec
CONSTANTS
    e1 = e1
    e2 = e2
    c1 = c1
    c2 = c2
    None = None
    Judges = {j1, j2}
    Pages = {h1}
    Events = {e1, e2}
    Competitors = {c1, c2}
    Routines <- DoubleRoutines
    FirstUp <- DoubleFirstUp
    Scores = {1, 2}
    MaxAdjustments = 0
    MaxFaults = 0
    TurnTaking = TRUE
SYMMETRY JudgeSymmetry
PROPERTIES
    ImplementsBoard
