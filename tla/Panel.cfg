\* two marks of one judge and up to three nandu results, three requests at a time, of
\* which two may be about one mark, a routine of each ruleset, one thing going wrong at a time
SPECIFICATION Spec
CONSTANTS
    a = a
    b = b
    c = c
    m1 = m1
    m2 = m2
    m3 = m3
    iwuf = iwuf
    iwufab = iwufab
    uswu = uswu
    Nil = Nil
    Judges = {a, c}
    CPanel = {c}
    Marks = {m1, m2}
    Owner <- MCOwner
    Routines = {iwuf, iwufab, uswu}
    Ruleset <- MCRuleset
    Codes = {"51"}
    Results = {"o", "x"}
    MaxRequests = 3
    MaxNandu = 3
    MaxFaults = 1
    MaxRaced = 1
CONSTRAINTS
    OnePanel
    OneTrouble
CHECK_DEADLOCK FALSE
INVARIANTS
    CacheIsTheTable
    LastNanduSurvives
    CheckMarkIsTrue
    RemovedStaysRemoved
