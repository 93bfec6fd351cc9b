\* up to six judges with four different scores; sheets of three combos, enough
\* for both limits, and three judges on the short ones; four routines of two
\* competitors in three events; four marks of three judges with two codes, the
\* third tick out of the window; three rows in a table
SPECIFICATION MCSpec
CONSTANTS
    Hundredths = {700, 735, 745, 770}
    MaxJudges = 6
    Combos <- MCCombos
    MaxCombos = 3
    MaxCJudges = 3
    MaxElements = 4
    RankedEvents = {1, 2, 3}
    RankedCompetitors = {1, 2}
    Finals = {870, 900}
    Totals = {2600, 2700}
    MaxRoutines = 4
    a1 = a1
    a2 = a2
    a3 = a3
    Judges = {a1, a2, a3}
    Codes = {"71", "73"}
    Value <- MCValue
    Times = {0, 1, 2, 3}
    deductionWindow = 2
    Calls = {1, 2}
    Orders <- MCOrders
    MaxMarks = 4
    StoreRoutines = {1, 2}
    StoreJudges = {"j", "k"}
    StoreValues = {1, 2}
    MarkIds = {1, 2, 3}
    Unset = 0
    MaxRows = 3
CHECK_DEADLOCK FALSE
INVARIANTS
    TrimmedFromFive
    OrderDoesNotMatter
    ResultsLineUp
    HalfOfTheJudges
    DifficultyLimited
    ListAgreesWithPlaces
    AllAroundIsComplete
    TwoJudgesAgree
    NoAgreementMissed
    MapOrderDoesNotMatter
PROPERTIES
    ImplementsTables
