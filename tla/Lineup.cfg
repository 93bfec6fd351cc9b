\* the ring: three events with one, two and one competitors, the third in another
\* ring; up to two steps of the administrator at any time; two commands on their way
\* the generator: two files of each kind, three events, three entries
SPECIFICATION MCSpec
CONSTANTS
    Events = {1, 2, 3}
    EventOrder <- MCEventOrder
    Competitors = {x, y}
    Entries <- MCEntries
    InRing = {1, 2}
    Changes = {"add", "remove", "move"}
    MaxEdits = 2
    MaxSent = 2
    x = x
    y = y
    p = p
    q = q
    None = None
    Headings <- MCHeadings
    Names <- MCNames
    MaxFiles = 2
    MaxEvents = 3
    MaxEntries = 3
    MaxSheets = 2
CHECK_DEADLOCK FALSE
INVARIANTS
    DisplayFollowsRunningOrder
    NumbersAreDistinct
    EveryoneIsCalled
    EntriesAreKept
    CategoriesAreMeant
    LineupsAreNumbered
    OneRowPerCompetitor
    TextSheetsFollow
