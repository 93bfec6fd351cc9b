# A verification of Ten Point Zero

Ten Point Zero (`src/`) runs the scoring of wushu competitions. Judges submit
scores from web pages, a head judge's page selects the competitor on each ring,
asks for rescores, adds adjustments and publishes the final score, and display
pages show it. The server (Go) keeps every ring's state in memory as a cache of
a PostgreSQL database.

This directory holds TLA+ models of that code, TLC configurations that check
them on small instances, and TLAPS proofs for every instance.

## Inventory

| Component | State | Operations | Modelled in |
|---|---|---|---|
| Ring state and handlers (`data/state.go`, `data/scoring.go`, `server/routes/api`) | `RingState`: event, competitor, routine, `Scores`, `Adjustments`, `Deductions`, nandu marks, timer; the locals of a request | `SetEvent`, `SetCompetitor`, `submit-score`, `rescore`, `submit-adjustment`, `finalize-score`, `change-event`, `change-competitor` | `RingServer`, refining `Scoreboard` |
| A and C panels (`server/routes/api/scoring.go`, `judge.js`) | `Deductions`, `NanduScores`, `Nandusheet`, two tables, the marks on the pages | mark, code, remove a deduction; submit nandu; reload by `SetCompetitor` | `TechnicalPanel` |
| Score arithmetic (`data/scoring.go`, `data/enums.go`) | none | `AdjustedAverage`, `DetermineDeductions`, `DetermineNandu`, `CalculateDifficulty`, ... | `AdjustedAverage`, `Deductions`, `Nandu` |
| Results (`data/db_pg.go`) | the rows of `routines` | the three rankings | `Rankings`, sorting as in `Sorting` |
| Event order and lineup (`status.go`, `control.go`, `judge.js`) | `routines` with their numbers, the lists of the head judge's page | next competitor, next two, add, remove, move | `Schedule` |
| Generator (`data/generate`) | counters, a map of competitors, rows written | one line of a file | `Generator`, `Categories` |
| Memory store of the tests (`data/db_nodb.go`) | slices for tables | insert, update, delete, find | `MemoryStore`, refining `Tables` |
| Websocket notification (`server/sockets`) | head judge, judges and listeners of each ring, the connection manager | register, broadcast, close | `Broadcast` |
| Pages that follow a ring (`judge.js`, `display.js`, `notify.js`) | cached routine, names shown, timed scorecard | on a notification, an answer, a timer; poll; reconnect | `Pages` |
| Timer | start and stop time | `SetEventStart`, `SetEventStop` | not modelled: nothing calls them, so a saved duration is always zero |
| Login and sessions (`app/auth`), admin pages, startup, configuration, logging | cookies, files | | not modelled: they do not touch the competition's state |

How they interact: a page calls a handler over HTTP; `net/http` runs each
request in its own goroutine. The handler writes the database, then the ring's
cached state, then calls `sockets.Broadcast` or `NotifyHeadJudge`, which send
in further goroutines; the pages that are notified ask for the ring's status
over HTTP. `scoreMu` protects single writes of the score map and one of its
readers; nothing holds a lock across two steps of a handler.

What is hard: requests of several people interleave on unlocked fields; cache
and database are written one after the other and either step can fail;
`SetCompetitor` rebuilds the cache in several steps; pages act on a routine id
they cached earlier; stale sockets are removed from lists by code that races
with registration. `PROJECT.json` lists each hazard at its line.

## RingServer: one ring, its tables and its clients

A client is a judge or an open head judge page. Each has at most one request
under way (`pc`, with the handler's local variables in `mem`); the steps of
different clients interleave at every database call and at every write of a
ring field that another request can see. A routine is one competitor's
performance in one event, as its row in `routines` is; the module writes it as
that pair.

| TLA+ | Code |
|---|---|
| `event`, `competitor`, `routine`, `scores`, `adjustments` | the fields of `RingState` (`data/state.go:27`) |
| `dbScores`, `dbAdjs` | rows of `scores` and `adjustments` per routine |
| `final` | the last `UPDATE routines` of `SaveFinalScore`: the row it hits and the inputs of the two numbers it writes |
| `page` | `cache.routineId` of a head judge page (`judge.js:287`) |
| `SubmitScore`, `InsertScore`, `CacheScore` | `submitScore`, `SaveScore`, `SetPerformanceScore` |
| `ChangeEvent`, `LoadEvent`, `FirstCompetitor` | `changeEvent` |
| `ChangeCompetitor`, `LoadCompetitor` | `changeCompetitor` |
| `SetCompetitor`, `FindRoutine`, `ResetState`, `SeatRoutine`, `ReadScores`, `RestoreScores`, `ReadAdjustments`, `RestoreAdjustments` | `RingState.SetCompetitor`, statement by statement |
| `Reply`, `FollowUp`, `LoadStatus` | what the page does with the answer: status request, and after a change of event a second command for the first competitor of the lineup |
| `Rescore`, `DeleteScores`, `ClearCache` | `rescore`, `ClearScores` |
| `SubmitAdjustment`, `SaveAdjustment`, `CacheAdjustment` | `submitAdjustment`, `SetAdjustment` |
| `FinalizeScore` ... `SaveFinalScore` | `finalizeScore`, `RingState.FinalizeScore`, with its three separate reads of the cache and one of the database |
| `...Fails` | the error path of each database call |

Abstractions. Amounts and averages are not computed: `final` holds the inputs
(which scores, how many adjustments), which is what the properties are about.
Adjustments are counted. A judge who submits twice has two rows in `scores`;
`GetScores` keeps the last one it meets, and the model keeps the last one
inserted (the statement has no ORDER BY; rows are only appended and deleted).
A handler that panics on a nil routine, event or competitor changes nothing
(`net/http` recovers it) and is a guard. A failing database call has no effect.
A page has one command under way at a time. That is an assumption about the
head judge, not something the page enforces: a POST is asynchronous and disables
no button, and only the status request after a competitor change blocks the page
(`updateEventInfo(..., false)`). Two commands of one person at once are those of
two pages here, and what is checked or proved with one page says nothing of
them. `Schedule` has a head judge's page that does not wait.

`TurnTaking` chooses between two ways of using the ring. FALSE: anything
interleaves. TRUE: no judge presses submit while a head judge's command runs,
and no command is given while another request runs; this is how a ring works
when nothing is late, and the rule lets one ask what the code guarantees on its
own and what it owes to the people.

Bounds: `MaxAdjustments` caps the adjustments of a routine (a counter
otherwise unbounded) and `MaxFaults` the failing database calls.

### What is checked

| Run | Instance | Shows |
|---|---|---|
| `ring_turns` | 2 judges, 1 page, two competitors in one event and an event nobody starts in, 1 adjustment, 1 fault, turns | `ShownIsRecorded`, `RecordedIsShown`: between requests cache and table agree; `FloorConsistent`: event, competitor and routine name one performance; `FinalFromRecords`: what is published is computed from exactly what is recorded |
| `ring_free` | 1 judge with 2 scores, 1 page, a competitor in two events, 1 fault, all interleavings | `LabelsMatch`, `FinalOfOwnRoutine`: no score of one performance is shown or published for another, because `SetCompetitor` assigns `Routine` before it loads the saved scores; `ShownWasSaved`: nothing is shown that is not in the database, whatever fails |
| `ring_board` | 2 judges with 2 scores, 1 page, turns | `ImplementsBoard`: the interruptible handlers refine `Scoreboard` |
| `ring_race` (violation) | 1 judge, 1 page, all interleavings | `CachedWhereSaved` fails: a score saved for one routine is cached under the next |

Why the bounds are enough to be interesting: two routines are the least that
can be confused; a judge touches only his own entry of the map, so one shows
every race with a command and two what a command does to both; one fault reaches every error path from every state of the fault-free
system; two scores (where values matter) tell a stale score from a new one.
Judges are interchangeable in all properties, so symmetry over them is sound;
the events and competitors are not (`FirstUp` tells them apart).

`Scoreboard` is the abstraction: one table, a board showing the row of the
routine on the floor, each operation one step. The refinement mapping shows the
row in place of the map while a page rebuilds or clears it, and a judge's value
while it is inserted and not yet cached.

No liveness is claimed for the ring: a handler that runs ends, and nothing in
the code makes a person press a button.

Deadlock is checked in all these runs: a page can always reload.

`FloorConsistent` speaks of a competitor who has a routine in the ring's event.
A competitor of another event can be selected, `GetRoutine` then finds no row,
and the ring keeps the old routine under the new name: the code replies with
success, and the property says only what is promised.

## Broadcast: connections, registration and broadcasts of one ring

| TLA+ | Code |
|---|---|
| `conn` | what `websocket.Manager` (external) knows of a connection: open, peer gone and not noticed yet, closed |
| `reg` | the goroutine `handleMessage` starts for the register message of a page |
| `headJudge`, `members` | `RingState.headJudge`, `judges` and `listeners` |
| `readers`, `writers` | `RingState.mu`: who holds it for reading, who waits to write; a waiting writer keeps new readers out |
| `bpc` and `err`, `stale`, `errs` | a call of `sockets.Broadcast` and its local variables, which its senders share |
| `snd`, `held` | the goroutine for each target; the slice header it has loaded for an append |
| `due`, `got`, `failed`, `report` | history: who was registered when the broadcast began, who got the message, whether a send failed, what was logged |
| `Connect`, `PeerLeaves`, `Close`, `ReceiveRegister` | `WSServer`: accept, read loop, ping, close |
| `SetHeadJudge`, `AwaitLock`, `AddMember` | the register handlers; `SetHeadJudge` takes no lock, `AddJudge` and `AddListener` do |
| `StartBroadcast`, `SpawnHead`, `ReadList`, `SpawnList` | `Broadcast` until the senders run; `ReadDone` is part of `SpawnList` |
| `Send`, `NoError`, `LoadStale`, `StoreStale`, `HeadFailed` | a sender: the assignment to the shared `err`, the later test of it, the append as a load and a store |
| `Wait`, `AwaitRemoval`, `RemoveStale`, `Report` | `allSent.Wait`, the removals one by one, the log line |

Abstractions. A page registers a connection once, so the lists are sets. The
shared `err` and the appends are data races; the model has every order of whole
reads and writes, not a slice header or an interface torn in half. `Notify` and
`NotifyHeadJudge` send to one target and only log a failure. What a message says
is left out, `Delivered` is about any.

| Run | Instance | Shows |
|---|---|---|
| `broadcast_safety` | a head judge, a listener, 2 overlapping broadcasts | `Delivered`, `RemovedAfterFailure` |
| `broadcast_liveness` | two judges, 1 broadcast; sends may block for ever | `RegistrationEnds`: no lock is held over a write to a socket; `BroadcastEnds` if writes return; `StaleListsDrain`: closed connections leave the lists even though concurrent appends lose some |
| `broadcast_race` (violation) | two judges | `ConnectedIsListed` fails: a sender that succeeded finds the other's error and a live connection is removed |

Two senders of one list are the least that race on its append; the two lists are
handled by the same steps, so `broadcast_safety` has one page on the second, read
last, and the head judge before it; two broadcasts the least that meet at
the lock and remove each other's connections. `Broadcasts` bounds the broadcasts
under way at a time, not how many there are in a behaviour.

Fairness. `LockFairness`: a goroutine that can run does (weak fairness of each
step that waits for nothing but the scheduler or the lock), and `RWMutex.Unlock`
lets the readers that wait in before the next writer (strong fairness of
`ReadList`). The run assumes only that (`BlockingSpec`): a write to a socket may
hang. `SendFairness`, that writes return, which TCP gives for connections that
are alive or reset, is a hypothesis that `BroadcastEnds` and `StaleListsDrain`
state themselves. People and networks are under no fairness: `Connect`,
`PeerLeaves`, `Close` and `ReceiveRegister` may never happen. `StaleListsDrain`
has two more hypotheses: nobody stays connected, and broadcasts keep coming.

## Pages: what the judges and the audience see

A notification carries nothing: a page that gets one asks the server, which
reads the ring later, and uses the answer later still.

| TLA+ | Code |
|---|---|
| `competitor`, `routine` | assigned one by one in `SetCompetitor`, with a query in between |
| `request`: `Change`, `SetCompetitor`, `FinalizeScore`, `Tell` | `changeCompetitor` and `finalizeScore`, one request of the head judge at a time |
| `Button` | the administrator's "live" and "last", passed on by the server |
| `inbox`, `online` | what a socket carries, in order; what is sent to a closed one is lost |
| `asked`, `Serve`, `answers` | a request on its way, the handler reading the ring, the answer on its way; answers arrive in any order |
| `OnMessage`, `OnStatus`, `OnInfo`, `OnScores`, `OnCard`, `Timer`, `Poll`, `Reconnect` | the callbacks of `judge.js`, `display.js` and `notify.js` |
| `Displayed` | what `displayScoresMode` needs: a score, and the `ruleset` that the first information brings |
| `lost`, `overtaken`, `stranded` | history: what happened to a page since it last asked; that a display was told of a score and started no timer |

Abstractions. The ring works on one event; a routine bears its competitor's
name. A handler reads the ring in one step: `ringStatus` could be preempted
between its two reads for the whole of a change, and would then give an old name
with a new routine, which the page keeps because the next status has the same
routine (`judge.js:380`). Where pages differ (the panels' pages do not poll) the
module has the B judges' page. The senders of a broadcast are `Broadcast`'s. A
notification that a page ignores is left out. `displayScoresMode` throws while
`ruleset` is undefined (`display.js:309`), so that no timer starts; it would also
throw on the scores of an event under other rules than the names on the display,
which have other components (`display.js:319`, `325`): with one event that is
outside the model.

| Run | Instance | Shows |
|---|---|---|
| `pages` | a B judge's page or a display, 2 competitors, 2 commands, 1 fault | `QuietIsCurrent`: a page to which nothing is on its way has the ring's competitor, with the exceptions that follow; `PagesCatchUp`: with or without polling, every page ends with the ring's competitor, unless a notification or an answer was lost, an answer overtook another, the display was told of a score that it could not show (there is none, or no information has come yet), or an older scorecard is shown; `PollingRepairs`: with polling even those pass |
| `display_waits` (violation) | a display | `NameChangesUnlessTimed` fails: the display ignores a change of competitor although no scorecard is shown |

Each of the four exceptions of `PagesCatchUp` is needed: without any one of them
TLC finds a page that stays behind. Two commands are a publication and a change,
two changes, or a change and a button, at any distance; pages do not depend on
each other, so one at a time is opened (`Opened`). `MaxTimers` bounds the timers
that polling adds, `Poll` is made when nothing else is on its way. A page may
wait for ever when nobody polls, hence `CHECK_DEADLOCK FALSE`. Fairness: the
server ends its requests, a browser calls its callbacks and timers and connects
again; no person and no failure is under fairness.

## TechnicalPanel: the A and C panels

| TLA+ | Code |
|---|---|
| `deductions`, `nanduScores`, `nandusheet` | the technical fields of `RingState` |
| `marked`, `nanduRows` | the tables `deductions` and `nandu_results` |
| `requests`, `at` | the goroutines of `markBlankDeduction`, `submitDeduction`, `submitNandu`: before the database, before the ring's list, with the list in hand |
| `loaded`; `LoadDeductions`, `SetDeduction`, `UpdateDeduction`, `DeleteDeduction`, `Store`, `Cells` | the list as a request loaded it; what it stores, and what that store writes into the array others have loaded too |
| `page`; `PressMark`, `Type`, `KeyUp`, `RemoveMark`, `SubmitResults`, `UpdateStatus` | the rows of a judge's page (shown, removed, cleared away; text; check mark) and its listeners: typing sends nothing, a key released on a code does |
| `selecting`; `ResetState` ... `ParseRead` | `SetCompetitor` as far as it fills the technical fields |
| `...Fails` | the error path of each database call; a panic on a nil map ends the request (`net/http` recovers it) |

A page sends the next request without waiting for the last. No lock is held from
the load of a list to its store (`state.go:277` to `315`), so a store may undo
another or shift an array under a walk: the model has each order of the loads and
stores, and a store is seen in any of the other lists in hand that may share the
array. The shift and the store of the slice's header are one step; the walk of an
update is one that may miss its entry when the array is shifted, and a deletion
finds the index in the array as it then is. Entries are pointers that all lists of
a judge share, except with lists older than a selection. The loop that fills the
lists from the rows read is one step. Go's fatal error on concurrent map writes is
not modelled. Any text that is no code is `Blank`; requests that are alike are
answered together. Ids of marks are a 32-bit hash and taken to be unique.

Run `panel`: two marks of a judge, or a C judge with up to three results, a
routine of each ruleset, up to three requests at a time of which two may be about
one mark. `CacheIsTheTable`: when the requests are answered and no selection was
under way beside them, the ring and the table have the same marks, each once.
`LastNanduSurvives`: the last result submitted is the one a reload finds, although
the rows have no key. `CheckMarkIsTrue`, `RemovedStaysRemoved`: what the page
shows as saved is saved, with the text it is shown beside, and what it removed is
gone.

History variables name what the code does not make good, and the properties
exclude it. Without any one of them TLC finds a state in which they fail:

- `raced`: a mark whose two requests overtook each other; its code may be lost
  while the page shows the check mark;
- `clashed`: a judge two of whose requests changed the list at once; an entry may
  be lost from the ring, or stay in it, until the next selection;
- `edited`: a mark whose text the judge changed while an update of it was on its
  way; the answer shows the check mark beside a text that was not sent;
- `disturbed`: a request beside a selection, until the next one;
- `failed`: a write of the own mark failed.

Bounds: `OneTrouble` lets one of these happen at a time, which reaches each of them
from every state without; they are independent in the theorems, which have no such
bound. The panels share only the selection, so a behaviour uses one (`OnePanel`). A
panel may be left alone for ever, hence no deadlock check.

## The computations: AdjustedAverage, Nandu, Deductions, Rankings, MemoryStore

`MCScoring` puts the five side by side: they share no state, a behaviour
exercises one, and the run is one exhaustive check of each.

| Module | Code | Inputs | Properties |
|---|---|---|---|
| `AdjustedAverage` | the loop over the scores, rounded to thousandths | every list of up to six of four scores: 4 and 5 are where the rule changes, 6 leaves ties in the middle | `TrimmedFromFive` (but for four judges, see below), `OrderDoesNotMatter` |
| `Nandu` | sheets parsed into elements, results paired with them, majority, limits | every sheet of up to three combos, results of up to three judges | `ResultsLineUp`: page and server find the same elements; `HalfOfTheJudges`; `DifficultyLimited` |
| `Deductions` | the earliest mark and its match, until no list is left | every set of up to four marks of three judges, times around the edge of the window; two calls with different orders of the map | `TwoJudgesAgree`, `NoAgreementMissed`, `MapOrderDoesNotMatter` |
| `Rankings` | the results, the places, the all-around list | four routines of two competitors in three events | `ListAgreesWithPlaces`, `AllAroundIsComplete` |
| `MemoryStore` | the slices behind the program's own tests | two routines, two judges, three rows | `ImplementsTables`: they behave as the tables (`Tables`) that the handlers expect |

Of four scores `TrimmedFromFive` says nothing: the code averages all four, its test
expects the average of the middle two. `HalfOfTheJudges` is about up to three
judges.

Arithmetic is exact in hundredths: floating point error below the rounding is
left out. Order in a Go map is any order. Inputs are built step by step and end
when they are full, hence `CHECK_DEADLOCK FALSE`. `FindCompetitorByName` and the
like, which only look rows up, are left out.

## Schedule, Generator, Categories: who is called next

`Generator` reads a competition's files line by line and writes the rows of five
tables; it counts along with the ids that the database will give out. `Schedule`
starts from such rows: the head judge's page walks through lists it loaded once,
the display asks the server who follows, an administrator adds and removes
competitors and moves events. `MCLineup` puts the two side by side; a behaviour
runs one of them.

| TLA+ | Code |
|---|---|
| `page` | the head judge's page: the two lists, their selected indices, `state.competitorId` as the list request will find it (`resume`) |
| `sent` | its commands and requests that have not been carried out, in no order |
| `Open`, `SelectEvent`, `SelectCompetitor`, `selectNextCompetitor` | `render`, the two selections, the next button and the timer after a publication |
| `PostEvent`, `PostCompetitor`, `setCompetitorList` | `changeEvent`, `changeCompetitor`, `getEventCompetitors` and what the page does with the answer |
| `findNextTwoCompetitors` | the same in `status.go` |
| `AddCompetitorToEvent`, `InsertRoutine`, `RemoveCompetitorFromEvent`, `moveEvent` | the administrator's requests; a competitor may be entered twice |
| `hurried`, `byHand`, `upset`, `late` | history: a command given while another was on its way; a selection not made by the next button; an event without a number one; entries too late for the page |

| Property | What it says |
|---|---|
| `EntriesAreKept` | the i-th routine is the i-th entry of the files, in its ring and event and of its person, and the combined file loads |
| `CategoriesAreMeant` | the ids of level, gender and rules mean, in the tables as written, what the file said |
| `LineupsAreNumbered` | competitors of an event are numbered from one without gaps, and so are the events of a ring (of text files: those of a spreadsheet all get one) |
| `OneRowPerCompetitor` | a person in several events is one row, in files of one format |
| `TextSheetsFollow` | a nandu sequence belongs to the routine it stands under, in text files |
| `DisplayFollowsRunningOrder` | the display announces the next two rows of the running order (`NextRow`: the least that follows, by the numbers of events and entries), across events, as long as numbers have no gaps |
| `NumbersAreDistinct` | with one administrator no two entries of an event get one number |
| `EveryoneIsCalled` | when the page says "Finished!", everyone entered in time was called, if no event lost its first competitor, nothing was selected by hand and no command was given while another was on its way |

Bounds. `lineup`: three events with one, two and one competitors, one of them in
another ring, two steps of the administrator (`MaxEdits`), two commands on their way
(`MaxSent`): enough for an event to end, to be empty, to leave, to come back and to
arrive while the page is in the middle, and for commands, lists and edits to overtake
each other. Once a command did not wait, `EveryoneIsCalled` says nothing, and only a
ring without edits is followed any further (`OneTrouble`); the theorem has no such
bound. Two files of each kind, two headings, two people of whom one has two
spellings, three events and entries. The page ends and a generator is
done: no deadlock check.

Abstractions. A handler of the ring and the use of its answer are one step, but for
`AddCompetitorToEvent`, which reads before it inserts. Commands that are equal count
once. A page in a ring without events is left out. After a change of event the
notification sets `state.competitorId` to the competitor with number one before the
list arrives, or the page has set it to zero: both select the first of the list. A
page whose event is not in the ring (`e = 0`) sends commands that the server
refuses, which are left out. A moved event keeps its number.

The generator's files are opened without a write mode
(`main.go:141`), which makes every write fail on the systems we know; the module
models the writes as meant. Names of two letters and less, on which
`main.go:210` panics, are left out. Records of a spreadsheet that are skipped
change nothing.

## What is proved

The theorems hold for every value of the constants that meets the assumptions
named in the modules: routines are pairs of an event and a competitor, judges are
not pages, bounds are natural numbers, every connection registers in one role,
times of marks and the window are natural numbers and the orders of the map are
any; scores are natural numbers of hundredths and the combos of a sheet lists of
strings; the entries of a lineup and the events of a ring are finite sets; `None` and
the result "panic" are none of the data. Where a theorem needs more it is a
hypothesis, written out below.

| Module | About |
|---|---|
| `RingServer_proofs` | types and labels of the ring under every interleaving; one head judge page; then the ring when requests take turns, and its refinement of `Scoreboard` |
| `Broadcast_proofs` | the lists, their locks, who gets a message and who is removed |
| `TechnicalPanel_proofs` | the marks and results of the A and C panels |
| `Pages_proofs` | what a page has when nothing is on its way to it |
| `Scores_proofs` | `Deductions`, `Nandu` and `AdjustedAverage` |
| `Results_proofs` | `MemoryStore` and its refinement of `Tables`; `Rankings` |
| `Lists_proofs` | lemmas only: folds, sums, lists that lose a row, lists of lists, `ORDER BY` |
| `Lineup_proofs` | `Generator`, `Categories` and `Schedule` |

### The ring, whatever interleaves

- `TypeCorrect`: `Spec => []TypeOK`. The invariant `Typed` adds that a request
  holds a routine (a competitor, a value) from the step that gives it one until
  it ends: without it `dbScores[mem[h].routine]` has no type. It also says that
  no handler works on a nil `Routine` once it has started.
- `ShownScoresWereSaved`: `Spec => []ShownWasSaved`. The invariant adds the
  places a score can come from: a row, a judge's request between its INSERT and
  its cache entry, a page's request that has read rows.
- `ShownAreOfTheFloor` (`LabelsMatch`), `FloorIsOnePerformance`
  (`FloorConsistent`), `FinalIsOfItsRow` (`FinalOfOwnRoutine`): for one head judge
  page (`OnePage`, any number of judges). The invariant `PageInv` follows the one
  command that runs: which of event, competitor and routine it has assigned
  already (`SeatHolds`), and that a finalization still works on the routine it
  was started for (`FinalHolds`). The first two need a page (`Pages # {}`:
  otherwise nobody is seated), the last two `NumberedFromOne`, see below.

### The ring, taking turns

- `TurnsShowRecords`: `TurnTaking => (Spec => []ShownIsRecorded)`, for any number
  of pages and any failures. The two sides never overlap (`Exclusive`), a judge who
  is about to cache a score has inserted it for the routine on the floor
  (`SubmissionHolds`), the page that selects holds the rows of the routine it
  seats (`SelectionHolds`), and at every other time what is shown is recorded
  (`Match`).
- `NothingRecordedIsMissing` (`RecordedIsShown`), one page: the other direction.
  `RecordInv` says of each place in a command what is already in the cache of what
  the tables hold, as long as no database call has failed; one that fails leaves
  the cache short, and only a new selection makes it good.
- `FinalScoresAreTheRecords` (`FinalFromRecords`, an action property), one page,
  `NumberedFromOne`: `PageInv` gives the row, `RecordInv` what is in it.
- `ServerIsAScoreboard` (`ImplementsBoard`), one page, `NumberedFromOne` and
  `MaxFaults = 0`. Each step is one operation of `Scoreboard` or a stutter. The
  key is that with these invariants the mapped board equals the row of the table
  (`BoardShowsTheRow`), so that a step changes the one as it changes the other.

### Broadcast

- `BroadcastTypes`: `Spec => []TypeOK`, with the kinds of the lists.
- `BroadcastDelivers`: `Spec => []Delivered`, for any pages and any number of
  broadcasts. The invariant (`Delivering`): once the senders of a list are
  spawned, a due connection that is open has its sender still before it or the
  message, and it cannot be one that registers late or opens again. TLC checks it
  with one head judge page; the theorem covers a page that is replaced while a
  broadcast runs.
- `RemovalFollowsFailure` (`RemovedAfterFailure`, an action property). The shared
  `err` and the racing appends can put a good connection on a stale list, but only
  in a broadcast that has an error, and only a failed send gives it one.

### The pages

- `QuietPagesAreCurrent` (`QuietIsCurrent`), for any number of pages, commands,
  failures and losses. This is what `PagesCatchUp` rests on besides fairness. The
  invariant (`Follows`) says of a page at any time: something is still to come
  that makes it ask (`Coming`), or the last of the answers on their way to it has
  the ring's competitor, or there is none and the page has it already (`Told`).
  It is the last answer that counts because `overtaken` tells when one is used out
  of order. A display that ignores a change needs the second part (`HoldsBack`):
  its flag is set only while a timer runs or a final score is asked for, or it is
  stranded. The lemmas `OneMore` and `OneLess` say what a list of answers keeps
  when one is read and when one is taken out anywhere.

### The panels

- `CheckMarksAreTrue`, `RemovedMarksStayRemoved`: the invariant is the life of a
  mark. While a request about it is under way its page shows no check mark, the
  table has it as far as the request has come and the request carries the text on
  the page, unless the judge typed on (`UnderWay`); afterwards page and table agree
  (`Answered`), unless two of its requests overlapped (`raced`).
- `LastNanduIsKept` (`LastNanduSurvives`): the cache holds the result whose
  insert is under way, else the last row (`ResultHolds`); a selection leaves the
  map empty until it has read and parsed the rows (`SelectionHolds`).
- `CacheIsTheRecord` (`CacheIsTheTable`): each list has the entries of the table,
  but for the mark of a request that has written the table and not the cache
  (`CacheHolds`), and a mark is made once (`MadeOnce`). What a request has loaded is
  still the list of its judge, or, for an update, a beginning of it (`LoadHolds`),
  unless two requests that change the list overlapped (`clashed`): so its store adds
  or takes out its own entry only (`ListStored`). What `Append`, `RemoveAt` and
  `Recoded` do to a list are lemmas of their own, and so is the order in which a
  selection appends the rows.

### The computations

- `TwoJudgesBehindEach` (`TwoJudgesAgree`) and `DeductionsAgree`
  (`NoAgreementMissed`). The second is not inductive: the invariant adds that a
  mark which left the lists without counting had no partner that does not count
  (`DroppedWereNotNeeded`), which holds because the earliest mark is taken each
  time, and that what counts has left the lists.
- `MapOrderIsIrrelevant` (`MapOrderDoesNotMatter`): two calls that end have the
  same matches. If they differed there would be a first time at which they do
  (`TakenAlike`); before it they have taken the same marks, so each match at that
  time is a match of both (`AlikeAtATime`). Then every code is deducted as often,
  and the score is the same function of that.
- `HalfIsWhatCounts` (`HalfOfTheJudges`), for one to three judges in any order.
- `ResultsAreOfTheElements` (`ResultsLineUp`), for any combos: page and server find
  lists in one combo that line up (`CombosLineUp`), and lists of such lists do when
  they are flattened (`FlattenLinesUp`).
- `DifficultyIsLimited` (`DifficultyLimited`), for any sheet and results. An element
  can earn what it brings its kind nearer to the limit (`PotentialIsTheRest`), so a
  result with more successes uses the same up and earns as much
  (`MoreSuccessEarnsMore`), and one without a failure earns the sum of each kind up
  to its limit (`AllSuccessEarnsAll`).
- `AverageIsTrimmed` (`TrimmedFromFive`; nothing of four judges) and `AverageHasNoOrder`
  (`OrderDoesNotMatter`), for any scores. The loop has at each place the sum, the
  least and the greatest of the scores so far (`SweptAll`), the sum does not depend
  on the order (`SumOfAnyOrder`), and the sorted scores begin with the least and end
  with the greatest (`SortedScores`).
- `StoreImplementsTables` (`ImplementsTables`) and `StoreImplementsTablesSpec`
  (`StoreSpec => Db!TablesSpec`), for stores of any size. What takes a proof is
  `clearScores`: it deletes row after row by an index it found before the first
  deletion. The indices go down (`Flagged`), so that those still to come are not
  moved (`Cleared`), and in the end exactly the rows of the routine are gone, each
  of the others as often as before (`HeldAsOften`).
- A fold, which models a loop over a list, is a CHOOSE of a function that meets an
  equation. The provers have no induction over an operator, so `Lists_proofs` gets
  by with sets: `CountingUp` is induction for a set of numbers, `FoldExists` builds
  the function the CHOOSE picks, and `TraceOfFold` turns it into the values after
  each element, about which the lemmas above speak.
- `ResultsAgree` (`ListAgreesWithPlaces`): the ORDER BY of the list, with the ids
  for ties, is a total order of the rows (`ListedOrder`), so that the list is in
  it; and more scores are at least as good as a lower one (`PlacesFollowScores`).
  `AllAroundIsWhole` (`AllAroundIsComplete`): behind the first competitor with
  less than three routines nobody has more.
- `Sorting` gives an `ORDER BY` by places: a row comes k-th when k - 1 rows are
  before it. `ArrangementArranges` proves that this lists every row once and in
  order, `KeysGoUp` that a finite set sorted by a key is listed with the key going
  up. Both are by counting and need no induction over lists.

### The lineup

- `IdsAreTheDatabases` (`EntriesAreKept`), `NumberedAsListed`
  (`LineupsAreNumbered`), `OneCompetitorPerName` (`OneRowPerCompetitor`),
  `SheetsFollowInText` (`TextSheetsFollow`), `CategoriesKeepMeaning`
  (`CategoriesAreMeant`, for headings of known words), for any files. The invariant
  `GenInv` has a part for each thing the generator counts on: where the file being
  read stands (`Standing`), where a name leads (`NamesHold`), what a routine's row
  says of its entry (`EntriesHold`), the rings of text files (`RingsHold`), the
  nandu sheets (`SheetsHold`), the combined file (`LoadedHold`).
- `NumbersStayDistinct` (`NumbersAreDistinct`), from entries with distinct numbers
  (`EntriesAreNumbered`), which `WrittenNumbersAreDistinct` proves of the rows the
  generator writes: the number read for a new row stays above all others until it
  is inserted, whatever is removed meanwhile.
- `NextTwoAreAnnounced` (`DisplayFollowsRunningOrder`), from any entries: where an
  event's numbers have no gaps, the row with number i stands at place i of its
  sorted list (`ListedAtTheirNumbers`), because n different numbers that go up
  within 1..n are those (`UpwardsIsCounting`).
- `NobodyIsLeftOut` (`EveryoneIsCalled`), from entries with distinct numbers
  (`EntriesAreNumbered`) and events with distinct numbers (`EventsAreApart`); a
  competitor may be entered twice in an event and is called when one of the rows is
  seated. As long as nobody hurries, one command is on its way, that of the selection
  (`SentHolds`), and it tells how far the page is (`Stage`). The invariant relates the
  lists that the page loaded to the tables as they are now: whoever remains in the
  ring's event comes after the one seated and is in the page's list at or behind its
  index, with only competitors that have an earlier row above (`RestHolds`); every
  event not called yet comes after the ring's and is in the page's list at or behind
  its index, and nobody remains in those called before (`EventsHold`); the lists go up
  (`PageHolds`, `ListHolds`), and the ring has a routine of the event selected
  (`SeatHolds`).

### Only model-checked

- Liveness: `RegistrationEnds`, `BroadcastEnds`, `StaleListsDrain`,
  `PagesCatchUp`, `PollingRepairs`. The prover has neither fairness nor ENABLED.

Every invariant and every action property of the passing runs is also a theorem.

### Met while proving

- `FloorConsistent` and `FinalOfOwnRoutine` need `NumberedFromOne`: an event that
  has competitors has one with number 1. `changeEvent` sets the event before it
  knows that there is such a competitor. Without one the ring has the new event
  and the old competitor and routine; if that competitor has a routine in the new
  event too, a finalization computes from the old one's scores and writes to the
  new one's row. The generator numbers from one; removing number one breaks it.
- `RecordedIsShown` needs one page: see the rescore below.
- `EveryoneIsCalled` needs events with distinct numbers. `moveEvent` keeps the
  number of an event, which another one of the ring may have; the database then
  chooses their order anew in each query.
- The order of rows that tie in an `ORDER BY` is not defined by `SortSeq` of the
  TLC module, which says nothing at all on ties of different rows; `Sorting`
  keeps them in the order they had.

## Where code and documentation disagree

Shown by runs that expect a violation; `PROJECT.json` quotes the lines.

- A score can be saved for one routine and shown for the next (`ring_race`).
- A broadcast can remove a connected judge from the ring (`broadcast_race`).
- A display can ignore changes of competitor with no scorecard on it
  (`display_waits`).

Met while modelling, without a run of their own:

- The average of four scores is that of all four ("Use all scores if < 5 judges",
  `data/scoring.go:98`); TestAdjustedAverage4Scores (`data/scoring_test.go:23`)
  expects it without the lowest and the highest.
- Nothing keeps the next button, or the timer after a publication
  (`judge.js:588`), from moving on while the list of a new event has not arrived: the
  second command still sees the old list and passes over all but the first
  competitor of the new event. TLC shows it when `EveryoneIsCalled` is checked
  without `~hurried`.
- A rescore from a head judge page that is behind clears the scores of another
  routine from the ring and leaves their rows (`data/scoring.go:137`).
- `BroadcastError.AddError` has a value receiver (`errors/sockets.go:20`): a
  broadcast always reports that it is complete.
- Two deductions of one judge that are stored at once can cost the ring one of them
  (`data/state.go:284`) until the competitor is selected again; the table has both.
- A judge who types on while a code is being saved gets the check mark beside the
  text that was not sent (`judge.js:1590`).
- "Finished!" is also shown when an event was left out: one whose first
  competitor was removed cannot be selected (`data/db_pg.go` looks for number 1).
- All events of a spreadsheet get number one (`data/generate/main.go:222`), and
  its routines are not counted for the nandu sheets.
- `GetTopScores` takes the three lowest (`data/db_pg.go:635`).
- The poll of the judges' pages has an interval in its configuration
  (`judge.js:104`) that `setInterval` is not given (`judge.js:135`).
- An older scorecard has no `components` (`status.go`, `getScorecard`): for other
  rules than USWU the display stops there (`display.js:319`), after the names.

## Not modelled

Login and sessions, admin pages, startup, configuration and logging, and the
timer (see the inventory). `websocket.Manager`, the database and the browsers are
external and modelled only as the code uses them. The fatal error of the Go
runtime on concurrent map access ends the process and with it every cached state.
`ChangeEventRules` has no caller.

## What could be proved next

Of `RingServer` with several pages, what remains of `RecordedIsShown` for pages
that are not behind. Of `Pages`, that with polling a quiet page can only be behind
until it polls. Of `Broadcast`, that a broadcast which waits has a sender left,
the safety that `BroadcastEnds` rests on.
