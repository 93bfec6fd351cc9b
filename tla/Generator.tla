----------------------------- MODULE Generator -----------------------------
(***************************************************************************)
(* The generator of a competition's database (data/generate/main.go).  It  *)
(* reads the rings' files line by line and writes the rows of five tables. *)
(* Rows have no ids: the database numbers them when it loads them, and the *)
(* generator counts along to write the ids that other rows refer to.       *)
(*                                                                         *)
(* Input is either spreadsheets (fileType "PWC") or text files ("UWG");    *)
(* the test rings, text files, follow in both cases.  An event's heading   *)
(* is its words; a name is a person and a spelling, "upper" when the whole *)
(* name is in capitals.  Text files have the form the README of the tool   *)
(* describes.  Records of a spreadsheet that the program skips change      *)
(* nothing and are left out.                                               *)
(***************************************************************************)
EXTENDS Categories, FiniteSets, FiniteSetsExt

CONSTANTS Headings,        \* events: [exp, style, rules, gender], all words
          Names,           \* [who, spelling]
          MaxFiles,        \* bound: files of each kind
          MaxEvents,       \* bound: events of the competition
          MaxEntries,      \* bound: entries of the competition
          MaxSheets        \* bound: nandu sequences of the competition

ASSUME HeadingsAssumption == \A h \in Headings : {"exp", "style", "rules", "gender"} = DOMAIN h
ASSUME NamesAssumption ==
    Names \subseteq [who : {n.who : n \in Names}, spelling : {n.spelling : n \in Names}]
ASSUME GeneratorBounds ==
    {MaxFiles, MaxEvents, MaxEntries, MaxSheets} \subseteq Nat

VARIABLES
    fileType,
    phase,             \* "pwc", "uwg", "cat", "done" or "panicked"
    files,             \* files read in this phase
    ringID, eventID, eventOrder, compID, compOrder, lastRoutineID,
    currentEvent,
    lastEvent,         \* the name of the spreadsheet's last event
    competitorMap,
    out,               \* table -> the rows written
    loaded,            \* the tables copied to the combined file
    entries,           \* history: what the files say, an entry per routine
    sheets             \* history: the entry each nandu sequence belongs to

counters == <<ringID, eventID, eventOrder, compID, compOrder, lastRoutineID>>
genHistory == <<entries, sheets>>
genVars  == <<fileType, phase, files, counters, currentEvent, lastEvent,
              competitorMap, out, loaded, genHistory>>

Tables == {"rings", "competitors", "events", "routines", "nandu_sheets"}

NoEvent == [id |-> 0, exp |-> 0, rules |-> 0, gender |-> 0]

GenInit ==
    /\ fileType \in {"PWC", "UWG"}
    /\ phase = IF fileType = "PWC" THEN "pwc" ELSE "uwg"
    /\ files = 0
    /\ ringID = 0 /\ eventID = 0 /\ eventOrder = 1
    /\ compID = 0 /\ compOrder = 1 /\ lastRoutineID = 0
    /\ currentEvent = NoEvent
    /\ lastEvent = <<>>
    /\ competitorMap = <<>>
    /\ out = [t \in Tables |-> <<>>]
    /\ loaded = <<>>
    /\ entries = <<>> /\ sheets = <<>>

-----------------------------------------------------------------------------
\* the event of the file being read has begun
InEvent == out["events"] # <<>> /\ Last(out["events"]).ring = ringID

\* mutant: the numbers go on where the last group ended
GoOn(order) == order

\* a new ring numbers its events, a new event its competitors, from one
StartAgain(order) == 1

\* pwcFormat and uwgFormat open the next file and write a ring
NextFile(f) ==
    /\ phase = f /\ files < MaxFiles
    /\ files' = files + 1
    /\ ringID' = ringID + 1
    /\ eventOrder' = StartAgain(eventOrder)
    /\ lastEvent' = <<>>
    /\ out' = [out EXCEPT !["rings"] = Append(@, files + 1)]
    /\ UNCHANGED <<fileType, phase, eventID, compID, compOrder, lastRoutineID,
                   currentEvent, competitorMap, loaded, genHistory>>

ToTitle(name) == [name EXCEPT !.spelling = "upper"]

Remember(key, id) ==
    [k \in DOMAIN competitorMap \cup {key} |-> IF k = key THEN id ELSE competitorMap[k]]

\* mutant: the new competitor is not remembered
ForgetCompetitor(key, row) ==
    LET known == key \in DOMAIN competitorMap IN
    [id |-> IF known THEN competitorMap[key] ELSE compID + 1,
     compID |-> IF known THEN compID ELSE compID + 1,
     map |-> competitorMap,
     rows |-> IF known THEN <<>> ELSE <<row>>]

\* mutant: a known competitor gets the latest id
LatestCompetitor(key, row) ==
    LET known == key \in DOMAIN competitorMap
        id == IF known THEN compID ELSE compID + 1
    IN [id |-> id,
        compID |-> id,
        map |-> Remember(key, id),
        rows |-> IF known THEN <<>> ELSE <<row>>]

\* the competitor with this key, written when it is new
FindOrAddCompetitor(key, row) ==
    LET known == key \in DOMAIN competitorMap
        id == IF known THEN competitorMap[key] ELSE compID + 1
    IN [id |-> id,
        compID |-> IF known THEN compID ELSE id,
        map |-> IF known THEN competitorMap ELSE Remember(key, id),
        rows |-> IF known THEN <<>> ELSE <<row>>]

PwcName(h) == <<ToExperience(h.exp), h.style, ToGender(h.gender)>>

\* one record of a spreadsheet: perhaps a new event, perhaps a new competitor,
\* and a routine
PwcRecord(h, name) ==
    /\ phase = "pwc" /\ files > 0
    /\ Len(entries) < MaxEntries
    /\ LET new == PwcName(h) # lastEvent
           event == [ring |-> ringID, name |-> PwcName(h), order |-> eventOrder,
                     exp |-> ToExperience(h.exp), rules |-> USWU]
           c == FindOrAddCompetitor(ToTitle(name),
                    [name |-> name, gender |-> ToGender(h.gender),
                     exp |-> ToExperience(h.exp)])
           order == IF new THEN StartAgain(compOrder) ELSE compOrder
       IN /\ new => eventID < MaxEvents
          /\ eventID' = IF new THEN eventID + 1 ELSE eventID
          /\ lastEvent' = PwcName(h)
          /\ compID' = c.compID
          /\ competitorMap' = c.map
          /\ compOrder' = order + 1
          /\ out' = [out EXCEPT
                !["events"] = IF new THEN Append(@, event) ELSE @,
                !["competitors"] = @ \o c.rows,
                !["routines"] = Append(@, [event |-> eventID', order |-> order,
                                           competitor |-> c.id])]
    /\ entries' = Append(entries, [format |-> "pwc", ring |-> ringID,
                                   heading |-> h, name |-> name])
    /\ UNCHANGED <<fileType, phase, files, ringID, eventOrder, lastRoutineID,
                   currentEvent, loaded, sheets>>

-----------------------------------------------------------------------------
(* processLine: the lines of a text file.                                   *)

Rules(h) == IF h.rules = "nandu" THEN IWUF
            ELSE IF h.rules = "comp" THEN IWUFAB ELSE USWU

EventLine(h) ==
    /\ phase = "uwg" /\ files > 0 /\ eventID < MaxEvents
    /\ eventID' = eventID + 1
    /\ currentEvent' = [id |-> eventID', exp |-> ToExperience(h.exp),
                        rules |-> Rules(h), gender |-> ToGender(h.gender)]
    /\ out' = [out EXCEPT !["events"] =
                  Append(@, [ring |-> ringID, name |-> h, order |-> eventOrder,
                             exp |-> currentEvent'.exp, rules |-> currentEvent'.rules])]
    /\ eventOrder' = eventOrder + 1
    /\ compOrder' = StartAgain(compOrder)
    /\ UNCHANGED <<fileType, phase, files, ringID, compID, lastRoutineID,
                   lastEvent, competitorMap, loaded, genHistory>>

\* mutant: routines are counted when their competitor is new
CountCompetitors(c) == IF c.rows = <<>> THEN lastRoutineID ELSE lastRoutineID + 1

CountRoutines(c) == lastRoutineID + 1

CompetitorLine(name) ==
    /\ phase = "uwg" /\ files > 0 /\ InEvent
    /\ Len(entries) < MaxEntries
    /\ LET c == FindOrAddCompetitor(name,
                    [name |-> name, gender |-> currentEvent.gender,
                     exp |-> currentEvent.exp])
       IN /\ compID' = c.compID
          /\ competitorMap' = c.map
          /\ out' = [out EXCEPT
                !["competitors"] = @ \o c.rows,
                !["routines"] = Append(@, [event |-> currentEvent.id,
                                           order |-> compOrder, competitor |-> c.id])]
          /\ lastRoutineID' = CountRoutines(c)
    /\ compOrder' = compOrder + 1
    /\ entries' = Append(entries, [format |-> "uwg", ring |-> ringID,
                                   heading |-> Last(out["events"]).name, name |-> name])
    /\ UNCHANGED <<fileType, phase, files, ringID, eventID, eventOrder,
                   currentEvent, lastEvent, loaded, sheets>>

\* a line with a star, below the competitor it belongs to
NanduLine ==
    /\ phase = "uwg" /\ files > 0 /\ InEvent
    /\ Len(sheets) < MaxSheets
    /\ compOrder > 1
    /\ Len(entries) \notin ToSet(sheets)
    /\ out' = [out EXCEPT !["nandu_sheets"] = Append(@, [routine |-> lastRoutineID])]
    /\ sheets' = Append(sheets, Len(entries))
    /\ UNCHANGED <<fileType, phase, files, counters, currentEvent, lastEvent,
                   competitorMap, loaded, entries>>

\* a one-letter first name in a spreadsheet; a heading without a level, a name
\* without a blank or a nandu sequence without four segments in a text file:
\* an index out of range
Malformed ==
    /\ phase \in {"pwc", "uwg"} /\ files > 0
    /\ phase' = "panicked"
    /\ UNCHANGED <<fileType, files, counters, currentEvent, lastEvent,
                   competitorMap, out, loaded, genHistory>>

-----------------------------------------------------------------------------
(* main                                                                     *)

TestRings ==
    /\ phase = "pwc" /\ files > 0
    /\ phase' = "uwg"
    /\ files' = 0
    /\ UNCHANGED <<fileType, counters, currentEvent, lastEvent, competitorMap,
                   out, loaded, genHistory>>

\* finishFiles replaces the last comma of each file: without rows there is none
\* to replace, and the statement is broken
Finish ==
    /\ phase = "uwg" /\ \A t \in Tables : out[t] # <<>>
    /\ phase' = "cat"
    /\ UNCHANGED <<fileType, files, counters, currentEvent, lastEvent, competitorMap,
                   out, loaded, genHistory>>

intFiles == <<"rings", "competitors", "events", "routines", "nandu_sheets">>

\* GenerateCombinedFile, one cat; the categories come first
Cat ==
    /\ phase = "cat"
    /\ loaded' = Append(loaded, intFiles[Len(loaded) + 1])
    /\ phase' = IF Len(loaded') = Len(intFiles) THEN "done" ELSE "cat"
    /\ UNCHANGED <<fileType, files, counters, currentEvent, lastEvent, competitorMap,
                   out, genHistory>>

GenNext ==
    \/ \E f \in {"pwc", "uwg"} : NextFile(f)
    \/ \E h \in Headings, name \in Names : PwcRecord(h, name)
    \/ TestRings
    \/ \E h \in Headings : EventLine(h)
    \/ \E name \in Names : CompetitorLine(name)
    \/ NanduLine
    \/ Malformed
    \/ Finish
    \/ Cat

GenSpec == GenInit /\ [][GenNext]_genVars

-----------------------------------------------------------------------------
(* Properties.                                                              *)

LevelOf  == [beg |-> "beginner",     beginner |-> "beginner",
             int |-> "intermediate", intermediate |-> "intermediate",
             adv |-> "advanced",     advanced |-> "advanced",
             ft |-> "firsttimer",    firsttimer |-> "firsttimer"]
GenderOf == [f |-> "female", female |-> "female", m |-> "male", male |-> "male"]
RulesOf(entry) ==
    IF entry.format = "pwc" THEN "uswu"
    ELSE IF entry.heading.rules = "nandu" THEN "iwuf"
    ELSE IF entry.heading.rules = "comp" THEN "iwuf-ab" ELSE "uswu"

RoutineOf(i)    == out["routines"][i]
EventOf(i)      == out["events"][RoutineOf(i).event]
CompetitorOf(i) == out["competitors"][RoutineOf(i).competitor]

\* every reference in the combined file is to a row of an earlier table
ReferencesResolve ==
    LET rows(t) == IF t \in ToSet(loaded) THEN 1..Len(out[t]) ELSE {}
    IN \A k \in 1..Len(loaded) :
        \A i \in 1..Len(out[loaded[k]]) :
            LET row == out[loaded[k]][i] IN
            CASE loaded[k] = "events" -> row.ring \in rows("rings")
              [] loaded[k] = "routines" -> /\ row.event \in rows("events")
                                           /\ row.competitor \in rows("competitors")
              [] loaded[k] = "nandu_sheets" -> row.routine \in rows("routines")
              [] OTHER -> TRUE

\* The ids the generator counts are the ones the database gives out: the i-th
\* routine is the i-th entry of the files, in its ring, in the event it stands
\* under, of the person it names.  The database accepts the combined file.
EntriesAreKept ==
    /\ ReferencesResolve
    /\ Len(out["routines"]) = Len(entries)
    /\ \A i \in 1..Len(entries) :
        /\ RoutineOf(i).event \in 1..Len(out["events"])
        /\ RoutineOf(i).competitor \in 1..Len(out["competitors"])
        /\ EventOf(i).ring = entries[i].ring
        /\ EventOf(i).name = IF entries[i].format = "pwc" THEN PwcName(entries[i].heading)
                              ELSE entries[i].heading
        /\ CompetitorOf(i).name.who = entries[i].name.who

\* The categories the rows refer to are, in the tables as they are written, the
\* ones the files name: the level of an event, its rules, and the gender of a
\* competitor, taken from the first entry.
CategoriesAreMeant ==
    \A i \in 1..Len(entries) :
        /\ Experiences[MapToExperience(EventOf(i).exp)] = LevelOf[entries[i].heading.exp]
        /\ Rulesets[MapToRuleset(EventOf(i).rules)] = RulesOf(entries[i])
        /\ (\A j \in 1..(i - 1) : RoutineOf(j).competitor # RoutineOf(i).competitor) =>
               Genders[MapToGender(CompetitorOf(i).gender)]
                   = GenderOf[entries[i].heading.gender]

EventsNumbered(rings) ==
    \A i \in 1..Len(out["events"]) :
        LET e == out["events"][i] IN
        e.ring \in rings =>
            e.order = Cardinality({j \in 1..i : out["events"][j].ring = e.ring})

\* changeEvent looks for number one and the display for the next number: an event's
\* competitors are numbered from one without gaps, in the order they are listed,
\* and so are the events of a ring that is read from a text file.  (The events
\* of a spreadsheet all get number one.)
LineupsAreNumbered ==
    /\ \A i \in 1..Len(out["routines"]) :
           RoutineOf(i).order =
               Cardinality({j \in 1..i : RoutineOf(j).event = RoutineOf(i).event})
    /\ EventsNumbered({entries[i].ring :
                           i \in {j \in 1..Len(entries) : entries[j].format = "uwg"}})

\* A person who enters several events is one competitor, as the all-around
\* ranking needs, when the files that name them have one format and, in text
\* files, one spelling.
OneRowPerCompetitor ==
    \A i, j \in 1..Len(entries) :
        /\ entries[i].format = entries[j].format
        /\ entries[i].name.who = entries[j].name.who
        /\ entries[i].format = "pwc" \/ entries[i].name = entries[j].name
        => RoutineOf(i).competitor = RoutineOf(j).competitor

\* A competition made of text files: the nandu sequence below a competitor's
\* name is the sheet of that competitor's routine.  The routines of spreadsheets
\* are not counted: after one of those the sheets belong to other routines.
TextSheetsFollow ==
    fileType = "UWG" =>
        \A k \in 1..Len(sheets) : out["nandu_sheets"][k].routine = sheets[k]
=============================================================================
