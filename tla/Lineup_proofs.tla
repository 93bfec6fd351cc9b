---------------------------- MODULE Lineup_proofs ----------------------------
(***************************************************************************)
(* The running order.  The generator's counters stay in step with the rows *)
(* it writes.  Three things tie them together: what the file being read    *)
(* stands at (Standing), where a name leads (KnownHolds), and what a       *)
(* routine's row says of its entry (EntryHolds).  In the ring, the numbers *)
(* of an event's competitors stay distinct; the display announces the next *)
(* two rows, which stand at their numbers in their event's list; and the   *)
(* next button leaves nobody out, for what the page has not called yet is  *)
(* still before it (Calling).                                              *)
(***************************************************************************)
EXTENDS Schedule, Generator, Lists_proofs

Levels == {0} \cup {ToExperience(h.exp) : h \in Headings}
Sexes  == {0} \cup {ToGender(h.gender) : h \in Headings}
SheetEvents == {PwcName(h) : h \in Headings}

EventRow      == [ring : Nat, name : Headings \cup SheetEvents, order : Nat,
                  exp : Levels, rules : Nat]
CompetitorRow == [name : Names, gender : Sexes, exp : Levels]
RoutineRow    == [event : Nat, order : Nat, competitor : Nat]
SheetRow      == [routine : Nat]
EntryRow      == [format : {"pwc", "uwg"}, ring : Nat, heading : Headings, name : Names]

TablesTyped ==
    /\ out = [t \in Tables |-> out[t]]
    /\ out["rings"] \in Seq(Nat) /\ ringID = Len(out["rings"])
    /\ out["events"] \in Seq(EventRow) /\ eventID = Len(out["events"])
    /\ out["competitors"] \in Seq(CompetitorRow) /\ compID = Len(out["competitors"])
    /\ out["routines"] \in Seq(RoutineRow) /\ Len(out["routines"]) = Len(entries)
    /\ out["nandu_sheets"] \in Seq(SheetRow)

Present == [id : Nat, exp : Levels, rules : Nat, gender : Sexes]

GenTyped ==
    /\ fileType \in {"PWC", "UWG"}
    /\ phase \in {"pwc", "uwg", "cat", "done", "panicked"}
    /\ files \in Nat /\ eventOrder \in Nat /\ compOrder \in Nat /\ lastRoutineID \in Nat
    /\ currentEvent \in Present
    /\ lastEvent \in {<<>>} \cup SheetEvents
    /\ entries \in Seq(EntryRow)
    /\ TablesTyped

-----------------------------------------------------------------------------
\* the routines listed for the event being read
Listed == {j \in 1..Len(entries) : RoutineOf(j).event = Len(out["events"])}

\* the events of the file being read
Headed == {j \in 1..Len(out["events"]) : out["events"][j].ring = ringID}

\* a spreadsheet stands at its last event
AtSheet ==
    phase = "pwc" /\ lastEvent # <<>> =>
        /\ out["events"] # <<>>
        /\ LET e == Last(out["events"])
           IN e.ring = ringID /\ e.name = lastEvent /\ e.exp = lastEvent[1] /\ e.rules = USWU
        /\ compOrder = Cardinality(Listed) + 1

\* a text file stands at its last heading
AtHeading ==
    phase = "uwg" /\ files > 0 =>
        /\ eventOrder = Cardinality(Headed) + 1
        /\ InEvent =>
            LET e == Last(out["events"]) IN
            /\ e.name \in Headings
            /\ e.exp = ToExperience(e.name.exp) /\ e.rules = Rules(e.name)
            /\ currentEvent = [id |-> Len(out["events"]), exp |-> e.exp, rules |-> e.rules,
                               gender |-> ToGender(e.name.gender)]
            /\ compOrder = Cardinality(Listed) + 1
            /\ compOrder > 1 => lastRoutineID > 0

\* a name leads to a competitor of that name who has a routine
KnownHolds(key) ==
    /\ competitorMap[key] \in 1..Len(out["competitors"])
    /\ out["competitors"][competitorMap[key]].name.who = key.who
    /\ \E j \in 1..Len(entries) : RoutineOf(j).competitor = competitorMap[key]

KeyOf(entry) == IF entry.format = "pwc" THEN ToTitle(entry.name) ELSE entry.name

IsFirst(i) == \A j \in 1..(i - 1) : RoutineOf(j).competitor # RoutineOf(i).competitor

EventHolds(i) ==
    /\ RoutineOf(i).event \in 1..Len(out["events"])
    /\ EventOf(i).ring = entries[i].ring
    /\ EventOf(i).name = IF entries[i].format = "pwc" THEN PwcName(entries[i].heading)
                          ELSE entries[i].heading
    /\ EventOf(i).exp = ToExperience(entries[i].heading.exp)
    /\ EventOf(i).rules = IF entries[i].format = "pwc" THEN USWU ELSE Rules(entries[i].heading)

CompetitorHolds(i) ==
    /\ RoutineOf(i).competitor \in 1..Len(out["competitors"])
    /\ CompetitorOf(i).name.who = entries[i].name.who
    /\ KeyOf(entries[i]) \in DOMAIN competitorMap
    /\ competitorMap[KeyOf(entries[i])] = RoutineOf(i).competitor
    /\ IsFirst(i) => CompetitorOf(i).gender = ToGender(entries[i].heading.gender)

PlaceHolds(i) ==
    RoutineOf(i).order = Cardinality({j \in 1..i : RoutineOf(j).event = RoutineOf(i).event})

EntryHolds(i) == EventHolds(i) /\ CompetitorHolds(i) /\ PlaceHolds(i)

\* the rings read from text files are the last ones
TextRing(r) == r > ringID - files
HasText == \E i \in 1..Len(entries) : entries[i].format = "uwg"

RingsHold ==
    /\ files \leq ringID
    /\ phase = "pwc" => ~HasText
    /\ \A k \in 1..Len(out["events"]) : out["events"][k].ring \in 1..ringID
    /\ \A i \in 1..Len(entries) : entries[i].format = "uwg" => TextRing(entries[i].ring)
    /\ phase = "uwg" \/ HasText =>
        \A k \in 1..Len(out["events"]) : TextRing(out["events"][k].ring) =>
            out["events"][k].order =
                Cardinality({j \in 1..k : out["events"][j].ring = out["events"][k].ring})

SheetsHold ==
    /\ sheets \in Seq(Nat) /\ Len(out["nandu_sheets"]) = Len(sheets)
    /\ lastRoutineID \leq Len(entries)
    /\ \A k \in 1..Len(sheets) : out["nandu_sheets"][k].routine \in 1..Len(entries)
    /\ fileType = "UWG" =>
        /\ phase # "pwc"
        /\ lastRoutineID = Len(entries)
        /\ \A k \in 1..Len(sheets) : out["nandu_sheets"][k].routine = sheets[k]

LoadedHold ==
    /\ loaded \in Seq(Tables) /\ Len(loaded) \leq Len(intFiles)
    /\ \A k \in 1..Len(loaded) : loaded[k] = intFiles[k]
    /\ phase \in {"pwc", "uwg"} => loaded = <<>>
    /\ phase = "cat" => Len(loaded) < Len(intFiles)

EntriesHold == \A i \in 1..Len(entries) : EntryHolds(i)
NamesHold == \A key \in DOMAIN competitorMap : KnownHolds(key)

Standing == AtSheet /\ AtHeading

GenInv == GenTyped /\ Standing /\ NamesHold /\ EntriesHold /\ RingsHold /\ SheetsHold /\ LoadedHold

-----------------------------------------------------------------------------
(* The start, and the steps that write no routine.                          *)

\* The counters are numbers, and the rows have their columns.
LEMMA GenCounts ==
    ASSUME GenTyped
    PROVE  /\ ringID \in Nat /\ eventID \in Nat /\ compID \in Nat /\ files \in Nat
           /\ Len(entries) \in Nat /\ Len(out["events"]) \in Nat
           /\ \A k \in 1..Len(out["events"]) : out["events"][k] \in EventRow
           /\ \A k \in 1..Len(out["competitors"]) : out["competitors"][k] \in CompetitorRow
           /\ \A i \in 1..Len(entries) : entries[i] \in EntryRow /\ RoutineOf(i) \in RoutineRow
           /\ out["events"] # <<>> <=> Len(out["events"]) > 0
           /\ Last(out["events"]) = out["events"][Len(out["events"])]
<1> USE DEF GenTyped, TablesTyped
<1>1. ringID \in Nat /\ eventID \in Nat /\ compID \in Nat /\ files \in Nat /\ Len(entries) \in Nat
  OBVIOUS
<1>2. \A k \in 1..Len(out["events"]) : out["events"][k] \in EventRow
  OBVIOUS
<1>3. \A k \in 1..Len(out["competitors"]) : out["competitors"][k] \in CompetitorRow
  OBVIOUS
<1>4. \A i \in 1..Len(entries) : entries[i] \in EntryRow /\ RoutineOf(i) \in RoutineRow
  BY DEF RoutineOf
<1>5. Len(out["events"]) \in Nat /\ (out["events"] # <<>> <=> Len(out["events"]) > 0)
  OBVIOUS
<1> QED BY <1>1, <1>2, <1>3, <1>4, <1>5 DEF Last

\* Nothing is written at the start.
LEMMA GenInitially == GenInit => GenInv
<1> SUFFICES ASSUME GenInit PROVE GenInv
  OBVIOUS
<1>1. /\ \A t \in Tables : out[t] = <<>>
      /\ out["rings"] = <<>> /\ out["events"] = <<>> /\ out["competitors"] = <<>>
      /\ out["routines"] = <<>> /\ out["nandu_sheets"] = <<>>
  BY DEF GenInit, Tables
<1>2. GenTyped
  <2>1. TablesTyped
    <3>1. ringID = 0 /\ eventID = 0 /\ compID = 0 /\ entries = <<>>
      BY DEF GenInit
    <3>2. out = [t \in Tables |-> out[t]]
      BY DEF GenInit
    <3> QED BY <1>1, <3>1, <3>2 DEF TablesTyped
  <2>2. currentEvent \in Present
    BY DEF GenInit, NoEvent, Levels, Sexes, Present
  <2> QED BY <2>1, <2>2 DEF GenInit, GenTyped
<1>3. Standing
  BY DEF GenInit, Standing, AtSheet, AtHeading
<1>4. DOMAIN competitorMap = {}
  BY DEF GenInit
<1>5. NamesHold /\ EntriesHold
  BY <1>4 DEF GenInit, NamesHold, EntriesHold
<1>6. RingsHold /\ SheetsHold /\ LoadedHold
  BY <1>1 DEF GenInit, RingsHold, HasText, SheetsHold, LoadedHold, intFiles
<1> QED BY <1>2, <1>3, <1>5, <1>6 DEF GenInv

\* What the routines' rows say stays true when events are added.
LEMMA SameEntries ==
    ASSUME GenInv, UNCHANGED <<entries, competitorMap>>,
           Len(out'["events"]) \in Nat, Len(out["events"]) \leq Len(out'["events"]),
           \A k \in 1..Len(out["events"]) : out'["events"][k] = out["events"][k],
           out'["competitors"] = out["competitors"], out'["routines"] = out["routines"]
    PROVE  NamesHold' /\ EntriesHold'
<1>1. NamesHold'
  BY DEF GenInv, NamesHold, KnownHolds, RoutineOf
<1>2. ASSUME NEW i \in 1..Len(entries) PROVE EntryHolds(i)'
  <2>1. EventHolds(i) /\ CompetitorHolds(i) /\ PlaceHolds(i)
    BY DEF GenInv, EntriesHold, EntryHolds
  <2>2. EventHolds(i)'
    <3>1. RoutineOf(i).event \in 1..Len(out["events"])
      BY <2>1 DEF EventHolds
    <3>2. RoutineOf(i).event \in 1..Len(out'["events"]) /\ EventOf(i)' = EventOf(i)
      BY <3>1, GenCounts DEF GenInv, RoutineOf, EventOf
    <3> QED BY <2>1, <3>2 DEF EventHolds, RoutineOf
  <2>3. CompetitorHolds(i)' /\ PlaceHolds(i)'
    BY <2>1 DEF CompetitorHolds, PlaceHolds, IsFirst, RoutineOf, CompetitorOf
  <2> QED BY <2>2, <2>3 DEF EntryHolds
<1> QED BY <1>1, <1>2 DEF GenInv, EntriesHold

\* A number that is not the number of a row heads no event.
LEMMA NewRing ==
    ASSUME GenInv, ringID' = ringID + 1, out'["events"] = out["events"]
    PROVE  Headed' = {} /\ ~InEvent'
<1>1. \A k \in 1..Len(out["events"]) : out["events"][k].ring # ringID + 1
  <2>1. \A k \in 1..Len(out["events"]) : out["events"][k].ring \in 1..ringID
    BY DEF GenInv, RingsHold
  <2> QED BY <2>1, GenCounts DEF GenInv
<1>2. Headed' = {}
  BY <1>1 DEF Headed
<1>3. out["events"] # <<>> => /\ Len(out["events"]) \in 1..Len(out["events"])
                             /\ Last(out["events"]) = out["events"][Len(out["events"])]
  BY GenCounts DEF GenInv
<1> QED BY <1>1, <1>2, <1>3 DEF InEvent

\* A new file begins with no event.
LEMMA FileInv == ASSUME GenInv, NEW f \in {"pwc", "uwg"}, NextFile(f) PROVE GenInv'
<1>1. /\ out'["rings"] = Append(out["rings"], files + 1)
      /\ out'["events"] = out["events"] /\ out'["competitors"] = out["competitors"]
      /\ out'["routines"] = out["routines"] /\ out'["nandu_sheets"] = out["nandu_sheets"]
      /\ out' = [t \in Tables |-> out'[t]]
  BY DEF GenInv, GenTyped, TablesTyped, NextFile, Tables
<1>2. /\ phase = f /\ files' = files + 1 /\ ringID' = ringID + 1
      /\ eventOrder' = 1 /\ lastEvent' = <<>>
      /\ UNCHANGED <<fileType, phase, eventID, compID, compOrder, lastRoutineID,
                     currentEvent, competitorMap, loaded, entries, sheets>>
  BY DEF NextFile, StartAgain, genHistory
<1>3. GenTyped'
  <2>1. out'["rings"] \in Seq(Nat) /\ ringID' = Len(out'["rings"])
    BY <1>1, <1>2 DEF GenInv, GenTyped, TablesTyped
  <2>2. TablesTyped'
    BY <1>1, <1>2, <2>1 DEF GenInv, GenTyped, TablesTyped
  <2> QED BY <1>2, <2>2 DEF GenInv, GenTyped
<1>4. NamesHold' /\ EntriesHold'
  BY <1>1, <1>2, SameEntries, GenCounts DEF GenInv
<1>5. Standing'
  <2>1. Headed' = {} /\ ~InEvent'
    BY <1>1, <1>2, NewRing
  <2> QED BY <1>2, <2>1, FS_EmptySet DEF Standing, AtSheet, AtHeading
<1>6. RingsHold'
  <2>1. ringID \in Nat /\ files \in Nat
    BY GenCounts DEF GenInv
  <2>2. \A k \in 1..Len(out["events"]) : out["events"][k].ring \in 1..ringID
    BY DEF GenInv, RingsHold
  <2>3. ringID' - files' = ringID - files
    BY <1>2, <2>1
  <2>4. \A r : TextRing(r)' <=> TextRing(r)
    BY <2>3 DEF TextRing
  <2>5. HasText' <=> HasText
    BY <1>2 DEF HasText
  <2>6. \A k \in 1..Len(out["events"]) : out["events"][k].ring \in 1..(ringID + 1)
    BY <2>1, <2>2
  <2>7. files' \leq ringID'
    BY <1>2, <2>1 DEF GenInv, RingsHold
  <2> QED BY <1>1, <1>2, <2>4, <2>5, <2>6, <2>7 DEF GenInv, RingsHold
<1>7. SheetsHold' /\ LoadedHold'
  BY <1>1, <1>2 DEF GenInv, SheetsHold, LoadedHold
<1> QED BY <1>3, <1>4, <1>5, <1>6, <1>7 DEF GenInv

\* The steps from phase to phase write nothing.
LEMMA PhaseInv == ASSUME GenInv, Malformed \/ TestRings \/ Finish \/ Cat PROVE GenInv'
<1>1. /\ UNCHANGED <<fileType, ringID, eventID, eventOrder, compID, compOrder, lastRoutineID,
                     currentEvent, lastEvent, competitorMap, out, entries, sheets>>
      /\ phase' \in {"uwg", "cat", "done", "panicked"}
      /\ IF phase' = "uwg" THEN phase = "pwc" /\ files' = 0 ELSE files' = files
      /\ phase = "pwc" => phase' # "cat"
  BY DEF Malformed, TestRings, Finish, Cat, counters, genHistory
<1>2. GenTyped'
  BY <1>1 DEF GenInv, GenTyped, TablesTyped
<1>3. NamesHold' /\ EntriesHold'
  BY <1>1, SameEntries, GenCounts DEF GenInv
<1>4. Standing'
  BY <1>1 DEF Standing, AtSheet, AtHeading
<1>5. RingsHold'
  <2>1. HasText' <=> HasText
    BY <1>1 DEF HasText
  <2>2. CASE phase' = "uwg"
    <3>1. \A i \in 1..Len(entries) : entries[i].format # "uwg"
      BY <1>1, <2>2 DEF GenInv, RingsHold, HasText
    <3>2. \A k \in 1..Len(out["events"]) : ~TextRing(out["events"][k].ring)'
      BY <1>1, <2>2, GenCounts DEF GenInv, RingsHold, TextRing
    <3>3. files' \leq ringID'
      BY <1>1, <2>2, GenCounts DEF GenInv
    <3> QED BY <1>1, <2>2, <3>1, <3>2, <3>3 DEF GenInv, RingsHold
  <2>3. CASE phase' # "uwg"
    <3>1. \A r : TextRing(r)' <=> TextRing(r)
      BY <1>1, <2>3 DEF TextRing
    <3> QED BY <1>1, <2>1, <2>3, <3>1 DEF GenInv, RingsHold
  <2> QED BY <2>2, <2>3
<1>6. SheetsHold'
  BY <1>1 DEF GenInv, SheetsHold
<1>7. LoadedHold'
  <2>1. CASE Cat
    <3> DEFINE n == Len(loaded)
    <3>1. /\ loaded \in Seq(Tables) /\ n \in Nat /\ n < Len(intFiles)
          /\ loaded' = Append(loaded, intFiles[n + 1])
          /\ phase' = IF Len(loaded') = Len(intFiles) THEN "done" ELSE "cat"
          /\ \A k \in 1..n : loaded[k] = intFiles[k]
      BY <2>1 DEF Cat, GenInv, LoadedHold
    <3>2. intFiles[n + 1] \in Tables /\ Len(intFiles) = 5
      BY <3>1 DEF intFiles, Tables
    <3>3. loaded' \in Seq(Tables) /\ Len(loaded') = n + 1
      BY <3>1, <3>2
    <3>4. \A k \in 1..(n + 1) : loaded'[k] = intFiles[k]
      BY <3>1, <3>2
    <3> QED BY <3>1, <3>2, <3>3, <3>4 DEF LoadedHold
  <2>2. CASE ~Cat
    <3>1. loaded' = loaded /\ phase \in {"pwc", "uwg"}
      BY <2>2 DEF Malformed, TestRings, Finish
    <3>2. loaded = <<>> /\ 0 < Len(intFiles)
      BY <3>1 DEF GenInv, LoadedHold, intFiles
    <3> QED BY <1>1, <3>1, <3>2 DEF GenInv, LoadedHold
  <2> QED BY <2>1, <2>2
<1> QED BY <1>2, <1>3, <1>4, <1>5, <1>6, <1>7 DEF GenInv

\* A nandu sequence is written for the last routine of a text file.
LEMMA NanduInv == ASSUME GenInv, NanduLine PROVE GenInv'
<1>1. /\ out'["nandu_sheets"] = Append(out["nandu_sheets"], [routine |-> lastRoutineID])
      /\ out'["rings"] = out["rings"]
      /\ out'["events"] = out["events"] /\ out'["competitors"] = out["competitors"]
      /\ out'["routines"] = out["routines"]
      /\ out' = [t \in Tables |-> out'[t]]
  BY DEF GenInv, GenTyped, TablesTyped, NanduLine, Tables
<1>2. /\ UNCHANGED <<fileType, phase, files, ringID, eventID, eventOrder, compID, compOrder,
                     lastRoutineID, currentEvent, lastEvent, competitorMap, loaded, entries>>
      /\ sheets' = Append(sheets, Len(entries))
      /\ phase = "uwg" /\ files > 0 /\ InEvent /\ compOrder > 1
  BY DEF NanduLine, counters
<1>3. GenTyped'
  <2>1. lastRoutineID \in Nat /\ [routine |-> lastRoutineID] \in SheetRow
    BY DEF GenInv, GenTyped, SheetRow
  <2>2. TablesTyped'
    BY <1>1, <1>2, <2>1 DEF GenInv, GenTyped, TablesTyped
  <2> QED BY <1>2, <2>2 DEF GenInv, GenTyped
<1>4. NamesHold' /\ EntriesHold'
  BY <1>1, <1>2, SameEntries, GenCounts DEF GenInv
<1>5. Standing'
  <2>1. Listed' = Listed /\ Headed' = Headed /\ InEvent' = InEvent
    BY <1>1, <1>2 DEF Listed, Headed, InEvent, RoutineOf
  <2> QED BY <1>1, <1>2, <2>1 DEF GenInv, Standing, AtSheet, AtHeading
<1>6. RingsHold'
  <2>1. \A r : TextRing(r)' <=> TextRing(r)
    BY <1>2 DEF TextRing
  <2>2. HasText' <=> HasText
    BY <1>2 DEF HasText
  <2> QED BY <1>1, <1>2, <2>1, <2>2 DEF GenInv, RingsHold
<1>7. SheetsHold'
  <2>1. lastRoutineID > 0
    BY <1>2 DEF GenInv, Standing, AtHeading
  <2>2. lastRoutineID \in 1..Len(entries) /\ Len(entries) \in Nat
    BY <2>1, GenCounts DEF GenInv, GenTyped, SheetsHold
  <2>3. out["nandu_sheets"] \in Seq(SheetRow) /\ sheets \in Seq(Nat)
    BY DEF GenInv, GenTyped, TablesTyped, SheetsHold
  <2> DEFINE n == Len(sheets)
  <2>4. n \in Nat /\ Len(out["nandu_sheets"]) = n
    BY <2>3 DEF GenInv, SheetsHold
  <2>5. sheets' \in Seq(Nat) /\ Len(sheets') = n + 1 /\ Len(out'["nandu_sheets"]) = n + 1
    BY <1>1, <1>2, <2>2, <2>3, <2>4
  <2>6. /\ out'["nandu_sheets"][n + 1].routine = lastRoutineID
        /\ sheets'[n + 1] = Len(entries)
        /\ \A k \in 1..n : /\ out'["nandu_sheets"][k] = out["nandu_sheets"][k]
                           /\ sheets'[k] = sheets[k]
    BY <1>1, <1>2, <2>2, <2>3, <2>4
  <2>7. \A k \in 1..(n + 1) : k \in 1..n \/ k = n + 1
    BY <2>4
  <2> HIDE DEF n
  <2> QED BY <1>2, <2>2, <2>4, <2>5, <2>6, <2>7 DEF GenInv, SheetsHold
<1>8. LoadedHold'
  BY <1>2 DEF GenInv, LoadedHold
<1> QED BY <1>3, <1>4, <1>5, <1>6, <1>7, <1>8 DEF GenInv

\* Numbers counted up to n are counted up to n + 1.
LEMMA OneMore ==
    ASSUME NEW n \in Nat, NEW S \in SUBSET (1..n)
    PROVE  /\ Cardinality(S) \in Nat
           /\ Cardinality(S \cup {n + 1}) = Cardinality(S) + 1
<1>1. IsFiniteSet(1..n)
  BY FS_Interval
<1>2. IsFiniteSet(S)
  BY <1>1, FS_Subset
<1>3. n + 1 \notin S
  OBVIOUS
<1> QED BY <1>2, <1>3, FS_AddElement, FS_CardinalityType

\* A heading begins an event that nobody is listed for.
LEMMA HeadingInv == ASSUME GenInv, NEW h \in Headings, EventLine(h) PROVE GenInv'
<1> DEFINE n == Len(out["events"])
           e == [ring |-> ringID, name |-> h, order |-> eventOrder,
                 exp |-> ToExperience(h.exp), rules |-> Rules(h)]
<1>1. /\ out'["events"] = Append(out["events"], e)
      /\ out'["rings"] = out["rings"] /\ out'["competitors"] = out["competitors"]
      /\ out'["routines"] = out["routines"] /\ out'["nandu_sheets"] = out["nandu_sheets"]
      /\ out' = [t \in Tables |-> out'[t]]
      /\ eventID' = eventID + 1
      /\ currentEvent' = [id |-> eventID', exp |-> ToExperience(h.exp),
                          rules |-> Rules(h), gender |-> ToGender(h.gender)]
  BY DEF GenInv, GenTyped, TablesTyped, EventLine, Tables
<1>2. /\ UNCHANGED <<fileType, phase, files, ringID, compID, lastRoutineID, lastEvent,
                     competitorMap, loaded, entries, sheets>>
      /\ eventOrder' = eventOrder + 1 /\ compOrder' = 1
      /\ phase = "uwg" /\ files > 0
  BY DEF EventLine, StartAgain, genHistory
<1>3. /\ e \in EventRow /\ n \in Nat /\ eventID = n
      /\ currentEvent' \in Present
  <2>1. ToExperience(h.exp) \in Levels /\ ToGender(h.gender) \in Sexes /\ Rules(h) \in Nat
    BY DEF Levels, Sexes, Rules, IWUF, IWUFAB, USWU
  <2>2. ringID \in Nat /\ eventOrder \in Nat /\ eventID \in Nat /\ n \in Nat /\ eventID = n
    BY GenCounts DEF GenInv, GenTyped, TablesTyped
  <2> QED BY <1>1, <2>1, <2>2 DEF EventRow, Present
<1>4. GenTyped'
  <2> HIDE DEF e
  <2>1. TablesTyped'
    BY <1>1, <1>2, <1>3 DEF GenInv, GenTyped, TablesTyped
  <2> QED BY <1>2, <1>3, <2>1 DEF GenInv, GenTyped
<1>5. /\ Len(out'["events"]) = n + 1 /\ out'["events"][n + 1] = e
      /\ \A k \in 1..n : out'["events"][k] = out["events"][k]
  <2> HIDE DEF e
  <2> QED BY <1>1, <1>3 DEF GenInv, GenTyped, TablesTyped
<1> HIDE DEF n
<1>6. NamesHold' /\ EntriesHold'
  BY <1>1, <1>2, <1>3, <1>5, SameEntries DEF n
<1>7. Headed' = Headed \cup {n + 1} /\ Headed \in SUBSET (1..n)
  BY <1>2, <1>3, <1>5 DEF Headed, n
<1>8. Cardinality(Headed) \in Nat /\ Cardinality(Headed') = Cardinality(Headed) + 1
  BY <1>3, <1>7, OneMore
<1>9. eventOrder = Cardinality(Headed) + 1
  BY <1>2 DEF GenInv, Standing, AtHeading
<1>10. Standing'
  <2>1. Last(out'["events"]) = e
    BY <1>5 DEF Last
  <2>2. Listed' = {}
    BY <1>1, <1>2, <1>3, <1>5 DEF Listed, RoutineOf, GenInv, EntriesHold, EntryHolds, EventHolds, n
  <2>3. compOrder' = Cardinality(Listed') + 1
    BY <1>2, <2>2, FS_EmptySet
  <2>4. /\ e.name \in Headings /\ e.exp = ToExperience(e.name.exp) /\ e.rules = Rules(e.name)
        /\ currentEvent' = [id |-> Len(out'["events"]), exp |-> e.exp, rules |-> e.rules,
                            gender |-> ToGender(e.name.gender)]
    BY <1>1, <1>3, <1>5
  <2> QED BY <1>2, <1>8, <1>9, <2>1, <2>3, <2>4 DEF Standing, AtSheet, AtHeading
<1>11. RingsHold'
  <2>1. \A r : TextRing(r)' <=> TextRing(r)
    BY <1>2 DEF TextRing
  <2>2. \A k \in 1..n : out["events"][k].ring \in 1..ringID
    BY DEF GenInv, RingsHold, n
  <2>3. ringID \in 1..ringID
    BY <1>2, GenCounts DEF GenInv, RingsHold
  <2>4. \A k \in 1..(n + 1) : out'["events"][k].ring \in 1..ringID
    BY <1>3, <1>5, <2>2, <2>3
  <2>5. ASSUME NEW k \in 1..(n + 1), TextRing(out'["events"][k].ring)
        PROVE  out'["events"][k].order =
                  Cardinality({j \in 1..k : out'["events"][j].ring = out'["events"][k].ring})
    <3>1. CASE k = n + 1
      <4>1. Headed' = {j \in 1..k : out'["events"][j].ring = out'["events"][k].ring}
        BY <1>2, <1>3, <1>5, <3>1 DEF Headed
      <4>2. out'["events"][k].order = eventOrder
        BY <1>5, <3>1
      <4>3. Cardinality(Headed') = eventOrder
        BY <1>8, <1>9
      <4> QED BY <4>1, <4>2, <4>3
    <3>2. CASE k \in 1..n
      <4>1. {j \in 1..k : out'["events"][j].ring = out'["events"][k].ring}
              = {j \in 1..k : out["events"][j].ring = out["events"][k].ring}
        <5>1. \A j \in 1..k : j \in 1..n
          BY <1>3, <3>2
        <5> HIDE DEF e
        <5> QED BY <1>5, <3>2, <5>1
      <4>2. TextRing(out["events"][k].ring)
        BY <1>5, <2>5, <3>2
      <4>3. out["events"][k].order =
                Cardinality({j \in 1..k : out["events"][j].ring = out["events"][k].ring})
        BY <1>2, <3>2, <4>2 DEF GenInv, RingsHold, n
      <4> QED BY <1>5, <3>2, <4>1, <4>3
    <3> QED BY <1>3, <3>1, <3>2
  <2> QED BY <1>2, <1>5, <2>1, <2>4, <2>5 DEF GenInv, RingsHold
<1>12. SheetsHold' /\ LoadedHold'
  BY <1>1, <1>2 DEF GenInv, SheetsHold, LoadedHold
<1> QED BY <1>4, <1>6, <1>10, <1>11, <1>12 DEF GenInv

-----------------------------------------------------------------------------
(* The steps that write a routine.                                          *)

\* What looking a name up leaves behind: c.id is a competitor of that name, written
\* if the name is new; the other names lead to whom they led.
Found(key, row, c) ==
    /\ out'["competitors"] \in Seq(CompetitorRow) /\ compID' = Len(out'["competitors"])
    /\ Len(out["competitors"]) \leq Len(out'["competitors"])
    /\ \A k \in 1..Len(out["competitors"]) : out'["competitors"][k] = out["competitors"][k]
    /\ c.id \in 1..Len(out'["competitors"])
    /\ out'["competitors"][c.id].name.who = key.who
    /\ DOMAIN competitorMap' = DOMAIN competitorMap \cup {key}
    /\ competitorMap'[key] = c.id
    /\ \A k \in DOMAIN competitorMap : competitorMap'[k] = competitorMap[k]
    /\ key \in DOMAIN competitorMap => \E j \in 1..Len(entries) : RoutineOf(j).competitor = c.id
    /\ key \notin DOMAIN competitorMap => out'["competitors"][c.id] = row

\* findOrAddCompetitor does that.
LEMMA FoundOrAdded ==
    ASSUME GenTyped, NamesHold, NEW key, NEW row \in CompetitorRow, row.name.who = key.who,
           NEW c, c = FindOrAddCompetitor(key, row),
           compID' = c.compID, competitorMap' = c.map,
           out'["competitors"] = out["competitors"] \o c.rows
    PROVE  Found(key, row, c)
<1>1. out["competitors"] \in Seq(CompetitorRow) /\ compID = Len(out["competitors"]) /\ compID \in Nat
  BY DEF GenTyped, TablesTyped
<1>2. CASE key \in DOMAIN competitorMap
  <2>1. KnownHolds(key)
    BY <1>2 DEF NamesHold
  <2>2. c.id = competitorMap[key] /\ c.compID = compID /\ c.map = competitorMap /\ c.rows = <<>>
    BY <1>2 DEF FindOrAddCompetitor
  <2>3. out'["competitors"] = out["competitors"]
    BY <1>1, <2>2
  <2>4. /\ c.id \in 1..Len(out["competitors"])
        /\ out["competitors"][c.id].name.who = key.who
        /\ \E j \in 1..Len(entries) : RoutineOf(j).competitor = c.id
    BY <2>1, <2>2 DEF KnownHolds
  <2>5. competitorMap' = competitorMap /\ compID' = Len(out["competitors"])
    BY <1>1, <2>2
  <2>6. DOMAIN competitorMap' = DOMAIN competitorMap \cup {key}
    BY <1>2, <2>5
  <2> QED BY <1>1, <1>2, <2>2, <2>3, <2>4, <2>5, <2>6 DEF Found
<1>3. CASE key \notin DOMAIN competitorMap
  <2>1. /\ c.id = compID + 1 /\ c.compID = compID + 1 /\ c.rows = <<row>>
        /\ c.map = Remember(key, c.id)
    BY <1>3 DEF FindOrAddCompetitor
  <2>2. /\ DOMAIN competitorMap' = DOMAIN competitorMap \cup {key}
        /\ competitorMap'[key] = c.id
        /\ \A k \in DOMAIN competitorMap : competitorMap'[k] = competitorMap[k]
    <3>1. competitorMap' = Remember(key, c.id)
      BY <2>1
    <3> QED BY <1>3, <3>1 DEF Remember
  <2>3. /\ out'["competitors"] \in Seq(CompetitorRow)
        /\ Len(out'["competitors"]) = compID + 1 /\ out'["competitors"][compID + 1] = row
        /\ \A k \in 1..compID : out'["competitors"][k] = out["competitors"][k]
    BY <1>1, <2>1
  <2> QED BY <1>1, <1>3, <2>1, <2>2, <2>3 DEF Found
<1> QED BY <1>2, <1>3

\* What a step writes for an entry e: the routine, at the end of the last event,
\* and the competitor if the name is new.
Writes(e, row) ==
    /\ e \in EntryRow /\ entries' = Append(entries, e)
    /\ row \in CompetitorRow /\ row.name = e.name /\ row.gender = ToGender(e.heading.gender)
    /\ LET c == FindOrAddCompetitor(KeyOf(e), row) IN
        /\ compID' = c.compID /\ competitorMap' = c.map
        /\ out'["competitors"] = out["competitors"] \o c.rows
        /\ out'["routines"] = Append(out["routines"], [event |-> Len(out'["events"]),
                                                      order |-> compOrder' - 1,
                                                      competitor |-> c.id])
    /\ Len(out'["events"]) \in Nat \ {0} /\ Len(out["events"]) \leq Len(out'["events"])
    /\ \A k \in 1..Len(out["events"]) : out'["events"][k] = out["events"][k]
    /\ LET d == out'["events"][Len(out'["events"])] IN
        /\ d.ring = e.ring
        /\ d.name = IF e.format = "pwc" THEN PwcName(e.heading) ELSE e.heading
        /\ d.exp = ToExperience(e.heading.exp)
        /\ d.rules = IF e.format = "pwc" THEN USWU ELSE Rules(e.heading)
    /\ compOrder' = 2 + Cardinality({j \in 1..Len(entries) :
                                         RoutineOf(j).event = Len(out'["events"])})

\* The keys that names are known by keep the person.
LEMMA KeyKeepsPerson == ASSUME NEW e \in EntryRow PROVE KeyOf(e).who = e.name.who
<1>1. e.name \in [who : {n.who : n \in Names}, spelling : {n.spelling : n \in Names}]
  BY NamesAssumption DEF EntryRow
<1> QED BY <1>1 DEF KeyOf, ToTitle

\* After the step every row says what its entry says, and the list has one more.
LEMMA EntryWritten ==
    ASSUME GenInv, NEW e, NEW row, Writes(e, row)
    PROVE  /\ NamesHold' /\ EntriesHold'
           /\ compOrder' = Cardinality(Listed') + 1 /\ compOrder' \in Nat
           /\ out'["competitors"] \in Seq(CompetitorRow) /\ compID' = Len(out'["competitors"])
           /\ out'["routines"] \in Seq(RoutineRow) /\ Len(out'["routines"]) = Len(entries')
           /\ entries' \in Seq(EntryRow)
<1>0. PICK n : n = Len(entries)
  OBVIOUS
<1> DEFINE key == KeyOf(e)
           c == FindOrAddCompetitor(key, row)
           v == Len(out'["events"])
           r == [event |-> v, order |-> compOrder' - 1, competitor |-> c.id]
           S == {j \in 1..n : RoutineOf(j).event = v}
<1>1. /\ n \in Nat /\ entries \in Seq(EntryRow)
      /\ out["routines"] \in Seq(RoutineRow) /\ Len(out["routines"]) = n
      /\ out["competitors"] \in Seq(CompetitorRow) /\ Len(out["events"]) \in Nat
  BY <1>0, GenCounts DEF GenInv, GenTyped, TablesTyped
<1>2. /\ e \in EntryRow /\ row \in CompetitorRow /\ row.name = e.name
      /\ row.gender = ToGender(e.heading.gender) /\ row.name.who = key.who
      /\ e.name.who = key.who
  BY KeyKeepsPerson DEF Writes
<1>3. /\ entries' = Append(entries, e) /\ compOrder' = 2 + Cardinality(S)
      /\ out'["routines"] = Append(out["routines"], r)
      /\ v \in Nat \ {0} /\ Len(out["events"]) \leq v
      /\ \A k \in 1..Len(out["events"]) : out'["events"][k] = out["events"][k]
  BY <1>0 DEF Writes
<1>4. Found(key, row, c)
  <2>1. /\ compID' = c.compID /\ competitorMap' = c.map
        /\ out'["competitors"] = out["competitors"] \o c.rows
    BY DEF Writes
  <2>2. c = FindOrAddCompetitor(key, row) /\ GenTyped /\ NamesHold
    BY DEF GenInv
  <2> HIDE DEF c, key
  <2> QED BY <1>2, <2>1, <2>2, FoundOrAdded
<1>5. /\ Cardinality(S) \in Nat /\ Cardinality(S \cup {n + 1}) = Cardinality(S) + 1
  <2>1. S \in SUBSET (1..n)
    OBVIOUS
  <2> QED BY <1>1, <2>1, OneMore
<1>6. r \in RoutineRow /\ r.event = v /\ r.order = Cardinality(S) + 1 /\ r.competitor = c.id
  <2> HIDE DEF S, v, c
  <2>1. c.id \in Nat
    BY <1>4 DEF Found
  <2> QED BY <1>3, <1>5, <2>1 DEF RoutineRow
<1> HIDE DEF key, c, v, r, S
<1>7. /\ out'["routines"] \in Seq(RoutineRow) /\ Len(out'["routines"]) = n + 1
      /\ RoutineOf(n + 1)' = r /\ \A j \in 1..n : RoutineOf(j)' = RoutineOf(j)
      /\ entries' \in Seq(EntryRow) /\ Len(entries') = n + 1
      /\ entries'[n + 1] = e /\ \A j \in 1..n : entries'[j] = entries[j]
  <2>1. /\ out'["routines"] \in Seq(RoutineRow) /\ Len(out'["routines"]) = n + 1
        /\ out'["routines"][n + 1] = r
        /\ \A j \in 1..n : out'["routines"][j] = out["routines"][j]
    <3>1. out["routines"] \in Seq(RoutineRow) /\ Len(out["routines"]) = n /\ r \in RoutineRow
      BY <1>1, <1>6
    <3>2. out'["routines"] = Append(out["routines"], r)
      BY <1>3
    <3> QED BY <3>1, <3>2
  <2>2. /\ entries' \in Seq(EntryRow) /\ Len(entries') = n + 1
        /\ entries'[n + 1] = e /\ \A j \in 1..n : entries'[j] = entries[j]
    BY <1>0, <1>1, <1>2, <1>3
  <2> QED BY <2>1, <2>2 DEF RoutineOf
<1>8. Listed' = S \cup {n + 1}
  BY <1>1, <1>6, <1>7 DEF Listed, S, v
<1>9. NamesHold'
  <2> SUFFICES ASSUME NEW k \in DOMAIN competitorMap' PROVE KnownHolds(k)'
    BY DEF NamesHold
  <2>1. CASE k = key
    <3>1. \E j \in 1..(n + 1) : RoutineOf(j)'.competitor = c.id
      BY <1>1, <1>6, <1>7
    <3> QED BY <1>4, <1>7, <2>1, <3>1 DEF KnownHolds, Found
  <2>2. CASE k # key
    <3>1. k \in DOMAIN competitorMap /\ KnownHolds(k) /\ competitorMap'[k] = competitorMap[k]
      BY <1>4, <2>2 DEF GenInv, NamesHold, Found
    <3>2. competitorMap[k] \in 1..Len(out'["competitors"])
      BY <1>1, <1>4, <3>1 DEF KnownHolds, Found
    <3>3. out'["competitors"][competitorMap[k]] = out["competitors"][competitorMap[k]]
      BY <1>4, <3>1 DEF KnownHolds, Found
    <3>4. \E j \in 1..(n + 1) : RoutineOf(j)'.competitor = competitorMap[k]
      BY <1>0, <1>1, <1>7, <3>1 DEF KnownHolds
    <3> QED BY <1>7, <3>1, <3>2, <3>3, <3>4 DEF KnownHolds
  <2> QED BY <2>1, <2>2
<1>10. ASSUME NEW i \in 1..n PROVE EntryHolds(i)'
  <2>1. EventHolds(i) /\ CompetitorHolds(i) /\ PlaceHolds(i)
    BY <1>0 DEF GenInv, EntriesHold, EntryHolds
  <2>2. RoutineOf(i)' = RoutineOf(i) /\ entries'[i] = entries[i]
    BY <1>7
  <2>3. EventHolds(i)'
    <3>1. RoutineOf(i).event \in 1..v /\ EventOf(i)' = EventOf(i)
      BY <1>1, <1>3, <2>1, <2>2 DEF EventHolds, EventOf
    <3> QED BY <2>1, <2>2, <3>1 DEF EventHolds, v
  <2>4. CompetitorHolds(i)'
    <3>1. /\ RoutineOf(i).competitor \in 1..Len(out'["competitors"])
          /\ CompetitorOf(i)' = CompetitorOf(i)
      BY <1>1, <1>4, <2>1, <2>2 DEF CompetitorHolds, CompetitorOf, Found
    <3>2. \A j \in 1..(i - 1) : RoutineOf(j)' = RoutineOf(j)
      BY <1>1, <1>7
    <3>3. IsFirst(i)' <=> IsFirst(i)
      BY <2>2, <3>2 DEF IsFirst
    <3> QED BY <1>4, <2>1, <2>2, <3>1, <3>3 DEF CompetitorHolds, Found
  <2>5. PlaceHolds(i)'
    <3>1. \A j \in 1..i : RoutineOf(j)' = RoutineOf(j)
      BY <1>1, <1>7
    <3>2. {j \in 1..i : RoutineOf(j)'.event = RoutineOf(i).event}
            = {j \in 1..i : RoutineOf(j).event = RoutineOf(i).event}
      BY <3>1
    <3> QED BY <2>1, <2>2, <3>2 DEF PlaceHolds
  <2> QED BY <2>3, <2>4, <2>5 DEF EntryHolds
<1>11. EntryHolds(n + 1)'
  <2>1. EventHolds(n + 1)'
    <3>1. EventOf(n + 1)' = out'["events"][v]
      BY <1>6, <1>7 DEF EventOf
    <3>2. v \in 1..v
      BY <1>3
    <3> QED BY <1>6, <1>7, <3>1, <3>2 DEF EventHolds, Writes, v
  <2>2. CompetitorHolds(n + 1)'
    <3>1. CompetitorOf(n + 1)' = out'["competitors"][c.id]
      BY <1>6, <1>7 DEF CompetitorOf
    <3>2. IsFirst(n + 1)' => key \notin DOMAIN competitorMap
      BY <1>0, <1>1, <1>4, <1>6, <1>7 DEF IsFirst, Found
    <3> QED BY <1>2, <1>4, <1>6, <1>7, <3>1, <3>2 DEF CompetitorHolds, key, Found
  <2>3. PlaceHolds(n + 1)'
    <3>1. {j \in 1..(n + 1) : RoutineOf(j)'.event = v} = S \cup {n + 1}
      BY <1>1, <1>6, <1>7 DEF S
    <3> QED BY <1>5, <1>6, <1>7, <3>1 DEF PlaceHolds
  <2> QED BY <2>1, <2>2, <2>3 DEF EntryHolds
<1>12. EntriesHold'
  <2>1. \A i \in 1..(n + 1) : i \in 1..n \/ i = n + 1
    BY <1>1
  <2> QED BY <1>7, <1>10, <1>11, <2>1 DEF EntriesHold
<1> QED BY <1>3, <1>4, <1>5, <1>7, <1>8, <1>9, <1>12 DEF Found

\* A competitor's line in a text file.
LEMMA LineInv == ASSUME GenInv, NEW name \in Names, CompetitorLine(name) PROVE GenInv'
<1> DEFINE g == Last(out["events"])
           e == [format |-> "uwg", ring |-> ringID, heading |-> g.name, name |-> name]
           row == [name |-> name, gender |-> currentEvent.gender, exp |-> currentEvent.exp]
           c == FindOrAddCompetitor(name, row)
<1>1. /\ compID' = c.compID /\ competitorMap' = c.map
      /\ out'["competitors"] = out["competitors"] \o c.rows
      /\ out'["routines"] = Append(out["routines"], [event |-> currentEvent.id,
                                                    order |-> compOrder, competitor |-> c.id])
      /\ out'["rings"] = out["rings"] /\ out'["events"] = out["events"]
      /\ out'["nandu_sheets"] = out["nandu_sheets"]
      /\ out' = [t \in Tables |-> out'[t]]
  BY DEF GenInv, GenTyped, TablesTyped, CompetitorLine, Tables
<1>2. /\ UNCHANGED <<fileType, phase, files, ringID, eventID, eventOrder, currentEvent,
                     lastEvent, loaded, sheets>>
      /\ lastRoutineID' = lastRoutineID + 1 /\ compOrder' = compOrder + 1
      /\ entries' = Append(entries, e)
      /\ phase = "uwg" /\ files > 0 /\ InEvent
  BY DEF CompetitorLine, CountRoutines
<1>3. /\ g = out["events"][Len(out["events"])] /\ g.ring = ringID
      /\ Len(out["events"]) \in Nat \ {0}
      /\ ringID \in Nat /\ files \in Nat /\ compOrder \in Nat /\ lastRoutineID \in Nat
      /\ currentEvent \in Present
  BY <1>2, GenCounts DEF GenInv, GenTyped, InEvent
<1>4. /\ g.name \in Headings
      /\ g.exp = ToExperience(g.name.exp) /\ g.rules = Rules(g.name)
      /\ currentEvent.id = Len(out["events"]) /\ currentEvent.gender = ToGender(g.name.gender)
      /\ compOrder = Cardinality(Listed) + 1
  <2> HIDE DEF g
  <2>1. AtHeading
    BY DEF GenInv, Standing
  <2> QED BY <1>2, <2>1 DEF AtHeading, g
<1>5. Writes(e, row)
  <2>1. e \in EntryRow /\ row \in CompetitorRow
    <3> HIDE DEF g
    <3> QED BY <1>3, <1>4 DEF EntryRow, CompetitorRow, Present
  <2>2. KeyOf(e) = name /\ row.name = e.name /\ row.gender = ToGender(e.heading.gender)
    BY <1>4 DEF KeyOf
  <2>3. compOrder' = 2 + Cardinality({j \in 1..Len(entries) :
                                         RoutineOf(j).event = Len(out'["events"])})
    <3>1. {j \in 1..Len(entries) : RoutineOf(j).event = Len(out'["events"])} = Listed
      BY <1>1 DEF Listed
    <3>2. Cardinality(Listed) \in Nat
      BY OneMore, GenCounts DEF Listed, GenInv
    <3>3. compOrder' = compOrder + 1 /\ compOrder = Cardinality(Listed) + 1
      BY <1>2, <1>4
    <3>4. compOrder' = 2 + Cardinality(Listed)
      BY <3>2, <3>3
    <3> QED BY <3>1, <3>4
  <2>4. out'["routines"] = Append(out["routines"], [event |-> Len(out'["events"]),
                                                  order |-> compOrder' - 1, competitor |-> c.id])
    BY <1>1, <1>2, <1>3, <1>4
  <2>5. LET d == out'["events"][Len(out'["events"])]
        IN d.ring = e.ring /\ d.name = e.heading /\ d.exp = ToExperience(e.heading.exp)
           /\ d.rules = Rules(e.heading)
    BY <1>1, <1>3, <1>4
  <2>6. entries' = Append(entries, e) /\ e.format = "uwg"
    BY <1>2
  <2>7. compID' = c.compID /\ competitorMap' = c.map
        /\ out'["competitors"] = out["competitors"] \o c.rows
    BY <1>1
  <2>8. c = FindOrAddCompetitor(KeyOf(e), row)
    BY <2>2
  <2> HIDE DEF c, e, row, g
  <2> QED BY <1>1, <1>3, <2>1, <2>2, <2>3, <2>4, <2>5, <2>6, <2>7, <2>8 DEF Writes
<1> HIDE DEF g, row, c
<1>6. /\ NamesHold' /\ EntriesHold'
      /\ compOrder' = Cardinality(Listed') + 1 /\ compOrder' \in Nat
      /\ out'["competitors"] \in Seq(CompetitorRow) /\ compID' = Len(out'["competitors"])
      /\ out'["routines"] \in Seq(RoutineRow) /\ Len(out'["routines"]) = Len(entries')
      /\ entries' \in Seq(EntryRow)
  BY <1>5, EntryWritten
<1>7. /\ Len(entries') = Len(entries) + 1 /\ Len(entries) \in Nat
      /\ entries'[Len(entries) + 1] = e
      /\ \A i \in 1..Len(entries) : entries'[i] = entries[i]
  <2>1. entries \in Seq(EntryRow) /\ e \in EntryRow
    BY <1>5 DEF GenInv, GenTyped, Writes
  <2> HIDE DEF e
  <2> QED BY <1>2, <2>1
<1>8. GenTyped'
  <2>1. TablesTyped'
    BY <1>1, <1>2, <1>6 DEF GenInv, GenTyped, TablesTyped
  <2> QED BY <1>2, <1>3, <1>6, <2>1 DEF GenInv, GenTyped
<1>9. Standing'
  <2>1. Headed' = Headed /\ Last(out'["events"]) = g /\ lastRoutineID' > 0
    BY <1>1, <1>2, <1>3 DEF Headed, g
  <2>2. eventOrder' = Cardinality(Headed') + 1
    BY <1>2, <2>1 DEF GenInv, Standing, AtHeading
  <2>3. currentEvent = [id |-> Len(out["events"]), exp |-> g.exp, rules |-> g.rules,
                        gender |-> ToGender(g.name.gender)]
    BY <1>2 DEF GenInv, Standing, AtHeading, g
  <2> QED BY <1>1, <1>2, <1>4, <1>6, <2>1, <2>2, <2>3 DEF Standing, AtSheet, AtHeading
<1>10. RingsHold'
  <2>1. \A r : TextRing(r)' <=> TextRing(r)
    BY <1>2 DEF TextRing
  <2>2. TextRing(ringID)
    BY <1>2, <1>3 DEF TextRing
  <2>3. \A i \in 1..(Len(entries) + 1) : i \in 1..Len(entries) \/ i = Len(entries) + 1
    BY <1>7
  <2>4. \A i \in 1..Len(entries') : entries'[i].format = "uwg" => TextRing(entries'[i].ring)
    BY <1>2, <1>7, <2>2, <2>3 DEF GenInv, RingsHold
  <2> QED BY <1>1, <1>2, <2>1, <2>4 DEF GenInv, RingsHold
<1>11. SheetsHold'
  <2>1. \A k \in 1..Len(entries) : k \in 1..Len(entries')
    BY <1>7
  <2> QED BY <1>1, <1>2, <1>3, <1>7, <2>1 DEF GenInv, SheetsHold
<1>12. LoadedHold'
  BY <1>2 DEF GenInv, LoadedHold
<1> QED BY <1>6, <1>8, <1>9, <1>10, <1>11, <1>12 DEF GenInv

\* A record of a spreadsheet.
LEMMA SheetInv ==
    ASSUME GenInv, NEW h \in Headings, NEW name \in Names, PwcRecord(h, name)
    PROVE  GenInv'
<1>0. PICK n : n = Len(out["events"])
  OBVIOUS
<1> DEFINE new == PwcName(h) # lastEvent
           d == [ring |-> ringID, name |-> PwcName(h), order |-> eventOrder,
                 exp |-> ToExperience(h.exp), rules |-> USWU]
           e == [format |-> "pwc", ring |-> ringID, heading |-> h, name |-> name]
           row == [name |-> name, gender |-> ToGender(h.gender), exp |-> ToExperience(h.exp)]
           c == FindOrAddCompetitor(ToTitle(name), row)
           order == IF new THEN 1 ELSE compOrder
<1>1. /\ compID' = c.compID /\ competitorMap' = c.map
      /\ out'["competitors"] = out["competitors"] \o c.rows
      /\ out'["routines"] = Append(out["routines"], [event |-> eventID', order |-> order,
                                                    competitor |-> c.id])
      /\ out'["rings"] = out["rings"] /\ out'["nandu_sheets"] = out["nandu_sheets"]
      /\ out'["events"] = IF new THEN Append(out["events"], d) ELSE out["events"]
      /\ out' = [t \in Tables |-> out'[t]]
  BY DEF GenInv, GenTyped, TablesTyped, PwcRecord, Tables, StartAgain
<1>2. /\ UNCHANGED <<fileType, phase, files, ringID, eventOrder, lastRoutineID, currentEvent,
                     loaded, sheets>>
      /\ eventID' = (IF new THEN eventID + 1 ELSE eventID)
      /\ lastEvent' = PwcName(h) /\ compOrder' = order + 1
      /\ entries' = Append(entries, e)
      /\ phase = "pwc" /\ files > 0
  BY DEF PwcRecord, StartAgain
<1>3. /\ n \in Nat /\ n = eventID /\ out["events"] \in Seq(EventRow)
      /\ ringID \in Nat \ {0} /\ files \in Nat /\ compOrder \in Nat /\ Len(entries) \in Nat
  BY <1>0, <1>2, GenCounts DEF GenInv, GenTyped, TablesTyped, RingsHold
<1>4. d \in EventRow /\ e \in EntryRow /\ row \in CompetitorRow
  <2>1. ToExperience(h.exp) \in Levels /\ ToGender(h.gender) \in Sexes /\ PwcName(h) \in SheetEvents
    BY DEF Levels, Sexes, SheetEvents
  <2>2. eventOrder \in Nat /\ USWU \in Nat
    BY DEF GenInv, GenTyped, USWU
  <2> QED BY <1>3, <2>1, <2>2 DEF EventRow, EntryRow, CompetitorRow
<1>5. ~new => /\ n > 0 /\ compOrder = Cardinality(Listed) + 1
              /\ out["events"][n].ring = ringID /\ out["events"][n].name = PwcName(h)
              /\ out["events"][n].exp = ToExperience(h.exp) /\ out["events"][n].rules = USWU
  <2>1. PwcName(h) # <<>> /\ PwcName(h)[1] = ToExperience(h.exp)
    BY DEF PwcName
  <2>2. AtSheet /\ Last(out["events"]) = out["events"][n] /\ (out["events"] # <<>> <=> n > 0)
    BY <1>0, GenCounts DEF GenInv, Standing
  <2> QED BY <1>2, <2>1, <2>2 DEF AtSheet
<1>6. /\ Len(out'["events"]) \in Nat \ {0} /\ n \leq Len(out'["events"])
      /\ eventID' = Len(out'["events"]) /\ out'["events"] \in Seq(EventRow)
      /\ \A k \in 1..n : out'["events"][k] = out["events"][k]
      /\ \A k \in 1..Len(out'["events"]) : k \in 1..n \/ out'["events"][k] = d
      /\ LET last == out'["events"][Len(out'["events"])]
         IN /\ last.ring = ringID /\ last.name = PwcName(h)
            /\ last.exp = ToExperience(h.exp) /\ last.rules = USWU
  <2>1. CASE new
    <3>1. out'["events"] = Append(out["events"], d)
      BY <1>1, <2>1
    <3>2. d.ring = ringID /\ d.name = PwcName(h) /\ d.exp = ToExperience(h.exp) /\ d.rules = USWU
      OBVIOUS
    <3> HIDE DEF d
    <3>3. /\ Len(out'["events"]) = n + 1 /\ out'["events"][n + 1] = d
          /\ out'["events"] \in Seq(EventRow)
          /\ \A k \in 1..n : out'["events"][k] = out["events"][k]
      <4>1. d \in EventRow /\ out["events"] \in Seq(EventRow) /\ Len(out["events"]) = n
        BY <1>0, <1>3, <1>4
      <4> QED BY <3>1, <4>1
    <3> QED BY <1>2, <1>3, <2>1, <3>2, <3>3
  <2>2. CASE ~new
    <3> HIDE DEF new, d
    <3>1. out'["events"] = out["events"] /\ eventID' = eventID /\ Len(out["events"]) = n
      BY <1>0, <1>1, <1>2, <2>2
    <3> QED BY <1>3, <1>5, <2>2, <3>1
  <2> QED BY <2>1, <2>2
<1>7. order = 1 + Cardinality({j \in 1..Len(entries) : RoutineOf(j).event = Len(out'["events"])})
      /\ order \in Nat
  <2> DEFINE S == {j \in 1..Len(entries) : RoutineOf(j).event = Len(out'["events"])}
  <2>1. CASE new
    <3>1. Len(out'["events"]) = n + 1
      BY <1>2, <1>3, <1>6, <2>1
    <3>2. \A j \in 1..Len(entries) : RoutineOf(j).event \in 1..n
      BY <1>0 DEF GenInv, EntriesHold, EntryHolds, EventHolds
    <3>3. S = {}
      BY <1>3, <3>1, <3>2
    <3>4. order = 1
      BY <2>1
    <3>5. Cardinality(S) = 0
      BY <3>3, FS_EmptySet
    <3> HIDE DEF order
    <3> QED BY <3>4, <3>5
  <2>2. CASE ~new
    <3>1. S = Listed
      BY <1>1, <2>2 DEF Listed
    <3>2. Cardinality(Listed) \in Nat
      BY <1>3, OneMore DEF Listed
    <3>3. order = Cardinality(Listed) + 1
      BY <1>5, <2>2
    <3>4. order = 1 + Cardinality(Listed) /\ order \in Nat
      BY <3>2, <3>3
    <3> HIDE DEF order
    <3> QED BY <3>1, <3>4
  <2> QED BY <2>1, <2>2
<1>8. Writes(e, row)
  <2>1. KeyOf(e) = ToTitle(name) /\ row.name = e.name /\ row.gender = ToGender(e.heading.gender)
    BY DEF KeyOf
  <2>2. compOrder' = 2 + Cardinality({j \in 1..Len(entries) :
                                         RoutineOf(j).event = Len(out'["events"])})
    <3> HIDE DEF order
    <3>1. Cardinality({j \in 1..Len(entries) : RoutineOf(j).event = Len(out'["events"])}) \in Nat
      BY <1>3, OneMore
    <3> QED BY <1>2, <1>7, <3>1
  <2>3. out'["routines"] = Append(out["routines"], [event |-> Len(out'["events"]),
                                                  order |-> compOrder' - 1, competitor |-> c.id])
    <3> HIDE DEF order, c
    <3>1. compOrder' - 1 = order
      BY <1>2, <1>7
    <3> QED BY <1>1, <1>6, <3>1
  <2>4. LET last == out'["events"][Len(out'["events"])]
        IN last.ring = e.ring /\ last.name = PwcName(e.heading)
           /\ last.exp = ToExperience(e.heading.exp) /\ last.rules = USWU
    BY <1>6
  <2>5. entries' = Append(entries, e) /\ e.format = "pwc"
    BY <1>2
  <2>6. compID' = c.compID /\ competitorMap' = c.map
        /\ out'["competitors"] = out["competitors"] \o c.rows
    BY <1>1
  <2>7. c = FindOrAddCompetitor(KeyOf(e), row)
    BY <2>1
  <2> HIDE DEF c, e, row
  <2> QED BY <1>0, <1>4, <1>6, <2>1, <2>2, <2>3, <2>4, <2>5, <2>6, <2>7 DEF Writes
<1> HIDE DEF row, c, d, new, order
<1>9. /\ NamesHold' /\ EntriesHold'
      /\ compOrder' = Cardinality(Listed') + 1 /\ compOrder' \in Nat
      /\ out'["competitors"] \in Seq(CompetitorRow) /\ compID' = Len(out'["competitors"])
      /\ out'["routines"] \in Seq(RoutineRow) /\ Len(out'["routines"]) = Len(entries')
      /\ entries' \in Seq(EntryRow)
  BY <1>8, EntryWritten
<1>10. /\ Len(entries') = Len(entries) + 1
       /\ \A i \in 1..Len(entries') : entries'[i].format = "pwc"
  <2>1. e.format = "pwc" /\ entries \in Seq(EntryRow)
    BY DEF GenInv, GenTyped
  <2>2. \A i \in 1..Len(entries) : entries[i].format = "pwc"
    <3>1. \A i \in 1..Len(entries) : entries[i] \in EntryRow /\ entries[i].format # "uwg"
      BY <1>2, GenCounts DEF GenInv, RingsHold, HasText
    <3> QED BY <3>1 DEF EntryRow
  <2> HIDE DEF e
  <2> QED BY <1>2, <1>3, <1>4, <2>1, <2>2
<1>11. GenTyped'
  <2>1. TablesTyped'
    BY <1>1, <1>2, <1>6, <1>9 DEF GenInv, GenTyped, TablesTyped
  <2>2. lastEvent' \in SheetEvents
    BY <1>2 DEF SheetEvents
  <2> QED BY <1>2, <1>9, <2>1, <2>2 DEF GenInv, GenTyped
<1>12. Standing'
  <2>1. /\ Last(out'["events"]) = out'["events"][Len(out'["events"])]
        /\ out'["events"] # <<>>
    BY <1>6 DEF Last
  <2>2. PwcName(h)[1] = ToExperience(h.exp)
    BY DEF PwcName
  <2> QED BY <1>2, <1>6, <1>9, <2>1, <2>2 DEF Standing, AtSheet, AtHeading
<1>13. RingsHold'
  <2>1. ~HasText'
    BY <1>10 DEF HasText
  <2>2. d.ring = ringID
    BY DEF d
  <2>3. \A k \in 1..n : out["events"][k].ring \in 1..ringID
    BY <1>0 DEF GenInv, RingsHold
  <2>4. \A k \in 1..Len(out'["events"]) : out'["events"][k].ring \in 1..ringID
    BY <1>3, <1>6, <2>2, <2>3
  <2> QED BY <1>2, <1>10, <2>1, <2>4 DEF GenInv, RingsHold
<1>14. SheetsHold'
  <2>1. \A k \in 1..Len(entries) : k \in 1..Len(entries')
    BY <1>3, <1>10
  <2>2. lastRoutineID' \leq Len(entries')
    BY <1>2, <1>3, <1>10 DEF GenInv, GenTyped, SheetsHold
  <2> QED BY <1>1, <1>2, <2>1, <2>2 DEF GenInv, SheetsHold
<1>15. LoadedHold'
  BY <1>2 DEF GenInv, LoadedHold
<1> QED BY <1>9, <1>11, <1>12, <1>13, <1>14, <1>15 DEF GenInv

-----------------------------------------------------------------------------
(* What the combined file says.                                             *)

\* The rows and the counters agree in every reachable state.
LEMMA GenInvariant == GenSpec => []GenInv
<1>1. GenInv /\ [GenNext]_genVars => GenInv'
  <2> SUFFICES ASSUME GenInv, [GenNext]_genVars PROVE GenInv'
    OBVIOUS
  <2>1. CASE \E f \in {"pwc", "uwg"} : NextFile(f)
    BY <2>1, FileInv
  <2>2. CASE \E h \in Headings, name \in Names : PwcRecord(h, name)
    BY <2>2, SheetInv
  <2>3. CASE \E h \in Headings : EventLine(h)
    BY <2>3, HeadingInv
  <2>4. CASE \E name \in Names : CompetitorLine(name)
    BY <2>4, LineInv
  <2>5. CASE NanduLine
    BY <2>5, NanduInv
  <2>6. CASE Malformed \/ TestRings \/ Finish \/ Cat
    BY <2>6, PhaseInv
  <2>7. CASE UNCHANGED genVars
    <3>1. UNCHANGED <<fileType, phase, files, ringID, eventID, eventOrder, compID, compOrder,
                      lastRoutineID, currentEvent, lastEvent, competitorMap, out, loaded,
                      entries, sheets>>
      BY <2>7 DEF genVars, counters, genHistory
    <3>2. GenTyped'
      BY <3>1 DEF GenInv, GenTyped, TablesTyped
    <3>3. NamesHold' /\ EntriesHold'
      BY <3>1, SameEntries, GenCounts DEF GenInv
    <3>4. Standing'
      BY <3>1 DEF GenInv, Standing, AtSheet, AtHeading, Listed, Headed, InEvent, RoutineOf
    <3>5. RingsHold' /\ SheetsHold' /\ LoadedHold'
      BY <3>1 DEF GenInv, RingsHold, SheetsHold, LoadedHold, HasText, TextRing
    <3> QED BY <3>2, <3>3, <3>4, <3>5 DEF GenInv
  <2> QED BY <2>1, <2>2, <2>3, <2>4, <2>5, <2>6, <2>7 DEF GenNext
<1> QED BY <1>1, GenInitially, PTL DEF GenSpec

\* The database accepts the combined file: a row refers to rows that are loaded
\* before it, as the tables follow one another in the order of intFiles.
LEMMA Resolves == GenInv => ReferencesResolve
<1> SUFFICES ASSUME GenInv, NEW k \in 1..Len(loaded), NEW i \in 1..Len(out[loaded[k]])
             PROVE  LET rows(t) == IF t \in ToSet(loaded) THEN 1..Len(out[t]) ELSE {}
                        row == out[loaded[k]][i]
                    IN  CASE loaded[k] = "events" -> row.ring \in rows("rings")
                          [] loaded[k] = "routines" -> /\ row.event \in rows("events")
                                                       /\ row.competitor \in rows("competitors")
                          [] loaded[k] = "nandu_sheets" -> row.routine \in rows("routines")
                          [] OTHER -> TRUE
  BY DEF ReferencesResolve
<1> DEFINE n == Len(loaded)
<1>1. /\ n \in Nat /\ n \leq 5 /\ loaded \in Seq(Tables)
      /\ \A j \in 1..n : loaded[j] = intFiles[j]
      /\ intFiles[1] = "rings" /\ intFiles[2] = "competitors" /\ intFiles[3] = "events"
      /\ intFiles[4] = "routines" /\ intFiles[5] = "nandu_sheets"
  BY DEF GenInv, LoadedHold, intFiles
<1>2. \A j \in 1..n : loaded[j] \in ToSet(loaded)
  BY <1>1 DEF ToSet
<1> HIDE DEF n
<1>3. k \in 1..n /\ n \leq 5 /\ n \in Nat
  BY <1>1 DEF n
<1>4. CASE loaded[k] = "events"
  <2>1. k = 3
    BY <1>1, <1>3, <1>4
  <2>2. loaded[1] = "rings" /\ "rings" \in ToSet(loaded)
    BY <1>1, <1>2, <1>3, <2>1
  <2>3. out[loaded[k]][i].ring \in 1..Len(out["rings"])
    BY <1>4 DEF GenInv, RingsHold, GenTyped, TablesTyped
  <2> QED BY <1>4, <2>2, <2>3
<1>5. CASE loaded[k] = "routines"
  <2>1. k = 4
    BY <1>1, <1>3, <1>5
  <2>2. "competitors" \in ToSet(loaded) /\ "events" \in ToSet(loaded)
    <3>1. 2 \in 1..n /\ 3 \in 1..n
      BY <1>3, <2>1
    <3>2. loaded[2] = "competitors" /\ loaded[3] = "events"
      BY <1>1, <3>1
    <3> QED BY <1>2, <3>1, <3>2
  <2>3. EntryHolds(i)
    BY <1>5 DEF GenInv, EntriesHold, GenTyped, TablesTyped
  <2>4. /\ out[loaded[k]][i].event \in 1..Len(out["events"])
        /\ out[loaded[k]][i].competitor \in 1..Len(out["competitors"])
    BY <1>5, <2>3 DEF EntryHolds, EventHolds, CompetitorHolds, RoutineOf
  <2> QED BY <1>5, <2>2, <2>4
<1>6. CASE loaded[k] = "nandu_sheets"
  <2>1. k = 5
    BY <1>1, <1>3, <1>6
  <2>2. "routines" \in ToSet(loaded)
    <3>1. 4 \in 1..n
      BY <1>3, <2>1
    <3>2. loaded[4] = "routines"
      BY <1>1, <3>1
    <3> QED BY <1>2, <3>1, <3>2
  <2>3. out[loaded[k]][i].routine \in 1..Len(out["routines"])
    BY <1>6 DEF GenInv, SheetsHold, GenTyped, TablesTyped
  <2> QED BY <1>6, <2>2, <2>3
<1>7. CASE loaded[k] \notin {"events", "routines", "nandu_sheets"}
  BY <1>7
<1> QED BY <1>4, <1>5, <1>6, <1>7

\* Whatever the files hold, the ids that the generator counts are the ones the
\* database gives out: every routine's row leads to the event it stands under and
\* to the person it names.
THEOREM IdsAreTheDatabases == GenSpec => []EntriesAreKept
<1>1. GenInv => EntriesAreKept
  BY Resolves DEF GenInv, GenTyped, TablesTyped, EntriesHold, EntryHolds, EventHolds,
                  CompetitorHolds, EntriesAreKept
<1> QED BY <1>1, GenInvariant, PTL

\* The competitors of every event, and the events of every ring read from a text
\* file, are numbered from one without gaps in the order they are listed.
THEOREM NumberedAsListed == GenSpec => []LineupsAreNumbered
<1>1. ASSUME GenInv PROVE LineupsAreNumbered
  <2>1. \A i \in 1..Len(out["routines"]) :
            RoutineOf(i).order = Cardinality({j \in 1..i : RoutineOf(j).event = RoutineOf(i).event})
    BY <1>1 DEF GenInv, GenTyped, TablesTyped, EntriesHold, EntryHolds, PlaceHolds
  <2> DEFINE R == {entries[i].ring : i \in {j \in 1..Len(entries) : entries[j].format = "uwg"}}
  <2>2. \A r \in R : HasText /\ TextRing(r)
    BY <1>1 DEF GenInv, RingsHold, HasText
  <2> HIDE DEF R
  <2>3. EventsNumbered(R)
    BY <1>1, <2>2 DEF GenInv, RingsHold, EventsNumbered
  <2> QED BY <2>1, <2>3 DEF LineupsAreNumbered, R
<1> QED BY <1>1, GenInvariant, PTL

\* A name leads to one competitor, however many events it is entered in.
THEOREM OneCompetitorPerName == GenSpec => []OneRowPerCompetitor
<1>1. ASSUME GenInv PROVE OneRowPerCompetitor
  <2> SUFFICES ASSUME NEW i \in 1..Len(entries), NEW j \in 1..Len(entries),
                      entries[i].format = entries[j].format,
                      entries[i].name.who = entries[j].name.who,
                      entries[i].format = "pwc" \/ entries[i].name = entries[j].name
               PROVE  RoutineOf(i).competitor = RoutineOf(j).competitor
    BY DEF OneRowPerCompetitor
  <2>1. CompetitorHolds(i) /\ CompetitorHolds(j)
    BY <1>1 DEF GenInv, EntriesHold, EntryHolds
  <2>2. entries[i] \in EntryRow /\ entries[j] \in EntryRow
    BY <1>1, GenCounts DEF GenInv
  <2>3. \A n \in Names : n \in [who : {m.who : m \in Names}, spelling : {m.spelling : m \in Names}]
    BY NamesAssumption
  <2>4. \A m, n \in Names : m.who = n.who => ToTitle(m) = ToTitle(n)
    <3> TAKE m, n \in Names
    <3>1. ToTitle(m) = [who |-> m.who, spelling |-> "upper"]
      BY <2>3 DEF ToTitle
    <3>2. ToTitle(n) = [who |-> n.who, spelling |-> "upper"]
      BY <2>3 DEF ToTitle
    <3> QED BY <3>1, <3>2
  <2>5. KeyOf(entries[i]) = KeyOf(entries[j])
    BY <2>2, <2>4 DEF KeyOf, EntryRow
  <2> QED BY <2>1, <2>5 DEF CompetitorHolds
<1> QED BY <1>1, GenInvariant, PTL

\* Without spreadsheets a nandu sequence is the sheet of the routine above it.
THEOREM SheetsFollowInText == GenSpec => []TextSheetsFollow
<1>1. GenInv => TextSheetsFollow
  BY DEF GenInv, SheetsHold, TextSheetsFollow
<1> QED BY <1>1, GenInvariant, PTL

\* The words of the headings are ones the enumerations know.
WordsAreKnown ==
    \A h \in Headings : h.exp \in DOMAIN LevelOf /\ h.gender \in DOMAIN GenderOf

\* The tables list the enumerations in the order of their values.
LEMMA TablesInOrder ==
    /\ \A w \in DOMAIN LevelOf : Experiences[ToExperience(w)] = LevelOf[w]
    /\ \A w \in DOMAIN GenderOf : Genders[ToGender(w)] = GenderOf[w]
    /\ Rulesets[USWU] = "uswu" /\ Rulesets[IWUF] = "iwuf" /\ Rulesets[IWUFAB] = "iwuf-ab"
<1> USE DEF Beginner, Intermediate, Advanced, FirstTimer, Female, Male, USWU, IWUF, IWUFAB
<1>1. /\ ToSet(AllExperiences) = {1, 2, 3, 4} /\ ToSet(AllGenders) = {1, 2}
      /\ ToSet(AllRulesets) = {1, 2, 3}
      /\ Len(AllExperiences) = 4 /\ Len(AllGenders) = 2 /\ Len(AllRulesets) = 3
  BY DEF ToSet, AllExperiences, AllGenders, AllRulesets
<1>2. /\ ExperienceString[1] = "beginner" /\ ExperienceString[2] = "intermediate"
      /\ ExperienceString[3] = "advanced" /\ ExperienceString[4] = "firsttimer"
  BY <1>1 DEF ExperienceString
<1>3. /\ ExperienceStringShort[1] = "beg" /\ ExperienceStringShort[2] = "int"
      /\ ExperienceStringShort[3] = "adv" /\ ExperienceStringShort[4] = "ft"
  BY <1>1 DEF ExperienceStringShort
<1>4. /\ GenderString[1] = "female" /\ GenderString[2] = "male"
      /\ GenderStringShort[1] = "f" /\ GenderStringShort[2] = "m"
  BY <1>1 DEF GenderString, GenderStringShort
<1>5. /\ Experiences[1] = "beginner" /\ Experiences[2] = "intermediate"
      /\ Experiences[3] = "advanced" /\ Experiences[4] = "firsttimer"
  BY <1>1, <1>2 DEF Experiences, AllExperiences
<1>6. Genders[1] = "female" /\ Genders[2] = "male"
  BY <1>1, <1>4 DEF Genders, AllGenders
<1>7. Rulesets[1] = "uswu" /\ Rulesets[2] = "iwuf" /\ Rulesets[3] = "iwuf-ab"
  BY <1>1 DEF Rulesets, AllRulesets, RulesetString
<1>8. ASSUME NEW w \in DOMAIN LevelOf PROVE Experiences[ToExperience(w)] = LevelOf[w]
  <2> DEFINE meant == {v \in {1, 2, 3, 4} : ExperienceString[v] = w \/ ExperienceStringShort[v] = w}
  <2>1. ToExperience(w) = IF meant = {} THEN 0 ELSE CHOOSE v \in meant : TRUE
    BY <1>1 DEF ToExperience, Named, InvalidExperience
  <2>2. w \in {"beg", "beginner", "int", "intermediate", "adv", "advanced", "ft", "firsttimer"}
    BY DEF LevelOf
  <2>3. CASE w \in {"beg", "beginner"}
    <3>1. meant = {1}
      BY <1>2, <1>3, <2>3
    <3> QED BY <1>5, <2>1, <2>3, <3>1 DEF LevelOf
  <2>4. CASE w \in {"int", "intermediate"}
    <3>1. meant = {2}
      BY <1>2, <1>3, <2>4
    <3> QED BY <1>5, <2>1, <2>4, <3>1 DEF LevelOf
  <2>5. CASE w \in {"adv", "advanced"}
    <3>1. meant = {3}
      BY <1>2, <1>3, <2>5
    <3> QED BY <1>5, <2>1, <2>5, <3>1 DEF LevelOf
  <2>6. CASE w \in {"ft", "firsttimer"}
    <3>1. meant = {4}
      BY <1>2, <1>3, <2>6
    <3> QED BY <1>5, <2>1, <2>6, <3>1 DEF LevelOf
  <2> QED BY <2>2, <2>3, <2>4, <2>5, <2>6
<1>9. ASSUME NEW w \in DOMAIN GenderOf PROVE Genders[ToGender(w)] = GenderOf[w]
  <2> DEFINE meant == {v \in {1, 2} : GenderString[v] = w \/ GenderStringShort[v] = w}
  <2>1. ToGender(w) = IF meant = {} THEN 0 ELSE CHOOSE v \in meant : TRUE
    BY <1>1 DEF ToGender, Named, OtherGender
  <2>2. w \in {"f", "female", "m", "male"}
    BY DEF GenderOf
  <2>3. CASE w \in {"f", "female"}
    <3>1. meant = {1}
      BY <1>4, <2>3
    <3> QED BY <1>6, <2>1, <2>3, <3>1 DEF GenderOf
  <2>4. CASE w \in {"m", "male"}
    <3>1. meant = {2}
      BY <1>4, <2>4
    <3> QED BY <1>6, <2>1, <2>4, <3>1 DEF GenderOf
  <2> QED BY <2>2, <2>3, <2>4
<1> QED BY <1>7, <1>8, <1>9

\* When the headings use known words, the numbers the rows refer to are, in the
\* tables of categories, the level, the rules and the gender that the files name.
THEOREM CategoriesKeepMeaning == WordsAreKnown => (GenSpec => []CategoriesAreMeant)
<1> SUFFICES ASSUME WordsAreKnown PROVE GenSpec => []CategoriesAreMeant
  OBVIOUS
<1>1. ASSUME GenInv PROVE CategoriesAreMeant
  <2> SUFFICES ASSUME NEW i \in 1..Len(entries)
               PROVE  /\ Experiences[MapToExperience(EventOf(i).exp)] = LevelOf[entries[i].heading.exp]
                      /\ Rulesets[MapToRuleset(EventOf(i).rules)] = RulesOf(entries[i])
                      /\ IsFirst(i) => Genders[MapToGender(CompetitorOf(i).gender)]
                                           = GenderOf[entries[i].heading.gender]
    BY DEF CategoriesAreMeant, IsFirst
  <2>1. EventHolds(i) /\ CompetitorHolds(i)
    BY <1>1 DEF GenInv, EntriesHold, EntryHolds
  <2>2. entries[i].heading \in Headings
    BY <1>1, GenCounts DEF GenInv, EntryRow
  <2>3. Experiences[MapToExperience(EventOf(i).exp)] = LevelOf[entries[i].heading.exp]
    BY <1>1, <2>1, <2>2, TablesInOrder DEF EventHolds, WordsAreKnown, MapToExperience
  <2>4. Rulesets[MapToRuleset(EventOf(i).rules)] = RulesOf(entries[i])
    BY <2>1, TablesInOrder DEF EventHolds, Rules, RulesOf, MapToRuleset
  <2>5. IsFirst(i) => Genders[MapToGender(CompetitorOf(i).gender)]
                         = GenderOf[entries[i].heading.gender]
    BY <1>1, <2>1, <2>2, TablesInOrder DEF CompetitorHolds, WordsAreKnown, MapToGender
  <2> QED BY <2>3, <2>4, <2>5
<1> QED BY <1>1, GenInvariant, PTL

-----------------------------------------------------------------------------
(* The ring's tables.  AddCompetitorToEvent takes the number before it       *)
(* inserts the row: the number stays free, and above all others, until then. *)

LineupRow == [event : Events, competitor : Competitors, order : Nat]

LineupHolds ==
    /\ routines \subseteq LineupRow /\ IsFiniteSet(routines)
    /\ inRing \subseteq Events /\ IsFiniteSet(inRing)
    /\ adding # None => adding \in LineupRow

\* Finitely many numbers have a bound.
LEMMA FiniteIsBounded ==
    ASSUME NEW S \in SUBSET Nat, IsFiniteSet(S)
    PROVE  \E b \in Nat : \A i \in S : i <= b
<1>1. Cardinality(S) \in Nat /\ ExistsBijection(1..Cardinality(S), S)
  BY FS_CardinalityType
<1>2. PICK n \in Nat : n = Cardinality(S)
  BY <1>1
<1>3. PICK f : f \in Bijection(1..n, S)
  BY <1>1, <1>2 DEF ExistsBijection
<1>4. f \in [1..n -> S] /\ \A i \in S : \E k \in 1..n : f[k] = i
  BY <1>3 DEF Bijection, Surjection
<1>a. \A k \in 1..n : f[k] \in Nat
  BY <1>4
<1> DEFINE Below(m) == \E b \in Nat : \A k \in 1..m : f[k] <= b
           T == {m \in 0..n : ~Below(m)}
<1>5. ASSUME T # {} PROVE FALSE
  <2>1. PICK m \in T : \A l \in T : <<l, m>> \notin OpToRel(<, Nat)
    <3>1. T \subseteq Nat
      OBVIOUS
    <3> HIDE DEF T
    <3> QED BY <1>5, <3>1, WFMin, NatLessThanWellFounded, Zenon
  <2>2. m \in 0..n /\ ~Below(m) /\ \A l \in T : ~(l < m)
    <3>1. m \in 0..n /\ ~Below(m)
      OBVIOUS
    <3>2. \A l \in T : l \in Nat
      OBVIOUS
    <3> HIDE DEF T
    <3> QED BY <2>1, <3>1, <3>2 DEF OpToRel
  <2>3. m # 0
    <3>1. Below(0)
      <4>1. \A k \in 1..0 : f[k] <= 0
        OBVIOUS
      <4> QED BY <4>1
    <3> QED BY <2>2, <3>1
  <2>4. m - 1 \in 0..n /\ m - 1 < m
    BY <2>2, <2>3
  <2>5. Below(m - 1)
    <3> HIDE DEF Below
    <3> QED BY <2>2, <2>4
  <2>6. PICK b \in Nat : \A k \in 1..(m - 1) : f[k] <= b
    BY <2>5
  <2>7. PICK y \in Nat : y = f[m]
    <3>1. m \in 1..n
      BY <2>2, <2>3
    <3> QED BY <1>a, <3>1
  <2>8. \A k \in 1..m : k \in 1..(m - 1) \/ k = m
    BY <2>2
  <2>9. \A k \in 1..m : f[k] \in Nat
    <3>1. \A k \in 1..m : k \in 1..n
      BY <2>2
    <3> QED BY <1>a, <3>1
  <2>10. CASE y <= b
    <3>1. \A k \in 1..m : f[k] <= b
      BY <2>6, <2>7, <2>8, <2>10
    <3> QED BY <2>2, <3>1
  <2>11. CASE b < y
    <3>1. \A k \in 1..m : f[k] <= y
      BY <2>6, <2>7, <2>8, <2>9, <2>11
    <3> QED BY <2>2, <2>7, <3>1
  <2> QED BY <2>6, <2>7, <2>10, <2>11
<1>6. PICK b \in Nat : \A k \in 1..n : f[k] <= b
  <2>1. n \in 0..n
    OBVIOUS
  <2>2. Below(n)
    BY <1>5, <2>1
  <2> QED BY <2>2
<1> QED BY <1>4, <1>6

\* Numbers with a bound have a largest one.
LEMMA BoundedMax ==
    ASSUME NEW S \in SUBSET Nat, S # {}, NEW b \in Nat, \A i \in S : i <= b
    PROVE  Max(S) \in S /\ \A i \in S : i <= Max(S)
<1> DEFINE Bounds == {x \in Nat : \A i \in S : i <= x}
<1>1. Bounds \subseteq Nat /\ b \in Bounds
  OBVIOUS
<1>2. PICK x \in Bounds : \A y \in Bounds : <<y, x>> \notin OpToRel(<, Nat)
  BY <1>1, WFMin, NatLessThanWellFounded
<1>3. \A y \in Bounds : ~ (y < x)
  BY <1>1, <1>2 DEF OpToRel
<1>4. x \in S
  <2> SUFFICES ASSUME x \notin S PROVE x - 1 \in Bounds
    BY <1>3
  <2>1. PICK i \in S : TRUE
    OBVIOUS
  <2>2. x \in Nat /\ \A k \in S : k \in Nat /\ k <= x /\ k # x
    OBVIOUS
  <2> QED BY <2>1, <2>2
<1>5. \A y \in S : x >= y
  OBVIOUS
<1>6. Max(S) \in S /\ \A y \in S : Max(S) >= y
  BY <1>4, <1>5 DEF Max
<1> QED BY <1>6

\* A new number is above those of the event.
LEMMA NewOrderIsLast ==
    ASSUME LineupHolds, NEW e
    PROVE  NewOrder(e) \in Nat /\ \A r \in RowsIn(e) : r.order < NewOrder(e)
<1> DEFINE R == RowsIn(e)
           num(r) == r.order
           S == {num(r) : r \in R}
<1>1. CASE RowsIn(e) = {}
  BY <1>1 DEF NewOrder
<1>2. CASE RowsIn(e) # {}
  <2>1. IsFiniteSet(R) /\ \A r \in R : num(r) \in Nat
    <3>1. R \subseteq routines
      BY DEF RowsIn
    <3> QED BY <3>1, FS_Subset DEF LineupHolds, LineupRow
  <2>2. NewOrder(e) = Max(S) + 1
    BY <1>2 DEF NewOrder
  <2>3. [r \in R |-> num(r)] \in Surjection(R, S)
    BY DEF Surjection
  <2>4. S \in SUBSET Nat /\ S # {}
    BY <1>2, <2>1
  <2>5. \A r \in R : num(r) \in S
    OBVIOUS
  <2> HIDE DEF S, R
  <2>6. IsFiniteSet(S)
    BY <2>1, <2>3, FS_Surjection
  <2>7. PICK b \in Nat : \A i \in S : i <= b
    BY <2>4, <2>6, FiniteIsBounded
  <2>8. Max(S) \in S /\ \A i \in S : i <= Max(S)
    BY <2>4, <2>7, BoundedMax
  <2>9. Max(S) \in Nat /\ \A r \in R : num(r) \in Nat /\ num(r) <= Max(S)
    BY <2>4, <2>5, <2>8
  <2> QED BY <2>2, <2>9 DEF R
<1> QED BY <1>1, <1>2

\* Whatever is added, removed or moved, the tables stay finite and typed.
LEMMA LineupInvariant == Spec => []LineupHolds
<1>1. Init => LineupHolds
  BY EntriesAssumption, EventsAssumption DEF Init, LineupHolds, LineupRow
<1>2. LineupHolds /\ [Next]_vars => LineupHolds'
  <2> SUFFICES ASSUME LineupHolds, [Next]_vars PROVE LineupHolds'
    OBVIOUS
  <2>1. ASSUME UNCHANGED <<routines, inRing, adding>> PROVE LineupHolds'
    BY <2>1 DEF LineupHolds
  <2>2. ASSUME NEW c \in Competitors, NEW e \in Events, AddCompetitorToEvent(c, e)
        PROVE  LineupHolds'
    <3>1. adding' = Row(e, c, NewOrder(e)) /\ routines' = routines /\ inRing' = inRing
      BY <2>2 DEF AddCompetitorToEvent
    <3>2. NewOrder(e) \in Nat
      BY NewOrderIsLast
    <3> QED BY <3>1, <3>2 DEF LineupHolds, LineupRow, Row
  <2>3. CASE InsertRoutine
    <3>1. adding # None /\ routines' = routines \cup {adding} /\ adding' = None /\ inRing' = inRing
      BY <2>3 DEF InsertRoutine
    <3>2. IsFiniteSet(routines')
      BY <3>1, FS_AddElement DEF LineupHolds
    <3> QED BY <3>1, <3>2 DEF LineupHolds
  <2>4. ASSUME NEW c \in Competitors, NEW e \in Events, RemoveCompetitorFromEvent(c, e)
        PROVE  LineupHolds'
    <3>1. routines' = routines \ GetRoutine(e, c) /\ adding' = adding /\ inRing' = inRing
      BY <2>4 DEF RemoveCompetitorFromEvent
    <3>2. IsFiniteSet(routines')
      BY <3>1, FS_Subset DEF LineupHolds
    <3> QED BY <3>1, <3>2 DEF LineupHolds
  <2>5. ASSUME NEW e \in Events, moveEvent(e) PROVE LineupHolds'
    <3>1. inRing' \in {inRing \ {e}, inRing \cup {e}} /\ UNCHANGED <<routines, adding>>
      BY <2>5 DEF moveEvent
    <3>2. IsFiniteSet(inRing')
      BY <3>1, FS_AddElement, FS_Subset DEF LineupHolds
    <3> QED BY <3>1, <3>2 DEF LineupHolds
  <2>6. CASE \/ Open \/ SelectEvent \/ SelectCompetitor \/ selectNextCompetitor
             \/ \E m \in sent : PostEvent(m) \/ setCompetitorList(m) \/ PostCompetitor(m)
    BY <2>1, <2>6 DEF Open, SelectEvent, SelectCompetitor, PostEvent, setCompetitorList,
                     PostCompetitor, selectNextCompetitor
  <2>7. CASE UNCHANGED vars
    BY <2>1, <2>7 DEF vars
  <2> QED BY <2>2, <2>3, <2>4, <2>5, <2>6, <2>7 DEF Next
<1> QED BY <1>1, <1>2, PTL DEF Spec

NumbersInv ==
    /\ NumbersAreDistinct
    /\ adding # None => \A r \in RowsIn(adding.event) : r.order < adding.order

\* As the generator writes them: no number twice in an event.
EntriesAreNumbered ==
    \A r, s \in Entries : r.event = s.event /\ r.order = s.order => r = s

\* The number taken for a new row is still the last when the row goes in.
LEMMA NumbersInvariant == EntriesAreNumbered => (Spec => []NumbersInv)
<1> SUFFICES ASSUME EntriesAreNumbered PROVE Spec => []NumbersInv
  OBVIOUS
<1>1. Init => NumbersInv
  BY DEF Init, EntriesAreNumbered, NumbersInv, NumbersAreDistinct
<1>2. LineupHolds /\ NumbersInv /\ [Next]_vars => NumbersInv'
  <2> SUFFICES ASSUME LineupHolds, NumbersInv, [Next]_vars PROVE NumbersInv'
    OBVIOUS
  <2>1. ASSUME UNCHANGED <<routines, adding>> PROVE NumbersInv'
    BY <2>1 DEF NumbersInv, NumbersAreDistinct, RowsIn
  <2>2. ASSUME NEW c \in Competitors, NEW e \in Events, AddCompetitorToEvent(c, e)
        PROVE  NumbersInv'
    <3>1. adding' = Row(e, c, NewOrder(e)) /\ routines' = routines
      BY <2>2 DEF AddCompetitorToEvent
    <3>2. adding'.event = e /\ adding'.order = NewOrder(e)
      BY <3>1 DEF Row
    <3>3. \A r \in RowsIn(e) : r.order < NewOrder(e)
      BY NewOrderIsLast
    <3> QED BY <3>1, <3>2, <3>3 DEF NumbersInv, NumbersAreDistinct, RowsIn
  <2>3. CASE InsertRoutine
    <3>1. adding # None /\ routines' = routines \cup {adding} /\ adding' = None
      BY <2>3 DEF InsertRoutine
    <3>2. \A r \in routines : r.event = adding.event => r.order < adding.order
      BY <3>1 DEF NumbersInv, RowsIn
    <3>3. adding.order \in Nat /\ \A r \in routines : r.order \in Nat
      BY <3>1 DEF LineupHolds, LineupRow
    <3> QED BY <3>1, <3>2, <3>3 DEF NumbersInv, NumbersAreDistinct
  <2>4. ASSUME NEW c \in Competitors, NEW e \in Events, RemoveCompetitorFromEvent(c, e)
        PROVE  NumbersInv'
    <3>1. routines' \subseteq routines /\ adding' = adding
      BY <2>4 DEF RemoveCompetitorFromEvent
    <3> QED BY <3>1 DEF NumbersInv, NumbersAreDistinct, RowsIn
  <2>5. CASE \/ Open \/ SelectEvent \/ SelectCompetitor \/ selectNextCompetitor
             \/ \E m \in sent : PostEvent(m) \/ setCompetitorList(m) \/ PostCompetitor(m)
             \/ \E e \in Events : moveEvent(e)
    BY <2>1, <2>5 DEF Open, SelectEvent, SelectCompetitor, PostEvent, setCompetitorList,
                     PostCompetitor, selectNextCompetitor, moveEvent
  <2>6. CASE UNCHANGED vars
    BY <2>1, <2>6 DEF vars
  <2> QED BY <2>2, <2>3, <2>4, <2>5, <2>6 DEF Next
<1> QED BY <1>1, <1>2, LineupInvariant, PTL DEF Spec

\* With one administrator at a time the numbers of an event's competitors stay
\* distinct, whatever is removed between the query and the insert.
THEOREM NumbersStayDistinct == EntriesAreNumbered => (Spec => []NumbersAreDistinct)
<1> SUFFICES ASSUME EntriesAreNumbered PROVE Spec => []NumbersAreDistinct
  OBVIOUS
<1>1. NumbersInv => NumbersAreDistinct
  BY DEF NumbersInv
<1> QED BY <1>1, NumbersInvariant, PTL

\* The rows that the generator writes meet EntriesAreNumbered.
WrittenAreNumbered ==
    \A i, j \in 1..Len(out["routines"]) :
        RoutineOf(i).event = RoutineOf(j).event /\ RoutineOf(i).order = RoutineOf(j).order
            => i = j

\* No two competitors of an event are written with one number.
THEOREM WrittenNumbersAreDistinct == GenSpec => []WrittenAreNumbered
<1>1. ASSUME GenInv PROVE WrittenAreNumbered
  <2> DEFINE n == Len(entries)
             Upto(i) == {j \in 1..i : RoutineOf(j).event = RoutineOf(i).event}
  <2>1. n \in Nat /\ Len(out["routines"]) = n
    BY <1>1, GenCounts DEF GenInv, GenTyped, TablesTyped
  <2>2. \A i \in 1..n : RoutineOf(i).order = Cardinality(Upto(i))
    BY <1>1 DEF GenInv, EntriesHold, EntryHolds, PlaceHolds
  <2>3. \A i \in 1..n : IsFiniteSet(Upto(i)) /\ Upto(i) \subseteq 1..n
    <3> TAKE i \in 1..n
    <3>1. Upto(i) \subseteq 1..n /\ IsFiniteSet(1..n)
      BY <2>1, FS_Interval
    <3> QED BY <3>1, FS_Subset
  <2>5. ASSUME NEW i \in 1..n, NEW j \in 1..n, i < j, RoutineOf(i).event = RoutineOf(j).event
        PROVE  RoutineOf(i).order # RoutineOf(j).order
    <3>1. Upto(i) \subseteq Upto(j) /\ j \in Upto(j) /\ j \notin Upto(i)
      BY <2>1, <2>5
    <3>2. Upto(i) # Upto(j)
      BY <3>1
    <3> HIDE DEF Upto
    <3>3. Cardinality(Upto(i)) # Cardinality(Upto(j))
      BY <2>3, <3>1, <3>2, FS_Subset
    <3> QED BY <2>2, <3>3
  <2>6. \A i, j \in 1..n : i < j \/ j < i \/ i = j
    BY <2>1
  <2> HIDE DEF n, Upto
  <2> QED BY <2>1, <2>5, <2>6 DEF WrittenAreNumbered
<1> QED BY <1>1, GenInvariant, PTL

-----------------------------------------------------------------------------
(* The display.  Where the numbers have no gaps, the list of an event has   *)
(* each competitor at his number.                                           *)

\* A list of numbers 1..n that goes up is 1, 2, ..., n.
LEMMA UpwardsIsCounting ==
    ASSUME NEW n \in Nat, NEW f \in [1..n -> 1..n],
           \A k, l \in 1..n : k < l => f[k] < f[l],
           \A m \in 1..n : \E k \in 1..n : f[k] = m,
           NEW k \in 1..n
    PROVE  f[k] = k
<1> DEFINE S == 1..(k - 1)
           T == 1..(f[k] - 1)
           g == [l \in S |-> f[l]]
<1>0. k \in Nat /\ k - 1 \in Nat /\ f[k] \in Nat /\ f[k] - 1 \in Nat /\ \A l \in S : l \in 1..n /\ l < k
  <2>1. PICK y \in 1..n : y = f[k]
    OBVIOUS
  <2>2. k \in Nat /\ k - 1 \in Nat /\ y \in Nat /\ y - 1 \in Nat
    OBVIOUS
  <2>3. \A l \in S : l \in 1..n /\ l < k
    OBVIOUS
  <2> QED BY <2>1, <2>2, <2>3
<1>a. \A l \in 1..n : f[l] \in 1..n
  OBVIOUS
<1>1. g \in [S -> T]
  <2>1. \A l \in S : f[l] \in 1..n /\ f[l] < f[k]
    BY <1>0, <1>a
  <2>2. \A l \in S : f[l] \in T
    <3> TAKE l \in S
    <3>1. PICK y \in 1..n : y = f[l]
      BY <2>1
    <3>2. y < f[k]
      BY <2>1, <3>1
    <3> QED BY <1>0, <3>1, <3>2
  <2> QED BY <2>2
<1>2. ASSUME NEW l \in S, NEW m \in S, g[l] = g[m] PROVE l = m
  <2>1. f[l] = f[m] /\ l \in 1..n /\ m \in 1..n /\ f[l] \in 1..n /\ f[m] \in 1..n
    BY <1>0, <1>2
  <2>2. ~(l < m) /\ ~(m < l)
    <3>1. ~(f[l] < f[m]) /\ ~(f[m] < f[l])
      BY <2>1
    <3> QED BY <2>1, <3>1
  <2> QED BY <2>1, <2>2
<1>3. ASSUME NEW m \in T PROVE \E l \in S : g[l] = m
  <2>1. m \in 1..n /\ m < f[k]
    BY <1>0, <1>3
  <2>2. PICK l \in 1..n : f[l] = m
    BY <2>1
  <2>3. ~(k < l) /\ l # k
    <3>1. m \in Nat /\ ~(f[k] < m) /\ f[k] # m
      <4>1. PICK y \in Nat : y = f[k]
        BY <1>0
      <4>2. m \in Nat /\ m < y
        BY <2>1, <4>1
      <4>3. ~(y < m) /\ y # m
        BY <4>2
      <4> QED BY <4>1, <4>2, <4>3
    <3> QED BY <2>2, <3>1
  <2>4. l \in S
    BY <2>3
  <2> QED BY <2>2, <2>4
<1> HIDE DEF S, T, g
<1>4. g \in Bijection(S, T)
  BY <1>1, <1>2, <1>3 DEF Bijection, Injection, Surjection, IsInjective
<1>5. IsFiniteSet(S) /\ Cardinality(S) = k - 1 /\ Cardinality(T) = f[k] - 1
  BY <1>0, IntervalSize DEF S, T
<1>6. Cardinality(S) = Cardinality(T)
  <2>1. ExistsBijection(S, T) /\ IsFiniteSet(T)
    <3>1. ExistsBijection(S, T)
      BY <1>4 DEF ExistsBijection
    <3> QED BY <1>0, <3>1, IntervalSize DEF T
  <2> QED BY <1>5, <2>1, FS_Bijection
<1> QED BY <1>0, <1>5, <1>6

\* The list of an event has the competitors of its rows, by their numbers.
LEMMA RowsSorted ==
    ASSUME LineupHolds, NEW e
    PROVE  /\ IsFiniteSet(RowsIn(e)) /\ Cardinality(RowsIn(e)) \in Nat
           /\ \E rows \in [1..Cardinality(RowsIn(e)) -> RowsIn(e)] :
                 /\ GetCompetitorsInEvent(e)
                    = [i \in 1..Cardinality(RowsIn(e)) |-> rows[i].competitor]
                 /\ \A k, l \in 1..Cardinality(RowsIn(e)) : rows[k] = rows[l] => k = l
                 /\ \A r \in RowsIn(e) : \E k \in 1..Cardinality(RowsIn(e)) : rows[k] = r
                 /\ \A k, l \in 1..Cardinality(RowsIn(e)) :
                        k < l => rows[k].order <= rows[l].order
<1> DEFINE S == RowsIn(e)
           n == Cardinality(S)
           key == [r \in S |-> r.order]
           list == SetToSeq(S)
           rows == ByKey(S, key)
<1>1. IsFiniteSet(S) /\ n \in Nat /\ \A r \in S : r.order \in Nat
  <2>1. S \subseteq routines /\ IsFiniteSet(S)
    BY FS_Subset DEF RowsIn, LineupHolds
  <2>2. n \in Nat
    BY <2>1, FS_CardinalityType
  <2> QED BY <2>1, <2>2 DEF LineupHolds, LineupRow
<1>2. key \in [S -> Int] /\ \A r \in S : key[r] = r.order
  BY <1>1
<1> HIDE DEF S, key
<1>3. ListsByKey(rows, S, key)
  BY <1>1, <1>2, KeysGoUp
<1>4. GetCompetitorsInEvent(e) = [i \in DOMAIN rows |-> rows[i].competitor]
  <2>1. n \in Nat /\ list \in [1..n -> S] /\ Len(list) = n
    BY <1>1, ListOfSet
  <2>2. \A i \in 1..n : key[list[i]] = list[i].order
    BY <1>2, <2>1
  <2> HIDE DEF list, n
  <2>3. KeyOrder(list, key)
        = {p \in (1..Len(list)) \X (1..Len(list)) :
              \/ list[p[1]].order < list[p[2]].order
              \/ ~(list[p[2]].order < list[p[1]].order) /\ p[1] < p[2]}
    BY <2>1, <2>2 DEF KeyOrder
  <2>4. rows = Sorted(list, LAMBDA r, s : r.order < s.order)
    BY <2>3 DEF Sorted, ByKey, list
  <2> HIDE DEF rows
  <2> QED BY <2>4 DEF GetCompetitorsInEvent, list, S
<1> HIDE DEF rows
<1>5. /\ rows \in [1..n -> S]
      /\ \A k, l \in 1..n : rows[k] = rows[l] => k = l
      /\ \A x \in S : \E k \in 1..n : rows[k] = x
      /\ \A k, l \in 1..n : k < l => key[rows[k]] <= key[rows[l]]
  BY <1>3 DEF ListsByKey
<1>6. \A k, l \in 1..n : k < l => rows[k].order <= rows[l].order
  BY <1>2, <1>5
<1>7. GetCompetitorsInEvent(e) = [i \in 1..n |-> rows[i].competitor]
  BY <1>4, <1>5
<1> QED BY <1>1, <1>5, <1>6, <1>7 DEF S

\* In an event whose rows are numbered without gaps, each at its number.
LEMMA ListedAtTheirNumbers ==
    ASSUME LineupHolds, NEW e, Numbered(e)
    PROVE  LET n == Len(GetCompetitorsInEvent(e))
           IN  /\ n \in Nat /\ n > 0
               /\ \A r \in RowsIn(e) : r.order \in 1..n
                                       /\ GetCompetitorsInEvent(e)[r.order] = r.competitor
               /\ \A k \in 1..n : \E r \in RowsIn(e) : r.order = k
               /\ \A r, s \in RowsIn(e) : r.order = s.order => r = s
<1> DEFINE S == RowsIn(e)
           n == Cardinality(S)
           num(r) == r.order
           key == [r \in S |-> num(r)]
<1>1. IsFiniteSet(S) /\ n \in Nat /\ \A r \in S : r.order \in Nat
  BY RowsSorted DEF RowsIn, LineupHolds, LineupRow
<1>2. \A k : k \in 1..n <=> \E r \in S : r.order = k
  BY DEF Numbered, Orders
<1>3. S # {}
  BY DEF Numbered
<1>4. PICK rows \in [1..n -> S] :
          /\ GetCompetitorsInEvent(e) = [i \in 1..n |-> rows[i].competitor]
          /\ \A k, l \in 1..n : rows[k] = rows[l] => k = l
          /\ \A r \in S : \E k \in 1..n : rows[k] = r
          /\ \A k, l \in 1..n : k < l => rows[k].order <= rows[l].order
  BY RowsSorted
<1>5. \A r, s \in S : r.order = s.order => r = s
  <2>1. key \in Surjection(S, 1..n)
    BY <1>1, <1>2 DEF Surjection
  <2>2. IsFiniteSet(1..n) /\ Cardinality(1..n) = n
    BY <1>1, IntervalSize
  <2> HIDE DEF S, n
  <2>3. key \in Injection(S, 1..n)
    <3> HIDE DEF key
    <3> QED BY <1>1, <2>1, <2>2, FS_Surjection DEF n
  <2> QED BY <2>3 DEF Injection, IsInjective
<1> DEFINE f == [k \in 1..n |-> rows[k].order]
<1> HIDE DEF n, S
<1>6. \A k \in 1..n : f[k] = k
  <2>1. f \in [1..n -> 1..n]
    BY <1>2, <1>4
  <2>2. ASSUME NEW k \in 1..n, NEW l \in 1..n, k < l PROVE f[k] < f[l]
    <3>1. f[k] <= f[l]
      BY <1>4, <2>2
    <3>2. rows[k] \in S /\ rows[l] \in S /\ rows[k] # rows[l]
      BY <1>1, <1>4, <2>2
    <3>3. f[k] # f[l]
      BY <1>5, <3>2
    <3> QED BY <1>1, <2>1, <3>1, <3>3
  <2>3. \A m \in 1..n : \E k \in 1..n : f[k] = m
    <3> TAKE m \in 1..n
    <3>1. PICK r \in S : r.order = m
      BY <1>2
    <3>2. PICK k \in 1..n : rows[k] = r
      BY <1>4
    <3> QED BY <3>1, <3>2
  <2> HIDE DEF f
  <2> QED BY <1>1, <2>1, <2>2, <2>3, UpwardsIsCounting
<1>7. ASSUME NEW r \in S
      PROVE  r.order \in 1..n /\ GetCompetitorsInEvent(e)[r.order] = r.competitor
  <2>1. PICK k \in 1..n : rows[k] = r
    BY <1>4
  <2>2. r.order = k
    BY <1>6, <2>1
  <2> QED BY <1>4, <2>1, <2>2
<1>8. n > 0
  BY <1>1, <1>3, <1>7
<1>9. Len(GetCompetitorsInEvent(e)) = n
  BY <1>1, <1>4
<1> QED BY <1>1, <1>2, <1>5, <1>7, <1>8, <1>9 DEF S

\* One step along the running order: the display's next place is that of the
\* next row, and has its competitor.
LEMMA FollowsTheRows ==
    ASSUME LineupHolds, WellNumbered, NEW r \in routines, r.event \in inRing
    PROVE  LET next == NextRow(r)
               there == Follow(Place(r.event, r.order))
           IN  \/ next = None /\ there = None
               \/ /\ next \in routines /\ next.event \in inRing
                  /\ there = Place(next.event, next.order)
                  /\ At(there) = next.competitor
<1> DEFINE e == r.event
           n(d) == Len(GetCompetitorsInEvent(d))
           rest == {s \in routines : s.event \in inRing /\ Follows(r, s)}
           next == NextRow(r)
           there == Follow(Place(e, r.order))
           later == GetNthEventInRing(EventOrder[e] + 1)
<1>1. /\ \A s \in routines : s.event \in Events /\ s.competitor \in Competitors /\ s.order \in Nat
      /\ inRing \subseteq Events /\ \A d \in Events : EventOrder[d] \in Nat
      /\ r # None
  BY EventsAssumption, NoneAssumption DEF LineupHolds, LineupRow
<1>2. ASSUME NEW d \in inRing
      PROVE  /\ n(d) \in Nat /\ n(d) > 0
             /\ \A s \in RowsIn(d) : s.order \in 1..n(d)
                                     /\ GetCompetitorsInEvent(d)[s.order] = s.competitor
             /\ \A k \in 1..n(d) : \E s \in RowsIn(d) : s.order = k
             /\ \A s, t \in RowsIn(d) : s.order = t.order => s = t
  BY ListedAtTheirNumbers DEF WellNumbered
<1>3. \A d, f \in inRing : EventOrder[d] = EventOrder[f] => d = f
  BY DEF WellNumbered
<1> HIDE DEF n
<1>4. ASSUME NEW s \in rest, \A t \in rest : t = s \/ Follows(s, t)
      PROVE  next = s
  <2>1. \A t \in rest : (\A u \in rest : u = t \/ Follows(t, u)) => t = s
    <3> SUFFICES ASSUME NEW t \in rest, \A u \in rest : u = t \/ Follows(t, u), t # s
                 PROVE FALSE
      OBVIOUS
    <3>1. Follows(s, t) /\ Follows(t, s)
      BY <1>4
    <3>2. /\ s.order \in Nat /\ t.order \in Nat
          /\ EventOrder[s.event] \in Nat /\ EventOrder[t.event] \in Nat
      BY <1>1
    <3> QED BY <3>1, <3>2 DEF Follows
  <2>2. next = CHOOSE t \in rest : \A u \in rest : u = t \/ Follows(t, u)
    BY <1>1 DEF NextRow
  <2> HIDE DEF rest, next
  <2> QED BY <1>4, <2>1, <2>2
<1>5. r \in RowsIn(e) /\ r.order \in 1..n(e)
  BY <1>2 DEF RowsIn
<1>6. ASSUME NEW s \in routines, s.event \in inRing
      PROVE  At(Place(s.event, s.order)) = s.competitor
  <2>1. s \in RowsIn(s.event)
    BY DEF RowsIn
  <2>2. s.order \in 1..n(s.event) /\ GetCompetitorsInEvent(s.event)[s.order] = s.competitor
    BY <1>2, <1>6, <2>1
  <2>3. /\ Place(s.event, s.order).event = s.event /\ Place(s.event, s.order).index = s.order
        /\ Place(s.event, s.order) # None
    BY <1>1, NoneAssumption DEF Place
  <2>4. ~(s.order > n(s.event))
    BY <1>2, <1>6, <2>2
  <2> QED BY <2>2, <2>3, <2>4 DEF At, n
<1>7. CASE r.order < n(e)
  <2>1. PICK s \in RowsIn(e) : s.order = r.order + 1
    <3>1. r.order + 1 \in 1..n(e)
      BY <1>2, <1>5, <1>7
    <3> QED BY <1>2, <3>1
  <2>2. s \in rest /\ s.event = e
    BY <1>1, <2>1 DEF RowsIn, Follows
  <2>3. ASSUME NEW t \in rest PROVE t = s \/ Follows(s, t)
    <3>1. CASE EventOrder[e] < EventOrder[t.event]
      BY <2>2, <3>1 DEF Follows
    <3>2. CASE t.event = e /\ r.order < t.order
      <4>1. t \in RowsIn(e) /\ s.order <= t.order
        BY <1>1, <2>1, <3>2 DEF RowsIn
      <4>2. CASE s.order = t.order
        BY <1>2, <2>1, <4>1, <4>2
      <4>3. CASE s.order < t.order
        BY <2>2, <3>2, <4>3 DEF Follows
      <4> QED BY <1>1, <2>1, <4>1, <4>2, <4>3
    <3> QED BY <3>1, <3>2 DEF Follows
  <2>4. next = s
    BY <1>4, <2>2, <2>3
  <2>5. there = Place(e, r.order + 1)
    BY <1>7 DEF Follow, Place, n
  <2>6. s \in routines /\ s.event \in inRing
    BY <2>2
  <2> QED BY <1>6, <2>1, <2>2, <2>4, <2>5, <2>6
<1>8. CASE ~(r.order < n(e))
  <2>1. r.order = n(e)
    BY <1>2, <1>5, <1>8
  <2>2. there = IF later = None THEN None ELSE Place(later, 1)
    BY <1>8 DEF Follow, Place, n
  <2>3. ASSUME NEW t \in rest PROVE EventOrder[e] < EventOrder[t.event]
    <3>1. CASE t.event = e
      <4>1. t \in RowsIn(e) /\ r.order < t.order
        BY <1>1, <3>1 DEF RowsIn, Follows
      <4>2. t.order \in 1..n(e)
        BY <1>2, <4>1
      <4> QED BY <1>2, <2>1, <4>1, <4>2
    <3> QED BY <3>1 DEF Follows
  <2>4. CASE later = None
    <3>1. \A d \in inRing : EventOrder[d] # EventOrder[e] + 1
      <4> DEFINE E == {d \in inRing : EventOrder[d] = EventOrder[e] + 1}
      <4>1. later = IF E = {} THEN None ELSE CHOOSE d \in E : TRUE
        BY DEF GetNthEventInRing
      <4>2. \A d \in E : d # None
        BY <1>1, NoneAssumption
      <4> HIDE DEF E, later
      <4>3. E = {}
        BY <2>4, <4>1, <4>2
      <4> QED BY <4>3 DEF E
    <3>2. rest = {}
      <4> SUFFICES ASSUME NEW t \in rest PROVE FALSE
        OBVIOUS
      <4>1. t.event \in inRing /\ EventOrder[e] < EventOrder[t.event]
        BY <2>3
      <4>2. EventOrder[e] + 1 \in EventOrder[e]..EventOrder[t.event]
        BY <1>1, <4>1
      <4> QED BY <3>1, <4>1, <4>2 DEF WellNumbered
    <3>3. next = None
      BY <3>2 DEF NextRow
    <3> QED BY <2>2, <2>4, <3>3
  <2>5. CASE later # None
    <3>1. later \in inRing /\ EventOrder[later] = EventOrder[e] + 1
      <4> DEFINE E == {d \in inRing : EventOrder[d] = EventOrder[e] + 1}
      <4>1. later = IF E = {} THEN None ELSE CHOOSE d \in E : TRUE
        BY DEF GetNthEventInRing
      <4> HIDE DEF E, later
      <4>2. later \in E
        BY <2>5, <4>1
      <4> QED BY <4>2 DEF E
    <3> HIDE DEF later
    <3>2. PICK s \in RowsIn(later) : s.order = 1
      <4>1. 1 \in 1..n(later)
        BY <1>2, <3>1
      <4> QED BY <1>2, <3>1, <4>1
    <3>3. s \in routines /\ s.event = later /\ s \in rest
      BY <1>1, <3>1, <3>2 DEF RowsIn, Follows
    <3>4. ASSUME NEW t \in rest PROVE t = s \/ Follows(s, t)
      <4>1. EventOrder[e] < EventOrder[t.event] /\ t.event \in inRing /\ t \in routines
        BY <2>3
      <4>2. CASE t.event = later
        <5>1. t \in RowsIn(later)
          BY <4>1, <4>2 DEF RowsIn
        <5>2. t.order \in Nat /\ t.order >= 1
          BY <1>2, <3>1, <5>1
        <5>3. CASE t.order = 1
          BY <1>2, <3>1, <3>2, <5>1, <5>3
        <5>4. CASE t.order > 1
          BY <3>2, <3>3, <4>2, <5>4 DEF Follows
        <5> QED BY <5>2, <5>3, <5>4
      <4>3. CASE t.event # later
        <5>1. EventOrder[t.event] # EventOrder[later]
          BY <1>3, <3>1, <4>1, <4>3
        <5>2. EventOrder[later] < EventOrder[t.event]
          BY <1>1, <3>1, <4>1, <5>1
        <5> QED BY <3>3, <5>2 DEF Follows
      <4> QED BY <4>2, <4>3
    <3>5. next = s
      BY <1>4, <3>3, <3>4
    <3>6. there = Place(s.event, s.order)
      BY <2>2, <2>5, <3>2, <3>3
    <3> QED BY <1>6, <3>1, <3>3, <3>5, <3>6
  <2> QED BY <2>4, <2>5
<1> QED BY <1>7, <1>8

\* Whatever the administrator did before: where the numbers have no gaps, the
\* two whom the display announces are the next two of the running order.
THEOREM NextTwoAreAnnounced == Spec => []DisplayFollowsRunningOrder
<1>1. ASSUME LineupHolds, WellNumbered, event \in inRing, routine # None, routine \in RowsIn(event)
      PROVE  findNextTwoCompetitors = <<Who(NextRow(routine)), Who(NextRow(NextRow(routine)))>>
  <2> DEFINE first == NextRow(routine)
             there == Follow(Place(event, routine.order))
             second == NextRow(first)
             after == Follow(there)
  <2>1. routine \in routines /\ routine.event = event
    BY <1>1 DEF RowsIn
  <2>2. \/ first = None /\ there = None
        \/ /\ first \in routines /\ first.event \in inRing
           /\ there = Place(first.event, first.order) /\ At(there) = first.competitor
    BY <1>1, <2>1, FollowsTheRows
  <2>3. findNextTwoCompetitors
        = <<At(there), At(IF At(there) \in {None, "panic"} THEN None ELSE after)>>
    BY DEF findNextTwoCompetitors
  <2>4. At(None) = None /\ NextRow(None) = None /\ Who(None) = None
    BY DEF At, NextRow, Who
  <2>5. CASE first = None /\ there = None
    BY <2>3, <2>4, <2>5
  <2>6. CASE /\ first \in routines /\ first.event \in inRing
             /\ there = Place(first.event, first.order) /\ At(there) = first.competitor
    <3>1. \/ second = None /\ after = None
          \/ second \in routines /\ At(after) = second.competitor
      BY <1>1, <2>6, FollowsTheRows
    <3>2. /\ first # None /\ first.competitor \notin {None, "panic"}
          /\ second \in routines => second # None
      BY <1>1, <2>6, NoneAssumption DEF LineupHolds, LineupRow
    <3> HIDE DEF first, there, second, after
    <3>3. findNextTwoCompetitors = <<first.competitor, At(after)>>
      BY <2>3, <2>6, <3>2
    <3>4. At(after) = Who(second)
      BY <2>4, <3>1, <3>2 DEF Who
    <3> QED BY <3>2, <3>3, <3>4 DEF Who, first, second
  <2> QED BY <2>2, <2>5, <2>6
<1>2. LineupHolds => DisplayFollowsRunningOrder
  BY <1>1 DEF DisplayFollowsRunningOrder
<1> QED BY <1>2, LineupInvariant, PTL

-----------------------------------------------------------------------------
(* The head judge's page, as long as the next button alone selects and every *)
(* event has its first competitor: the page, the ring and the two lists move *)
(* on together, and what is behind them has been called or came too late.    *)

ByTheButton == ~byHand /\ ~upset /\ ~hurried

\* What the page waits for, when one command at a time is on its way.
Stage ==
    IF page.at # "open" THEN page.at
    ELSE IF sent = {} THEN "idle"
    ELSE IF \E m \in sent : m.kind = "event" THEN "event"
    ELSE IF \E m \in sent : m.kind = "list" THEN "list"
    ELSE "competitor"

PageState ==
    [at : {"closed", "open", "finished"},
     events : Seq(Events), list : Seq(Competitors), e : Nat, c : Nat,
     resume : Competitors \cup {None}]

PageHolds ==
    /\ page \in PageState
    /\ page.at = "closed" => page = Closed /\ event = None /\ called = {}
    /\ page.e <= Len(page.events) /\ page.c <= Len(page.list)
    /\ Stage \in {"event", "competitor"} => page.e > 0
    /\ Stage = "competitor" => page.c > 0
    /\ page.at = "finished" => page.e = Len(page.events)
    /\ \A i, j \in DOMAIN page.events :
           i < j => EventOrder[page.events[i]] < EventOrder[page.events[j]]

\* The command on its way is that of the selection.
SentHolds ==
    /\ page.at # "open" => sent = {}
    /\ Stage = "event" => sent = {SendEvent(page)}
    /\ Stage = "list" => sent = {AskForList}
    /\ Stage = "competitor" => sent = {SendCompetitor(page)}

\* The ring has a routine of the event that the page has selected.
SeatHolds ==
    /\ event = None \/ /\ event \in Events \cap called
                       /\ routine \in RowsIn(event) /\ routine.competitor = competitor
    /\ event = None => Stage \in {"closed", "event"} /\ competitor = None
    /\ page.e > 0 /\ Stage \in {"list", "competitor", "idle", "finished"} =>
           page.events[page.e] = event
    /\ Stage = "list" => \/ page.resume = competitor
                         \/ page.resume = None /\ page.e > 0

\* Nobody of this ring remains in an event that was called before this one, and
\* the events that were not called come after it, on the page as in the ring.
EventsHold ==
    /\ \A r \in routines : r.event \in called \cap inRing /\ r.event # event =>
           r \in late \/ HasBeenCalled(r)
    /\ \A u \in inRing \ called :
           /\ event # None => EventOrder[event] < EventOrder[u]
           /\ page.at # "closed" =>
                 \E i \in DOMAIN page.events :
                     page.events[i] = u /\ (page.e < i \/ (Stage = "event" /\ page.e = i))

\* The page's list has competitors of this event.
ListHolds ==
    Stage \in {"competitor", "idle"} =>
        \A i \in DOMAIN page.list : \E r \in RowsIn(event) : r.competitor = page.list[i]

\* Who remains in this event comes after the one who is seated, in the event as
\* on the page: where the page has an entry of the competitor to come, those
\* above it are competitors with a row before this one.
Remains(r) == r \in RowsIn(event) /\ event \in inRing /\ r \notin late /\ ~HasBeenCalled(r)

Before(c, r) == \E s \in RowsIn(event) : s.competitor = c /\ s.order < r.order

ToCome(r) ==
    \E i \in DOMAIN page.list :
        /\ page.list[i] = r.competitor
        /\ page.c < i \/ (Stage = "competitor" /\ page.c = i)
        /\ \A j \in DOMAIN page.list : j < i => Before(page.list[j], r)

RestHolds ==
    \A r \in routines : Remains(r) =>
        /\ Stage \notin {"closed", "event", "finished"} /\ page.e > 0
        /\ Stage = "idle" \/ (Stage = "list" /\ page.resume # None) => Before(competitor, r)
        /\ Stage \in {"idle", "competitor"} => ToCome(r)

Calling == PageHolds /\ SentHolds /\ SeatHolds /\ EventsHold /\ ListHolds /\ RestHolds

\* Events of a ring differ in their numbers, wherever they are moved.
EventsAreApart == \A d, e \in Events : EventOrder[d] = EventOrder[e] => d = e

\* What the steps of the page start from.
Lists ==
    LineupHolds /\ NumbersAreDistinct /\ EventsAreApart

\* IndexIn finds the first entry of what is in a list.
LEMMA IndexFound ==
    ASSUME NEW T, NEW list \in Seq(T), NEW x
    PROVE  \/ /\ IndexIn(list, x) \in DOMAIN list /\ list[IndexIn(list, x)] = x
              /\ \A i \in DOMAIN list : list[i] = x => IndexIn(list, x) <= i
           \/ IndexIn(list, x) = 0 /\ \A i \in DOMAIN list : list[i] # x
<1> DEFINE S == {i \in DOMAIN list : list[i] = x}
<1>1. CASE \E i \in DOMAIN list : list[i] = x
  <2>1. x \in Range(list) /\ S # {} /\ S \subseteq Nat
    BY <1>1 DEF Range
  <2>2. PICK i \in S : \A j \in S : <<j, i>> \notin OpToRel(<, Nat)
    BY <2>1, WFMin, NatLessThanWellFounded
  <2>3. \A j \in S : ~(j < i) /\ i \in Nat /\ j \in Nat
    BY <2>1, <2>2 DEF OpToRel
  <2>4. IndexIn(list, x) = FirstIn(S)
    BY <2>1 DEF IndexIn
  <2> HIDE DEF S
  <2>5. \A j \in S : i <= j
    BY <2>3
  <2>6. FirstIn(S) \in S /\ \A j \in S : FirstIn(S) <= j
    BY <2>5 DEF FirstIn
  <2> QED BY <2>4, <2>6 DEF S
<1>2. CASE \A i \in DOMAIN list : list[i] # x
  <2>1. x \notin Range(list)
    BY <1>2 DEF Range
  <2> QED BY <1>2, <2>1 DEF IndexIn
<1> QED BY <1>1, <1>2

\* The events of the ring, by their numbers.
LEMMA EventsSorted ==
    ASSUME Lists
    PROVE  LET L == GetEventsInRing
           IN  /\ L \in Seq(Events)
               /\ \A u \in inRing : \E i \in DOMAIN L : L[i] = u
               /\ \A i, j \in DOMAIN L : i < j => EventOrder[L[i]] < EventOrder[L[j]]
<1> DEFINE n == Cardinality(inRing)
           key == [e \in inRing |-> EventOrder[e]]
           list == SetToSeq(inRing)
           L == ByKey(inRing, key)
<1>1. /\ IsFiniteSet(inRing) /\ n \in Nat /\ inRing \subseteq Events
      /\ \A e \in Events : EventOrder[e] \in Nat
  BY EventsAssumption, FS_CardinalityType DEF Lists, LineupHolds
<1>2. key \in [inRing -> Int] /\ \A e \in inRing : key[e] = EventOrder[e]
  BY <1>1
<1> HIDE DEF key
<1>3. ListsByKey(L, inRing, key)
  BY <1>1, <1>2, KeysGoUp
<1>4. GetEventsInRing = L
  <2>1. n \in Nat /\ list \in [1..n -> inRing] /\ Len(list) = n
    BY <1>1, ListOfSet
  <2>2. \A i \in 1..n : key[list[i]] = EventOrder[list[i]]
    BY <1>2, <2>1
  <2> HIDE DEF list, n
  <2>3. KeyOrder(list, key)
        = {p \in (1..Len(list)) \X (1..Len(list)) :
              \/ EventOrder[list[p[1]]] < EventOrder[list[p[2]]]
              \/ ~(EventOrder[list[p[2]]] < EventOrder[list[p[1]]]) /\ p[1] < p[2]}
    BY <2>1, <2>2 DEF KeyOrder
  <2> QED BY <2>3 DEF GetEventsInRing, Sorted, ByKey, list
<1> HIDE DEF L
<1>5. /\ L \in [1..n -> inRing]
      /\ \A k, l \in 1..n : L[k] = L[l] => k = l
      /\ \A x \in inRing : \E k \in 1..n : L[k] = x
      /\ \A k, l \in 1..n : k < l => key[L[k]] <= key[L[l]]
  BY <1>3 DEF ListsByKey
<1>6. L \in Seq(Events) /\ DOMAIN L = 1..n
  BY <1>1, <1>5
<1>7. ASSUME NEW i \in 1..n, NEW j \in 1..n, i < j PROVE EventOrder[L[i]] < EventOrder[L[j]]
  <2>1. L[i] \in inRing /\ L[j] \in inRing /\ L[i] # L[j]
    BY <1>1, <1>5, <1>7
  <2>2. EventOrder[L[i]] <= EventOrder[L[j]] /\ EventOrder[L[i]] # EventOrder[L[j]]
    BY <1>1, <1>2, <1>5, <1>7, <2>1 DEF Lists, EventsAreApart
  <2> QED BY <1>1, <2>1, <2>2
<1> QED BY <1>4, <1>5, <1>6, <1>7

\* While one command at a time is on its way it is the one that the page waits
\* for.
LEMMA OnlyOne ==
    ASSUME Calling, NEW m \in sent
    PROVE  /\ page.at = "open" /\ sent = {m}
           /\ \/ Stage = "event" /\ m = SendEvent(page)
              \/ Stage = "list" /\ m = AskForList
              \/ Stage = "competitor" /\ m = SendCompetitor(page)
<1>1. page.at = "open" /\ Stage \in {"event", "list", "competitor"}
  BY DEF Calling, SentHolds, Stage
<1> QED BY <1>1 DEF Calling, SentHolds

\* A page that is opened goes on behind the competitor who is in the ring.
LEMMA OpenCalls ==
    ASSUME Lists, Calling, ByTheButton', Open PROVE Calling'
<1> DEFINE L == GetEventsInRing
           e == IF event = None THEN 1 ELSE IndexIn(L, event)
<1>1. /\ L \in Seq(Events) /\ L # <<>>
      /\ \A u \in inRing : \E i \in DOMAIN L : L[i] = u
      /\ \A i, j \in DOMAIN L : i < j => EventOrder[L[i]] < EventOrder[L[j]]
  BY EventsSorted DEF Open
<1>2. /\ page' = [at |-> "open", events |-> L, list |-> <<>>,
                  e |-> e, c |-> 0, resume |-> competitor]
      /\ sent = {} /\ sent' = {IF event = None THEN SendEvent(page') ELSE AskForList}
      /\ UNCHANGED <<routines, inRing, ring, adding, seated, called, late>>
  BY DEF Open, Closed, Left, ByTheButton
<1>3. Stage' = IF event = None THEN "event" ELSE "list"
  <2>1. SendEvent(page').kind = "event" /\ AskForList.kind = "list" /\ page'.at = "open"
    BY <1>2 DEF SendEvent, AskForList, Command
  <2> QED BY <1>2, <2>1 DEF Stage
<1> HIDE DEF L
<1>4. \/ event = None /\ e = 1 /\ 1 \in DOMAIN L
      \/ event # None /\ e \in DOMAIN L /\ L[e] = event
      \/ event # None /\ e = 0 /\ event \notin inRing
  <2>1. 1 \in DOMAIN L
    BY <1>1
  <2> QED BY <1>1, <2>1, IndexFound
<1> HIDE DEF e
<1>5. competitor \in Competitors \cup {None} /\ (event # None => competitor # None)
  <2>1. \A r \in RowsIn(event) : r.competitor \in Competitors
    BY DEF RowsIn, Lists, LineupHolds, LineupRow
  <2> QED BY <2>1, NoneAssumption DEF Calling, SeatHolds
<1>6. PageHolds'
  <2>1. page' \in PageState
    BY <1>1, <1>2, <1>4, <1>5 DEF PageState
  <2>2. page'.e <= Len(page'.events) /\ page'.c <= Len(page'.list)
    BY <1>1, <1>2, <1>4
  <2> QED BY <1>1, <1>2, <1>3, <1>4, <2>1, <2>2 DEF PageHolds
<1>7. SentHolds'
  BY <1>2, <1>3 DEF SentHolds
<1>8. SeatHolds'
  BY <1>2, <1>3, <1>4 DEF SeatHolds, Calling, RowsIn, ring
<1>9. EventsHold'
  <2>1. ASSUME NEW u \in inRing \ called
        PROVE  \E i \in DOMAIN L : L[i] = u /\ (e < i \/ (event = None /\ e = i))
    <3>1. PICK i \in DOMAIN L : L[i] = u
      BY <1>1
    <3>2. i \in Nat /\ i >= 1 /\ EventOrder[u] \in Nat
      BY <1>1, EventsAssumption DEF Lists, LineupHolds
    <3>3. CASE event = None
      BY <1>4, <3>1, <3>2, <3>3
    <3>4. CASE event # None /\ e = 0
      BY <3>1, <3>2, <3>4
    <3>5. CASE event # None /\ e \in DOMAIN L /\ L[e] = event
      <4>1. EventOrder[L[e]] < EventOrder[L[i]] /\ EventOrder[L[e]] \in Nat /\ EventOrder[L[i]] \in Nat
        BY <1>1, <3>1, <3>5, EventsAssumption DEF Calling, EventsHold
      <4>2. ~(i < e) /\ i # e
        BY <1>1, <3>5, <4>1
      <4> QED BY <1>1, <3>1, <3>5, <4>2
    <3> QED BY <1>4, <3>3, <3>4, <3>5
  <2> QED BY <1>2, <1>3, <2>1 DEF EventsHold, HasBeenCalled, Calling, ring
<1>10. ListHolds'
  BY <1>3 DEF ListHolds
<1>11. RestHolds'
  <2>1. /\ event' = event /\ competitor' = competitor /\ RowsIn(event)' = RowsIn(event)
        /\ routines' = routines /\ \A r : Remains(r)' <=> Remains(r)
    BY <1>2 DEF Remains, HasBeenCalled, RowsIn, ring
  <2>2. ASSUME NEW r \in routines, Remains(r)
        PROVE  event # None /\ e > 0 /\ Before(competitor, r)
    <3>1. event # None /\ event \in inRing
      BY <2>2, NoneAssumption DEF Remains, RowsIn, Lists, LineupHolds, LineupRow
    <3>2. e > 0
      BY <1>1, <1>4, <3>1
    <3>3. Stage = "idle"
      BY <1>2, <2>2 DEF Calling, RestHolds, PageHolds, PageState, Stage
    <3> QED BY <2>2, <3>1, <3>2, <3>3 DEF Calling, RestHolds
  <2> QED BY <1>2, <1>3, <2>1, <2>2 DEF RestHolds, Before
<1> QED BY <1>6, <1>7, <1>8, <1>9, <1>10, <1>11 DEF Calling

\* An event is left when nobody remains in it, and the next one in the list is
\* the first of those that were not called.
LEMMA EventCalls ==
    ASSUME Lists, Calling, ByTheButton', NEW m \in sent, PostEvent(m) PROVE Calling'
<1> DEFINE e == page.events[page.e]
           first == GetNthCompetitorInEvent(1, e)
<1>1. /\ page.at = "open" /\ sent = {m} /\ Stage = "event" /\ m = Command("event", e, None)
      /\ page \in PageState /\ page.e \in DOMAIN page.events /\ e \in Events
  <2>1. m.kind \in {"event", "lone"}
    BY DEF PostEvent
  <2>2. page.at = "open" /\ sent = {m} /\ Stage = "event" /\ m = SendEvent(page)
    BY <2>1, OnlyOne DEF AskForList, SendCompetitor, Command
  <2>3. page \in PageState /\ page.e \in DOMAIN page.events
    BY <2>2 DEF Calling, PageHolds, PageState
  <2> QED BY <2>2, <2>3 DEF SendEvent, PageState
<1>2. m.kind = "event" /\ m.event = e
  BY <1>1 DEF Command
<1>3. first # None
  BY <1>2 DEF PostEvent, changeEvent, ByTheButton
<1>4. PICK found \in RowsIn(e) :
          /\ event' = e /\ competitor' = first /\ found.competitor = first
          /\ routine' = found /\ seated' = seated \cup {found} /\ called' = called \cup {e}
  <2>1. GetRoutine(e, first) # {}
    <3> DEFINE N == {r \in RowsIn(e) : r.order = 1}
               r1 == CHOOSE r \in N : TRUE
    <3>1. N # {} /\ first = r1.competitor
      BY <1>3 DEF GetNthCompetitorInEvent
    <3>2. r1 \in N
      BY <3>1
    <3> HIDE DEF r1, first
    <3> QED BY <3>1, <3>2 DEF GetRoutine
  <2>2. changeEvent(e) /\ SetCompetitor(e, first)
    BY <1>2, <1>3 DEF PostEvent, changeEvent
  <2> HIDE DEF e, first
  <2> QED BY <2>1, <2>2 DEF changeEvent, SetCompetitor, GetRoutine
<1>5. /\ page' = [page EXCEPT !.resume = None] /\ sent' = {AskForList}
      /\ UNCHANGED <<routines, inRing, adding, late>>
  BY <1>1, <1>2, <1>3 DEF PostEvent
<1>6. /\ page'.at = "open" /\ page'.e = page.e /\ page'.events = page.events /\ page'.c = page.c
      /\ page'.list = page.list /\ page'.resume = None /\ page' \in PageState
  BY <1>1, <1>5 DEF PageState
<1>7. Stage' = "list"
  <2>1. AskForList.kind = "list"
    BY DEF AskForList, Command
  <2> QED BY <1>5, <1>6, <2>1 DEF Stage
<1> HIDE DEF first
<1>8. PageHolds' /\ SentHolds'
  BY <1>1, <1>4, <1>5, <1>6, <1>7 DEF PageHolds, SentHolds, Calling
<1>9. SeatHolds'
  <2>1. found \in RowsIn(e)'
    BY <1>4, <1>5 DEF RowsIn
  <2>2. page'.e > 0
    BY <1>1, <1>6 DEF PageState
  <2>3. e # None
    BY <1>1, NoneAssumption
  <2> QED BY <1>1, <1>4, <1>6, <1>7, <2>1, <2>2, <2>3 DEF SeatHolds, RowsIn
<1>10. EventsHold'
  <2>1. ASSUME NEW r \in routines, r.event \in called \cap inRing, r.event # e
        PROVE  r \in late \/ HasBeenCalled(r)
    <3>1. CASE r.event = event
      BY <1>1, <2>1, <3>1 DEF Calling, RestHolds, Remains, RowsIn
    <3>2. CASE r.event # event
      BY <2>1, <3>2 DEF Calling, EventsHold
    <3> QED BY <3>1, <3>2
  <2>2. ASSUME NEW u \in inRing \ called, u # e
        PROVE  /\ EventOrder[e] < EventOrder[u]
               /\ \E i \in DOMAIN page.events : page.events[i] = u /\ page.e < i
    <3>1. PICK i \in DOMAIN page.events :
              page.events[i] = u /\ (page.e < i \/ page.e = i)
      BY <1>1 DEF Calling, EventsHold
    <3>2. i # page.e
      BY <2>2, <3>1
    <3>3. EventOrder[page.events[page.e]] < EventOrder[page.events[i]]
      BY <1>1, <3>1, <3>2 DEF Calling, PageHolds
    <3> QED BY <3>1, <3>2, <3>3
  <2>3. \A r : HasBeenCalled(r) => HasBeenCalled(r)'
    BY <1>4 DEF HasBeenCalled
  <2> HIDE DEF e
  <2> QED BY <1>4, <1>5, <1>6, <2>1, <2>2, <2>3 DEF EventsHold
<1>11. ListHolds' /\ RestHolds'
  <2>1. page'.e > 0
    BY <1>1, <1>6 DEF PageState
  <2> QED BY <1>6, <1>7, <2>1 DEF ListHolds, RestHolds
<1> QED BY <1>8, <1>9, <1>10, <1>11 DEF Calling

\* The list has everybody of the event, and those who were called come first.
LEMMA ListCalls ==
    ASSUME Lists, Calling, NEW m \in sent, setCompetitorList(m) PROVE Calling'
<1> DEFINE list == GetCompetitorsInEvent(event)
           c == IF page.resume # None THEN IndexIn(list, page.resume)
                ELSE IF list = <<>> THEN 0 ELSE 1
           n == Cardinality(RowsIn(event))
<1>1. /\ page \in PageState /\ page.at = "open" /\ sent = {m} /\ Stage = "list"
      /\ event \in Events /\ event \in called
      /\ page.e \in 0..Len(page.events) /\ (page.e > 0 => page.events[page.e] = event)
      /\ page.resume = None => page.e > 0
      /\ routine \in RowsIn(event) /\ routine.competitor = competitor
      /\ competitor \in Competitors /\ page.resume \in {None, competitor}
  <2>1. m.kind = "list"
    BY DEF setCompetitorList
  <2>2. page \in PageState /\ page.at = "open" /\ sent = {m} /\ Stage = "list"
    BY <2>1, OnlyOne DEF SendEvent, SendCompetitor, Command, Calling, PageHolds
  <2>3. /\ event \in Events /\ event \in called /\ (page.e > 0 => page.events[page.e] = event)
        /\ page.resume = competitor \/ (page.resume = None /\ page.e > 0)
        /\ routine \in RowsIn(event) /\ routine.competitor = competitor
    BY <2>2 DEF Calling, SeatHolds
  <2>4. page.e \in 0..Len(page.events)
    BY <2>2 DEF Calling, PageHolds, PageState
  <2>5. competitor \in Competitors
    BY <2>3 DEF RowsIn, Lists, LineupHolds, LineupRow
  <2> QED BY <2>2, <2>3, <2>4, <2>5, NoneAssumption
<1>2. /\ page' = [page EXCEPT !.list = list, !.c = c]
      /\ sent' = IF page.e = 0 THEN {} ELSE {SendCompetitor(page')}
      /\ UNCHANGED <<routines, inRing, ring, adding, history>>
  BY <1>1 DEF setCompetitorList
<1>3. n \in Nat
  BY RowsSorted DEF Lists
<1>4. PICK rows \in [1..n -> RowsIn(event)] :
          /\ list = [i \in 1..n |-> rows[i].competitor]
          /\ \A k, l \in 1..n : rows[k] = rows[l] => k = l
          /\ \A r \in RowsIn(event) : \E k \in 1..n : rows[k] = r
          /\ \A k, l \in 1..n : k < l => rows[k].order <= rows[l].order
  BY RowsSorted DEF Lists
<1> HIDE DEF list, n
<1>5. /\ \A r \in RowsIn(event) : r.competitor \in Competitors /\ r.order \in Nat /\ r.event = event
      /\ \A r, s \in RowsIn(event) : r.order = s.order => r = s
  BY DEF RowsIn, Lists, LineupHolds, LineupRow, NumbersAreDistinct
<1>6. \A k, l \in 1..n : k < l <=> rows[k].order < rows[l].order
  <2> SUFFICES ASSUME NEW k \in 1..n, NEW l \in 1..n PROVE k < l <=> rows[k].order < rows[l].order
    OBVIOUS
  <2>1. rows[k] \in RowsIn(event) /\ rows[l] \in RowsIn(event)
    BY <1>4
  <2>2. rows[k].order = rows[l].order => k = l
    BY <1>4, <1>5, <2>1
  <2>3. rows[k].order \in Nat /\ rows[l].order \in Nat
    BY <1>5, <2>1
  <2>4. /\ k < l => rows[k].order <= rows[l].order
        /\ l < k => rows[l].order <= rows[k].order
    BY <1>4
  <2> QED BY <1>3, <2>2, <2>3, <2>4
<1>7. list \in Seq(Competitors) /\ DOMAIN list = 1..n /\ Len(list) = n
  <2>1. \A i \in 1..n : rows[i].competitor \in Competitors
    BY <1>4, <1>5
  <2> QED BY <1>3, <1>4, <2>1
<1>8. PICK k0 \in 1..n : rows[k0] = routine
  BY <1>1, <1>4
<1>9. /\ c \in 1..n
      /\ page.resume # None => \A i \in 1..n : list[i] = competitor => c <= i
      /\ page.resume = None => c = 1
  <2>1. CASE page.resume # None
    <3>1. page.resume = competitor /\ c = IndexIn(list, competitor)
      BY <1>1, <2>1
    <3>2. list[k0] = competitor
      BY <1>1, <1>4, <1>8
    <3> QED BY <1>7, <2>1, <3>1, <3>2, IndexFound
  <2>2. CASE page.resume = None
    <3>1. list # <<>>
      BY <1>3, <1>7
    <3> QED BY <1>3, <2>2, <3>1
  <2> QED BY <2>1, <2>2
<1> HIDE DEF c
<1>10. /\ page'.at = "open" /\ page'.e = page.e /\ page'.events = page.events
       /\ page'.c = c /\ page'.list = list /\ page' \in PageState
       /\ event' = event /\ competitor' = competitor /\ routine' = routine /\ routines' = routines
       /\ inRing' = inRing /\ called' = called /\ seated' = seated /\ late' = late
       /\ RowsIn(event)' = RowsIn(event)
  <2>1. c \in Nat
    BY <1>3, <1>9
  <2> QED BY <1>1, <1>2, <1>7, <2>1 DEF PageState, ring, history, RowsIn
<1>11. Stage' = IF page.e = 0 THEN "idle" ELSE "competitor"
  <2>1. SendCompetitor(page').kind = "competitor"
    BY DEF SendCompetitor, Command
  <2> QED BY <1>2, <1>10, <2>1 DEF Stage
<1>12. PageHolds' /\ SentHolds'
  <2>1. page'.c <= Len(page'.list) /\ page'.c > 0
    BY <1>3, <1>7, <1>9, <1>10
  <2>2. PageHolds'
    BY <1>1, <1>10, <1>11, <2>1 DEF Calling, PageHolds
  <2>3. SentHolds'
    BY <1>2, <1>10, <1>11 DEF SentHolds
  <2> QED BY <2>2, <2>3
<1>13. SeatHolds'
  BY <1>1, <1>10, <1>11, NoneAssumption DEF SeatHolds
<1>14. EventsHold'
  BY <1>1, <1>10, <1>11 DEF Calling, EventsHold, HasBeenCalled
<1>15. ListHolds'
  <2>1. \A i \in 1..n : rows[i] \in RowsIn(event) /\ rows[i].competitor = list[i]
    BY <1>4
  <2> QED BY <1>7, <1>10, <2>1 DEF ListHolds
<1>16. RestHolds'
  <2>1. \A r \in routines : Remains(r)' <=> Remains(r)
    BY <1>10 DEF Remains, HasBeenCalled
  <2>2. ASSUME NEW r \in routines, Remains(r)
        PROVE  /\ page.e > 0
               /\ \E i \in 1..n : /\ list[i] = r.competitor /\ (c < i \/ c = i)
                                  /\ \A j \in 1..n : j < i => Before(list[j], r)
    <3>1. PICK i \in 1..n : rows[i] = r
      BY <1>4, <2>2 DEF Remains
    <3>2. list[i] = r.competitor
      BY <1>4, <3>1
    <3>3. ASSUME NEW j \in 1..n, j < i PROVE Before(list[j], r)
      <4>1. rows[j] \in RowsIn(event) /\ rows[j].competitor = list[j] /\ rows[j].order < r.order
        BY <1>4, <1>6, <3>1, <3>3
      <4> QED BY <4>1 DEF Before
    <3>4. c <= i
      <4>1. CASE page.resume # None
        <5>1. PICK s \in RowsIn(event) : s.competitor = competitor /\ s.order < r.order
          BY <1>1, <2>2, <4>1 DEF Calling, RestHolds, Before
        <5>2. PICK k \in 1..n : rows[k] = s
          BY <1>4, <5>1
        <5>3. k < i /\ list[k] = competitor
          BY <1>4, <1>6, <3>1, <5>1, <5>2
        <5> QED BY <1>3, <1>9, <4>1, <5>3
      <4>2. CASE page.resume = None
        BY <1>3, <1>9, <4>2
      <4> QED BY <4>1, <4>2
    <3>5. page.e > 0
      BY <2>2 DEF Calling, RestHolds
    <3> QED BY <1>3, <1>9, <3>2, <3>3, <3>4, <3>5
  <2>3. \A r, x : Before(x, r)' <=> Before(x, r)
    BY <1>10 DEF Before
  <2> QED BY <1>1, <1>7, <1>10, <1>11, <2>1, <2>2, <2>3 DEF RestHolds, ToCome
<1> QED BY <1>12, <1>13, <1>14, <1>15, <1>16 DEF Calling

\* Who is selected is seated, and those behind him remain.
LEMMA CompetitorCalls ==
    ASSUME Lists, Calling, NEW m \in sent, PostCompetitor(m) PROVE Calling'
<1> DEFINE c == page.list[page.c]
<1>1. /\ page.at = "open" /\ sent = {m} /\ Stage = "competitor" /\ m = SendCompetitor(page)
      /\ page \in PageState /\ page.c \in DOMAIN page.list /\ page.c # 0 /\ c \in Competitors
  <2>1. m.kind = "competitor"
    BY DEF PostCompetitor
  <2>2. page.at = "open" /\ sent = {m} /\ Stage = "competitor" /\ m = SendCompetitor(page)
    BY <2>1, OnlyOne DEF AskForList, SendEvent, Command
  <2>3. page \in PageState /\ page.c \in DOMAIN page.list /\ page.c # 0
    BY <2>2 DEF Calling, PageHolds, PageState
  <2> QED BY <2>2, <2>3 DEF PageState
<1>2. /\ event \in Events /\ event \in called /\ page.e > 0 /\ page.events[page.e] = event
  BY <1>1 DEF Calling, PageHolds, SeatHolds
<1>3. m.event = event /\ m.competitor = c /\ c # None
  BY <1>1, <1>2, NoneAssumption DEF SendCompetitor, Command
<1> HIDE DEF c
<1>4. PICK found \in RowsIn(event) :
          /\ event' = event /\ competitor' = c /\ found.competitor = c
          /\ routine' = found /\ seated' = seated \cup {found}
  <2>1. GetRoutine(event, c) # {}
    BY <1>1 DEF Calling, ListHolds, GetRoutine, c
  <2>2. SetCompetitor(event, c)
    BY <1>3 DEF PostCompetitor
  <2> QED BY <2>1, <2>2 DEF SetCompetitor, GetRoutine
<1>5. /\ sent' = {} /\ page' = page
      /\ UNCHANGED <<routines, inRing, adding, called, late>>
      /\ RowsIn(event)' = RowsIn(event)
  BY <1>1, <1>4 DEF PostCompetitor, RowsIn
<1>6. Stage' = "idle"
  BY <1>1, <1>5 DEF Stage
<1>7. PageHolds' /\ SentHolds'
  BY <1>1, <1>4, <1>5, <1>6 DEF PageHolds, SentHolds, Calling
<1>8. SeatHolds'
  BY <1>2, <1>4, <1>5, <1>6, NoneAssumption DEF SeatHolds
<1>9. \A r : HasBeenCalled(r) => HasBeenCalled(r)'
  BY <1>4 DEF HasBeenCalled
<1>10. EventsHold'
  BY <1>1, <1>4, <1>5, <1>6, <1>9 DEF Calling, EventsHold
<1>11. ListHolds'
  BY <1>1, <1>5, <1>6 DEF Calling, ListHolds
<1>12. RestHolds'
  <2>1. ASSUME NEW r \in routines, Remains(r)'
        PROVE  Remains(r) /\ r.competitor # c
    <3>1. Remains(r)
      BY <1>4, <1>5, <1>9, <2>1 DEF Remains
    <3>2. found \in seated' /\ found.event = event /\ r.event = event
      BY <1>4, <3>1 DEF Remains, RowsIn
    <3>3. ~HasBeenCalled(r)'
      BY <2>1 DEF Remains
    <3> QED BY <1>4, <3>1, <3>2, <3>3 DEF HasBeenCalled
  <2>2. ASSUME NEW r \in routines, Remains(r), r.competitor # c
        PROVE  /\ Before(c, r)
               /\ \E i \in DOMAIN page.list :
                      /\ page.list[i] = r.competitor /\ page.c < i
                      /\ \A j \in DOMAIN page.list : j < i => Before(page.list[j], r)
    <3>1. PICK i \in DOMAIN page.list :
              /\ page.list[i] = r.competitor /\ (page.c < i \/ page.c = i)
              /\ \A j \in DOMAIN page.list : j < i => Before(page.list[j], r)
      BY <1>1, <2>2 DEF Calling, RestHolds, ToCome
    <3>2. i # page.c
      BY <2>2, <3>1 DEF c
    <3> QED BY <1>1, <3>1, <3>2 DEF c
  <2>3. \A r, x : Before(x, r)' <=> Before(x, r)
    BY <1>4, <1>5 DEF Before
  <2> QED BY <1>2, <1>4, <1>5, <1>6, <2>1, <2>2, <2>3 DEF RestHolds, ToCome
<1> QED BY <1>7, <1>8, <1>10, <1>11, <1>12 DEF Calling

\* The next button goes on by one, in the list of competitors and, at its end,
\* in the list of events.
LEMMA NextCalls ==
    ASSUME Lists, Calling, ByTheButton', selectNextCompetitor PROVE Calling'
<1>1. /\ page \in PageState /\ page.at = "open" /\ sent = {} /\ Stage = "idle"
      /\ page.e <= Len(page.events) /\ page.c <= Len(page.list) /\ page.e \in Nat /\ page.c \in Nat
      /\ Len(page.events) \in Nat /\ Len(page.list) \in Nat
      /\ DOMAIN page.events = 1..Len(page.events) /\ DOMAIN page.list = 1..Len(page.list)
      /\ UNCHANGED <<routines, inRing, ring, adding, seated, called, late>>
  <2>1. sent = {} /\ page.at = "open"
    BY DEF selectNextCompetitor, Give, ByTheButton
  <2>2. UNCHANGED <<routines, inRing, ring, adding, seated, called, late>>
    BY DEF selectNextCompetitor
  <2> QED BY <2>1, <2>2 DEF Stage, Calling, PageHolds, PageState
<1>2. /\ event' = event /\ competitor' = competitor /\ routine' = routine /\ routines' = routines
      /\ inRing' = inRing /\ called' = called /\ seated' = seated /\ late' = late
      /\ \A r : Remains(r)' <=> Remains(r)
      /\ \A r : HasBeenCalled(r)' <=> HasBeenCalled(r)
      /\ \A r, x : Before(x, r)' <=> Before(x, r)
      /\ RowsIn(event)' = RowsIn(event)
  BY <1>1 DEF ring, Remains, HasBeenCalled, Before, RowsIn
<1>3. event # None
  BY <1>1 DEF Calling, SeatHolds
<1>4. CASE page.c < Len(page.list)
  <2>1. /\ page' = [page EXCEPT !.c = @ + 1]
        /\ sent' = IF page.e = 0 THEN {} ELSE {SendCompetitor(page')}
    BY <1>1, <1>4 DEF selectNextCompetitor, Give
  <2>2. /\ page'.at = "open" /\ page'.c = page.c + 1 /\ page'.e = page.e
        /\ page'.events = page.events /\ page'.list = page.list /\ page' \in PageState
    <3>1. PICK c \in Nat : c = page.c + 1
      BY <1>1
    <3>2. page' = [page EXCEPT !.c = c]
      BY <2>1, <3>1
    <3> QED BY <1>1, <3>1, <3>2 DEF PageState
  <2>3. Stage' = IF page.e = 0 THEN "idle" ELSE "competitor"
    <3>1. SendCompetitor(page').kind = "competitor"
      BY DEF SendCompetitor, Command
    <3> QED BY <2>1, <2>2, <3>1 DEF Stage
  <2>4. PageHolds' /\ SentHolds'
    <3>1. page.e # 0 => page.e > 0
      BY <1>1
    <3> QED BY <1>1, <1>4, <2>1, <2>2, <2>3, <3>1 DEF Calling, PageHolds, SentHolds
  <2>5. SeatHolds'
    BY <1>1, <1>2, <1>3, <2>2, <2>3 DEF Calling, SeatHolds
  <2>6. EventsHold'
    BY <1>1, <1>2, <2>2, <2>3 DEF Calling, EventsHold
  <2>7. ListHolds'
    BY <1>1, <1>2, <2>2, <2>3 DEF Calling, ListHolds
  <2>8. RestHolds'
    <3>1. ASSUME NEW r \in routines, Remains(r)
          PROVE  /\ page.e # 0
                 /\ \E i \in DOMAIN page.list :
                        /\ page.list[i] = r.competitor /\ (page.c + 1 < i \/ page.c + 1 = i)
                        /\ \A j \in DOMAIN page.list : j < i => Before(page.list[j], r)
      <4>1. PICK i \in DOMAIN page.list :
                /\ page.list[i] = r.competitor /\ page.c < i
                /\ \A j \in DOMAIN page.list : j < i => Before(page.list[j], r)
        BY <1>1, <3>1 DEF Calling, RestHolds, ToCome
      <4>2. page.c + 1 < i \/ page.c + 1 = i
        BY <1>1, <4>1
      <4>3. page.e # 0
        BY <1>1, <3>1 DEF Calling, RestHolds
      <4> QED BY <4>1, <4>2, <4>3
    <3> QED BY <1>1, <1>2, <2>2, <2>3, <3>1 DEF RestHolds, ToCome
  <2> QED BY <2>4, <2>5, <2>6, <2>7, <2>8 DEF Calling
<1>5. CASE ~(page.c < Len(page.list))
  <2>1. \A r \in routines : ~Remains(r)
    <3> SUFFICES ASSUME NEW r \in routines, Remains(r) PROVE FALSE
      OBVIOUS
    <3>1. PICK i \in DOMAIN page.list : page.c < i
      BY <1>1 DEF Calling, RestHolds, ToCome
    <3> QED BY <1>1, <1>5, <3>1
  <2>2. RestHolds'
    BY <1>1, <1>2, <2>1 DEF RestHolds
  <2>3. CASE page.e < Len(page.events)
    <3>1. page' = [page EXCEPT !.e = @ + 1] /\ sent' = {SendEvent(page')}
      BY <1>1, <1>5, <2>3 DEF selectNextCompetitor, Give
    <3>2. /\ page'.at = "open" /\ page'.c = page.c /\ page'.e = page.e + 1
          /\ page'.events = page.events /\ page'.list = page.list /\ page' \in PageState
      <4>1. PICK e \in Nat : e = page.e + 1
        BY <1>1
      <4>2. page' = [page EXCEPT !.e = e]
        BY <3>1, <4>1
      <4> QED BY <1>1, <4>1, <4>2 DEF PageState
    <3>3. Stage' = "event"
      BY <3>1, <3>2 DEF Stage, SendEvent, Command
    <3>4. PageHolds' /\ SentHolds'
      BY <1>1, <2>3, <3>1, <3>2, <3>3 DEF Calling, PageHolds, SentHolds
    <3>5. SeatHolds'
      BY <1>1, <1>2, <1>3, <3>2, <3>3 DEF Calling, SeatHolds
    <3>6. EventsHold'
      <4>1. ASSUME NEW u \in inRing \ called
            PROVE  \E i \in DOMAIN page.events :
                       page.events[i] = u /\ (page.e + 1 < i \/ page.e + 1 = i)
        <5>1. PICK i \in DOMAIN page.events : page.events[i] = u /\ page.e < i
          BY <1>1, <4>1 DEF Calling, EventsHold
        <5>2. page.e + 1 < i \/ page.e + 1 = i
          BY <1>1, <5>1
        <5> QED BY <5>1, <5>2
      <4> QED BY <1>1, <1>2, <3>2, <3>3, <4>1 DEF Calling, EventsHold
    <3>7. ListHolds'
      BY <3>3 DEF ListHolds
    <3> QED BY <2>2, <3>4, <3>5, <3>6, <3>7 DEF Calling
  <2>4. CASE ~(page.e < Len(page.events))
    <3>1. page' = [page EXCEPT !.at = "finished"] /\ sent' = {}
      BY <1>1, <1>5, <2>4 DEF selectNextCompetitor, Give
    <3>2. /\ page'.at = "finished" /\ page'.c = page.c /\ page'.e = page.e
          /\ page'.events = page.events /\ page'.list = page.list /\ page' \in PageState
      BY <1>1, <3>1 DEF PageState
    <3>3. Stage' = "finished"
      BY <3>2 DEF Stage
    <3>4. PageHolds' /\ SentHolds'
      BY <1>1, <2>4, <3>1, <3>2, <3>3 DEF Calling, PageHolds, SentHolds
    <3>5. SeatHolds'
      BY <1>1, <1>2, <1>3, <3>2, <3>3 DEF Calling, SeatHolds
    <3>6. EventsHold'
      BY <1>1, <1>2, <3>2, <3>3 DEF Calling, EventsHold
    <3>7. ListHolds'
      BY <3>3 DEF ListHolds
    <3> QED BY <2>2, <3>4, <3>5, <3>6, <3>7 DEF Calling
  <2> QED BY <2>3, <2>4
<1> QED BY <1>4, <1>5

\* A row that is inserted into an event that was called is late, although its
\* competitor may be in the event already.
LEMMA InsertCalls ==
    ASSUME Lists, Calling, InsertRoutine PROVE Calling'
<1>1. /\ adding # None /\ adding \in LineupRow /\ routines' = routines \cup {adding}
      /\ late \subseteq late' /\ (adding.event \in called => adding \in late')
      /\ UNCHANGED <<inRing, ring, page, sent, seated, called>>
  BY DEF InsertRoutine, Lists, LineupHolds
<1>2. /\ event' = event /\ competitor' = competitor /\ routine' = routine /\ page' = page
      /\ sent' = sent /\ Stage' = Stage /\ called' = called /\ seated' = seated /\ inRing' = inRing
      /\ \A r : HasBeenCalled(r)' <=> HasBeenCalled(r)
      /\ RowsIn(event)' = IF adding.event = event THEN RowsIn(event) \cup {adding} ELSE RowsIn(event)
  BY <1>1 DEF ring, RowsIn, Stage, HasBeenCalled
<1>3. adding.event = event => event \in called
  BY <1>1, NoneAssumption DEF Calling, SeatHolds, LineupRow
<1>4. PageHolds' /\ SentHolds' /\ SeatHolds'
  BY <1>1, <1>2 DEF Calling, PageHolds, SentHolds, SeatHolds
<1>5. EventsHold'
  BY <1>1, <1>2 DEF Calling, EventsHold
<1>6. ListHolds'
  BY <1>2 DEF Calling, ListHolds
<1>7. RestHolds'
  <2>1. \A r : Remains(r)' => Remains(r)
    BY <1>1, <1>2, <1>3 DEF Remains
  <2>2. \A r : Remains(r) => r \in routines
    BY DEF Remains, RowsIn
  <2>3. \A r, x : Before(x, r) => Before(x, r)'
    BY <1>2 DEF Before
  <2>4. \A r : ToCome(r) => ToCome(r)'
    BY <1>2, <2>3 DEF ToCome
  <2> QED BY <1>2, <2>1, <2>2, <2>3, <2>4 DEF Calling, RestHolds
<1> QED BY <1>4, <1>5, <1>6, <1>7 DEF Calling

\* As long as nothing is removed from an event that was called, the event of
\* the ring stays as it is.
LEMMA RemoveCalls ==
    ASSUME Lists, Calling, ByTheButton', NEW c, NEW e \in Events, RemoveCompetitorFromEvent(c, e)
    PROVE  Calling'
<1>1. /\ routines' = routines \ GetRoutine(e, c) /\ e \notin called
      /\ UNCHANGED <<inRing, ring, page, sent, seated, called, late>>
  BY DEF RemoveCompetitorFromEvent, ByTheButton
<1>2. e # event
  BY <1>1, NoneAssumption DEF Calling, SeatHolds
<1>3. /\ event' = event /\ competitor' = competitor /\ routine' = routine /\ page' = page
      /\ sent' = sent /\ Stage' = Stage
      /\ called' = called /\ seated' = seated /\ late' = late /\ inRing' = inRing
      /\ routines' \subseteq routines /\ RowsIn(event)' = RowsIn(event)
      /\ \A r : HasBeenCalled(r)' <=> HasBeenCalled(r)
  BY <1>1, <1>2 DEF ring, RowsIn, GetRoutine, Stage, HasBeenCalled
<1>4. /\ \A t : Remains(t)' <=> Remains(t)
      /\ \A t, x : Before(x, t)' <=> Before(x, t)
  BY <1>3 DEF Remains, Before
<1>5. \A t : ToCome(t)' <=> ToCome(t)
  BY <1>3, <1>4 DEF ToCome
<1>6. PageHolds' /\ SentHolds' /\ SeatHolds'
  BY <1>3 DEF Calling, PageHolds, SentHolds, SeatHolds
<1>7. EventsHold' /\ ListHolds'
  BY <1>3 DEF Calling, EventsHold, ListHolds
<1>8. RestHolds'
  BY <1>3, <1>4, <1>5 DEF Calling, RestHolds
<1> QED BY <1>6, <1>7, <1>8 DEF Calling

\* An event that comes to the ring after the page has listed its events counts
\* as called, and its rows as late; one that leaves the ring is not waited for.
LEMMA MoveCalls ==
    ASSUME Lists, Calling, NEW e \in Events, moveEvent(e) PROVE Calling'
<1>1. /\ inRing' = IF e \in inRing THEN inRing \ {e} ELSE inRing \cup {e}
      /\ event' = event /\ competitor' = competitor /\ routine' = routine /\ page' = page
      /\ sent' = sent /\ Stage' = Stage
      /\ seated' = seated /\ routines' = routines
      /\ RowsIn(event)' = RowsIn(event)
      /\ \A r : HasBeenCalled(r)' <=> HasBeenCalled(r)
      /\ \A r, x : Before(x, r)' <=> Before(x, r)
      /\ IF page = Closed \/ e \in inRing THEN called' = called /\ late' = late
         ELSE called' = called \cup {e} /\ late' = late \cup RowsIn(e)
  BY DEF moveEvent, ring, RowsIn, Stage, HasBeenCalled, Before
<1>2. /\ page.at = "closed" <=> page = Closed
      /\ page = Closed => event = None /\ called = {}
  BY DEF Calling, PageHolds, Closed
<1>3. PageHolds' /\ SentHolds' /\ SeatHolds' /\ ListHolds'
  BY <1>1, <1>2 DEF Calling, PageHolds, SentHolds, SeatHolds, ListHolds
<1>4. EventsHold'
  <2>1. CASE page = Closed
    BY <1>1, <1>2, <2>1 DEF EventsHold
  <2>2. CASE page # Closed
    BY <1>1, <1>2, <2>2 DEF Calling, EventsHold, RowsIn
  <2> QED BY <2>1, <2>2
<1>5. RestHolds'
  <2>1. \A r \in routines : Remains(r)' => Remains(r)
    <3> SUFFICES ASSUME NEW r \in routines, Remains(r)' PROVE Remains(r)
      OBVIOUS
    <3>1. r \in RowsIn(event) /\ event \in inRing' /\ r \notin late' /\ ~HasBeenCalled(r)
      BY <1>1 DEF Remains
    <3>2. event # None
      BY <3>1, NoneAssumption DEF RowsIn, Lists, LineupHolds, LineupRow
    <3>3. r \notin late
      BY <1>1, <3>1
    <3>4. event \in inRing
      BY <1>1, <1>2, <3>1, <3>2
    <3> QED BY <3>1, <3>3, <3>4 DEF Remains
  <2>2. \A r : ToCome(r)' <=> ToCome(r)
    BY <1>1 DEF ToCome
  <2> QED BY <1>1, <2>1, <2>2 DEF Calling, RestHolds
<1> QED BY <1>3, <1>4, <1>5 DEF Calling

\* The invariant is about walks by the button alone, a command at a time; once a
\* hand chose or hurried or an event lost its number one, nothing is claimed.
CallInv == ByTheButton => Calling

\* Every step of the page, the ring and the administrator keeps it.
LEMMA CallStep ==
    ASSUME Lists, CallInv, [Next]_vars PROVE CallInv'
<1> SUFFICES ASSUME ByTheButton' PROVE Calling'
  BY DEF CallInv
<1>1. ByTheButton
  <2>1. CASE byHand' = byHand /\ upset' = upset /\ hurried' = hurried
    BY <2>1 DEF ByTheButton
  <2>2. CASE Open \/ selectNextCompetitor
    <3>1. byHand' = byHand /\ upset' = upset /\ hurried' = (hurried \/ sent # {})
      BY <2>2 DEF Open, selectNextCompetitor, Give
    <3> QED BY <3>1, Zenon DEF ByTheButton
  <2>3. CASE InsertRoutine \/ UNCHANGED vars
    BY <2>1, <2>3 DEF InsertRoutine, vars, history
  <2>4. CASE \/ \E c \in Competitors, e \in Events : AddCompetitorToEvent(c, e)
             \/ \E e \in Events : moveEvent(e)
    BY <2>1, <2>4 DEF AddCompetitorToEvent, moveEvent
  <2>5. CASE SelectEvent \/ SelectCompetitor
    BY <2>5 DEF SelectEvent, SelectCompetitor, ByTheButton
  <2>6. ASSUME NEW m \in sent, PostEvent(m) PROVE ByTheButton
    <3>1. byHand' = byHand /\ hurried' = hurried
      BY <2>6 DEF PostEvent
    <3>2. ~upset
      BY <2>6 DEF PostEvent, changeEvent, ByTheButton
    <3> QED BY <3>1, <3>2 DEF ByTheButton
  <2>7. ASSUME NEW m \in sent, setCompetitorList(m) \/ PostCompetitor(m) PROVE ByTheButton
    BY <2>1, <2>7 DEF setCompetitorList, PostCompetitor, history
  <2>8. ASSUME NEW c \in Competitors, NEW e \in Events, RemoveCompetitorFromEvent(c, e)
        PROVE  ByTheButton
    BY <2>8, Zenon DEF RemoveCompetitorFromEvent, ByTheButton
  <2> QED BY <2>2, <2>3, <2>4, <2>5, <2>6, <2>7, <2>8 DEF Next
<1>2. Calling
  BY <1>1 DEF CallInv
<1>3. CASE SelectEvent \/ SelectCompetitor
  BY <1>3 DEF SelectEvent, SelectCompetitor, ByTheButton
<1>4. ASSUME UNCHANGED <<routines, inRing, ring, page, sent, seated, called, late>> PROVE Calling'
  BY <1>2, <1>4 DEF ring, Calling, PageHolds, SentHolds, SeatHolds, EventsHold, ListHolds,
                    RestHolds, Remains, ToCome, Before, HasBeenCalled, RowsIn, Stage
<1>5. CASE UNCHANGED vars
  BY <1>4, <1>5 DEF vars, history
<1>6. ASSUME NEW c \in Competitors, NEW e \in Events, AddCompetitorToEvent(c, e) PROVE Calling'
  BY <1>4, <1>6 DEF AddCompetitorToEvent
<1>7. ASSUME NEW m \in sent, PostEvent(m) \/ setCompetitorList(m) \/ PostCompetitor(m) PROVE Calling'
  BY <1>2, <1>7, EventCalls, ListCalls, CompetitorCalls
<1> QED BY <1>2, <1>3, <1>5, <1>6, <1>7, OpenCalls, NextCalls, InsertCalls, RemoveCalls, MoveCalls
        DEF Next

\* When the page says "Finished!" everybody who was entered in time has been
\* called, whatever was added and moved meanwhile, a competitor entered twice
\* included, and however often the page was opened again, as long as no command
\* is given while another is on its way.
THEOREM NobodyIsLeftOut ==
    EntriesAreNumbered /\ EventsAreApart => (Spec => []EveryoneIsCalled)
<1> SUFFICES ASSUME EntriesAreNumbered, EventsAreApart
             PROVE  Spec => []EveryoneIsCalled
  OBVIOUS
<1>1. Init => CallInv
  <2> SUFFICES ASSUME Init PROVE Calling
    BY DEF CallInv
  <2>1. /\ page = [at |-> "closed", events |-> <<>>, list |-> <<>>, e |-> 0, c |-> 0, resume |-> None]
        /\ event = None /\ competitor = None /\ called = {} /\ routines = Entries /\ sent = {}
    BY DEF Init, Closed
  <2>2. Stage = "closed"
    BY <2>1 DEF Stage
  <2>3. PageHolds /\ SentHolds
    <3>1. page \in PageState
      BY <2>1 DEF PageState
    <3>2. page = Closed
      BY <2>1 DEF Closed
    <3> QED BY <2>1, <2>2, <3>1, <3>2 DEF PageHolds, SentHolds
  <2>4. SeatHolds /\ EventsHold /\ ListHolds
    BY <2>1, <2>2 DEF SeatHolds, EventsHold, ListHolds
  <2>5. RestHolds
    <3>1. \A r \in Entries : r.event # None
      BY EntriesAssumption, NoneAssumption
    <3> QED BY <2>1, <3>1 DEF RestHolds, Remains, RowsIn
  <2> QED BY <2>3, <2>4, <2>5 DEF Calling
<1>2. LineupHolds /\ NumbersInv /\ CallInv /\ [Next]_vars => CallInv'
  BY CallStep DEF Lists, NumbersInv
<1>3. ASSUME LineupHolds, CallInv PROVE EveryoneIsCalled
  <2> SUFFICES ASSUME page.at = "finished", Calling, NEW r \in routines, r.event \in inRing
               PROVE  r \in late \/ HasBeenCalled(r)
    BY <1>3 DEF EveryoneIsCalled, AllCalled, CallInv, ByTheButton
  <2>1. Stage = "finished"
    BY DEF Stage
  <2>2. r.event \in called
    <3> SUFFICES ASSUME r.event \notin called PROVE FALSE
      OBVIOUS
    <3>1. PICK i \in DOMAIN page.events : page.e < i
      BY <2>1 DEF Calling, EventsHold
    <3>2. page.e = Len(page.events) /\ page.events \in Seq(Events)
      BY DEF Calling, PageHolds, PageState
    <3> QED BY <3>1, <3>2
  <2>3. CASE r.event = event
    BY <2>1, <2>3 DEF Calling, RestHolds, Remains, RowsIn
  <2>4. CASE r.event # event
    BY <2>2, <2>4 DEF Calling, EventsHold
  <2> QED BY <2>3, <2>4
<1> QED BY <1>1, <1>2, <1>3, LineupInvariant, NumbersInvariant, PTL DEF Spec
=============================================================================
