--------------------------- MODULE TechnicalPanel ---------------------------
(***************************************************************************)
(* The A and C panels of a ring: the deductions and nandu results cached   *)
(* in RingState (data/state.go), their tables, and the requests that       *)
(* change both (markBlankDeduction, submitDeduction, submitNandu of        *)
(* routes/api/scoring.go), against SetCompetitor, which fills the cache    *)
(* from the tables.  Every request is a goroutine: it stops at the         *)
(* database, where it loads a judge's list and where it stores it, with no *)
(* lock over any two of them.                                              *)
(*                                                                         *)
(* A list is a slice of pointers: requests that loaded it share its array  *)
(* or not, and share its entries.  Left out: the shift of an array and the *)
(* store of its header are one step, the walk over a list is one, and Go's *)
(* abort of a program caught in concurrent writes of a map.                *)
(*                                                                         *)
(* A mark is a judge's press of the space bar; its id is a hash of the     *)
(* judge and the time, taken here to be unique.  A panic (a nil map) is    *)
(* recovered by net/http: the request ends where it is.                    *)
(***************************************************************************)
EXTENDS Naturals, FiniteSets, Sequences, SequencesExt

CONSTANTS Judges, CPanel,    \* the judges, those of the C panel
          Marks, Owner,      \* the marks the others may make; mark -> judge
          Routines, Ruleset, \* routine -> "USWU", "IWUFAB" or "IWUF"
          Codes,             \* the codes a judge can give to a mark; any other
                             \* text is Blank, below
          Results,           \* a judge's lists of successes
          MaxRequests,       \* bound: requests at a time
          MaxNandu,          \* bound: rows of nandu_results
          MaxFaults,         \* bound: failures to recover from at a time
          MaxRaced,          \* bound: marks and lists with two requests at a time
          Nil

ASSUME OwnerAssumption ==
    CPanel \subseteq Judges /\ Owner \in [Marks -> Judges]
ASSUME RulesetAssumption == Ruleset \in [Routines -> {"USWU", "IWUFAB", "IWUF"}]
ASSUME PanelBounds == {MaxRequests, MaxNandu, MaxFaults, MaxRaced} \subseteq Nat
ASSUME NilAssumption ==
    /\ Nil \notin Marks \cup Judges \cup Routines \cup Codes
    /\ Marks \cap Judges = {} /\ "read" \notin Marks \cup Judges

VARIABLES
    routine,     \* the ring's, Nil before the first
    deductions,  \* judge -> list of [id, code], or Nil
    nanduScores, \* judge -> result or Nil, or the map is Nil
    nandusheet,  \* the routine's sheet is loaded
    marked,      \* table deductions: id -> [routine, code]
    nanduRows,   \* table nandu_results, in the order of the inserts
    selecting,   \* SetCompetitor: where it stands, the rows it has read
    requests,    \* the requests on their way
    loaded,      \* request that changes a list -> the list as it loaded it
    page,        \* mark -> [at, text, check] on its judge's page
    seen,        \* judge -> the routine the judge's page shows
    \* history: a selection and a request overlapped, or the request was about
    \* another routine; what failed since the cache was last filled;
    \* the marks and lists about which two requests were on their way at once;
    \* the judges with two changes of their list at once since it was filled; the
    \* marks whose text was changed while an update of it was on its way
    disturbed, failed, raced, clashed, edited

cache == <<routine, deductions, nanduScores, nandusheet>>
tables == <<marked, nanduRows>>
clients == <<page, seen, edited>>
inHand == <<loaded, clashed>>
vars == <<cache, tables, selecting, requests, inHand, clients, disturbed, failed, raced>>

-----------------------------------------------------------------------------
NoLists == [j \in Judges |-> <<>>]
NoResults == [j \in Judges |-> Nil]
Blank == "blank"

\* A mark's row on the page: not there yet, shown, removed, or cleared away.
Row(at) == [at |-> at, text |-> Blank, check |-> FALSE]

Init ==
    /\ routine = Nil /\ deductions = Nil /\ nanduScores = Nil
    /\ nandusheet = FALSE
    /\ marked = <<>> /\ nanduRows = <<>>
    /\ selecting = [at |-> "idle", rows |-> <<>>]
    /\ requests = {} /\ loaded = <<>>
    /\ page = [m \in Marks |-> Row("unused")]
    /\ seen = [j \in Judges |-> Nil]
    /\ disturbed = FALSE /\ failed = {} /\ raced = {} /\ clashed = {} /\ edited = {}

-----------------------------------------------------------------------------
(* The judges' pages.                                                       *)

\* A page does not wait for an answer before it sends the next request; requests
\* that are alike are answered together.
Send(kind, j, about, value) ==
    /\ Cardinality(requests) < MaxRequests
    /\ requests' = requests \cup {[kind |-> kind, judge |-> j, about |-> about,
                                   value |-> value, routine |-> seen[j], at |-> "first"]}
    /\ raced' = IF \E r \in requests : r.about = about THEN raced \cup {about} ELSE raced
    /\ Cardinality(raced') <= MaxRaced
    /\ disturbed' = (disturbed \/ selecting.at # "idle" \/ seen[j] # routine)
    /\ UNCHANGED <<cache, tables, selecting, inHand, seen, failed>>

PressMark(m) ==
    /\ page[m].at = "unused" /\ seen[Owner[m]] # Nil
    /\ Ruleset[seen[Owner[m]]] # "USWU"
    /\ page' = [page EXCEPT ![m] = Row("shown")]
    /\ Send("mark", Owner[m], m, Blank)
    /\ UNCHANGED edited

\* the judge changes the text: it is sent when a key is released, if it is a code then
Type(m, text) ==
    /\ page[m].at = "shown"
    /\ page' = [page EXCEPT ![m].text = text, ![m].check = FALSE]
    /\ edited' = IF \E r \in requests : r.kind = "update" /\ r.about = m
                 THEN edited \cup {m} ELSE edited \ {m}
    /\ UNCHANGED <<cache, tables, selecting, requests, inHand, seen, disturbed, failed, raced>>

KeyUp(m) ==
    /\ page[m].at = "shown" /\ page[m].text \in Codes /\ ~page[m].check
    /\ Send("update", Owner[m], m, page[m].text)
    /\ edited' = edited \ {m}
    /\ UNCHANGED page

RemoveMark(m) ==
    /\ page[m].at = "shown"
    /\ page' = [page EXCEPT ![m] = Row("removed")]
    /\ Send("delete", Owner[m], m, Blank)
    /\ edited' = edited \ {m}

SubmitResults(j, result) ==
    /\ j \in CPanel /\ seen[j] # Nil /\ Ruleset[seen[j]] = "IWUF"
    /\ Send("nandu", j, j, result)
    /\ UNCHANGED <<page, edited>>

\* the status of the ring clears the page
UpdateStatus(j) ==
    /\ routine # Nil
    /\ seen' = [seen EXCEPT ![j] = routine]
    /\ page' = [m \in Marks |-> IF Owner[m] = j /\ page[m].at = "shown" THEN Row("gone")
                                ELSE page[m]]
    /\ edited' = {m \in edited : Owner[m] # j}
    /\ UNCHANGED <<cache, tables, selecting, requests, inHand, disturbed, failed, raced>>

-----------------------------------------------------------------------------
(* The handlers.                                                            *)

Awaits(r, kind, at) == r \in requests /\ r.kind = kind /\ r.at = at
Advance(r) == requests' = (requests \ {r}) \cup {[r EXCEPT !.at = "second"]}
End(r) == requests' = requests \ {r}

SaveDeductionMark(r) ==
    /\ Awaits(r, "mark", "first") /\ r.about \notin DOMAIN marked
    /\ marked' = [m \in DOMAIN marked \cup {r.about} |->
                     IF m = r.about THEN [routine |-> r.routine, code |-> r.value]
                     ELSE marked[m]]
    /\ Advance(r)
    /\ UNCHANGED <<cache, nanduRows, selecting, clients, disturbed, failed, raced, inHand>>

\* mutant: the row is not written
KeepDeductionMark(r) ==
    /\ Awaits(r, "update", "first")
    /\ Advance(r)
    /\ UNCHANGED <<cache, tables, selecting, clients, disturbed, failed, raced, inHand>>

\* an id that is not in the table is no error
UpdateDeductionMark(r) ==
    /\ Awaits(r, "update", "first")
    /\ marked' = [m \in DOMAIN marked |->
                     IF m = r.about THEN [marked[m] EXCEPT !.code = r.value] ELSE marked[m]]
    /\ Advance(r)
    /\ UNCHANGED <<cache, nanduRows, selecting, clients, disturbed, failed, raced, inHand>>

\* mutant: only a mark with a code is deleted
RemoveCodedMark(r) ==
    /\ Awaits(r, "delete", "first")
    /\ marked' = [m \in {n \in DOMAIN marked : n # r.about \/ marked[n].code = Blank} |->
                     marked[m]]
    /\ Advance(r)
    /\ UNCHANGED <<cache, nanduRows, selecting, clients, disturbed, failed, raced, inHand>>

RemoveDeductionMark(r) ==
    /\ Awaits(r, "delete", "first")
    /\ marked' = [m \in DOMAIN marked \ {r.about} |-> marked[m]]
    /\ Advance(r)
    /\ UNCHANGED <<cache, nanduRows, selecting, clients, disturbed, failed, raced, inHand>>

\* submitNandu caches first; without a sheet it panics
ParseNanduScores(r) ==
    /\ Awaits(r, "nandu", "first")
    /\ IF ~nandusheet THEN nanduScores' = nanduScores /\ End(r)
       ELSE nanduScores' = [nanduScores EXCEPT ![r.judge] = r.value] /\ Advance(r)
    /\ UNCHANGED <<routine, nandusheet, deductions, tables, selecting, clients,
                   disturbed, failed, raced, inHand>>

SaveNanduScore(r) ==
    /\ Awaits(r, "nandu", "second") /\ Len(nanduRows) < MaxNandu
    /\ nanduRows' = Append(nanduRows,
                           [routine |-> r.routine, judge |-> r.judge, result |-> r.value])
    /\ failed' = failed \ {r.judge}
    /\ End(r)
    /\ UNCHANGED <<cache, marked, selecting, clients, disturbed, raced, inHand>>

\* the database call of a request fails: so does an insert of a known id
DbFails(r) ==
    /\ r \in requests /\ r.at = IF r.kind = "nandu" THEN "second" ELSE "first"
    /\ Cardinality(failed \cup {r.about}) <= MaxFaults
    /\ failed' = failed \cup {r.about}
    /\ End(r)
    /\ UNCHANGED <<cache, tables, selecting, clients, disturbed, raced, inHand>>

-----------------------------------------------------------------------------
(* The lists, loaded and stored without a lock.                             *)

\* Both change the array or the length, or one walks what the other shifts.
Clash(q, r) ==
    /\ q.judge = r.judge
    /\ "delete" \in {q.kind, r.kind} \/ (q.kind = "mark" /\ r.kind = "mark")

LoadDeductions(r) ==
    /\ r \in requests /\ r.kind # "nandu" /\ r.at = "second"
    /\ LET holder == [r EXCEPT !.at = "third"]
       IN /\ requests' = (requests \ {r}) \cup {holder}
          /\ loaded' = [q \in DOMAIN loaded \cup {holder} |->
                           IF q # holder THEN loaded[q]
                           ELSE IF deductions = Nil THEN <<>> ELSE deductions[r.judge]]
    /\ clashed' = IF \E q \in DOMAIN loaded : Clash(q, r) THEN clashed \cup {r.judge}
                  ELSE clashed
    /\ UNCHANGED <<cache, tables, selecting, clients, disturbed, failed, raced>>

\* Cells of an array overwritten from an index on, seen in a list that shares it.
Cells(list, new, from) ==
    [k \in DOMAIN list |-> IF k >= from /\ k <= Len(new) THEN new[k] ELSE list[k]]

\* The new list is stored; those that others loaded may share its array.  A nil map
\* panics.
Store(r, new, from) ==
    /\ deductions' = IF deductions = Nil THEN Nil ELSE [deductions EXCEPT ![r.judge] = new]
    /\ \E hit \in SUBSET {q \in DOMAIN loaded : q.judge = r.judge} :
          loaded' = [q \in DOMAIN loaded \ {r} |->
                        IF q \in hit THEN Cells(loaded[q], new, from) ELSE loaded[q]]
    /\ End(r)
    /\ UNCHANGED <<routine, nandusheet, nanduScores, tables, selecting, clients,
                   disturbed, failed, raced, clashed>>

EntryOf(r) == [id |-> r.about, code |-> r.value]

\* mutant: the list of the judge starts anew
SetDeductionAlone(r) ==
    /\ Awaits(r, "mark", "third")
    /\ Store(r, <<EntryOf(r)>>, 1)

SetDeduction(r) ==
    /\ Awaits(r, "mark", "third")
    /\ Store(r, Append(loaded[r], EntryOf(r)), Len(loaded[r]) + 1)

IsListed(list, m) == \E i \in DOMAIN list : list[i].id = m

Recoded(list, m, c) ==
    [i \in DOMAIN list |-> IF list[i].id = m THEN [list[i] EXCEPT !.code = c] ELSE list[i]]

\* The entry is one in all lists, unless the list is older than the maps; a walk over an
\* array that is shifted can miss it.  Then the page shows the check mark, whatever the
\* text is now, unless the row is no longer there.
UpdateDeduction(r) ==
    /\ Awaits(r, "update", "third")
    /\ \/ /\ IsListed(loaded[r], r.about)
          /\ deductions' = IF deductions = Nil THEN Nil
                           ELSE [deductions EXCEPT ![r.judge] = Recoded(@, r.about, r.value)]
          /\ loaded' = [q \in DOMAIN loaded \ {r} |->
                           IF q.judge = r.judge THEN Recoded(loaded[q], r.about, r.value)
                           ELSE loaded[q]]
       \/ /\ IsListed(loaded[r], r.about) => disturbed \/ r.judge \in clashed
          /\ loaded' = [q \in DOMAIN loaded \ {r} |-> loaded[q]]
          /\ UNCHANGED deductions
    /\ page' = IF page[r.about].at = "shown" THEN [page EXCEPT ![r.about].check = TRUE]
               ELSE page
    /\ End(r)
    /\ UNCHANGED <<routine, nandusheet, nanduScores, tables, selecting, seen, edited,
                   disturbed, failed, raced, clashed>>

\* The first with the id is taken out; a list that is nil is not stored.
DeleteDeduction(r) ==
    /\ Awaits(r, "delete", "third")
    /\ \/ \E i \in DOMAIN loaded[r] :
             /\ loaded[r][i].id = r.about
             /\ \A k \in 1..(i - 1) : loaded[r][k].id # r.about
             /\ Store(r, RemoveAt(loaded[r], i), i)
       \/ ~IsListed(loaded[r], r.about) /\ Store(r, loaded[r], Len(loaded[r]) + 1)
       \/ /\ loaded[r] = <<>>
          /\ loaded' = [q \in DOMAIN loaded \ {r} |-> loaded[q]]
          /\ End(r)
          /\ UNCHANGED <<cache, tables, selecting, clients, disturbed, failed, raced, clashed>>

-----------------------------------------------------------------------------
(* SetCompetitor, from the reset on.                                        *)

Goto(at, rows) == selecting' = [at |-> at, rows |-> rows]

ResetState(rt) ==
    /\ selecting.at = "idle"
    /\ routine' = rt /\ deductions' = Nil /\ nanduScores' = Nil /\ nandusheet' = FALSE
    /\ Goto(IF Ruleset[rt] = "USWU" THEN "idle" ELSE "marks", <<>>)
    /\ disturbed' = (requests # {})
    /\ failed' = failed \cap Marks
    /\ clashed' = {}
    /\ UNCHANGED <<tables, requests, loaded, clients, raced>>

GetDeductions ==
    [m \in {n \in DOMAIN marked : marked[n].routine = routine} |-> marked[m].code]

MakeMaps == deductions' = NoLists /\ nanduScores' = NoResults

ReadDeductions ==
    /\ selecting.at = "marks"
    /\ MakeMaps
    /\ Goto("fill", GetDeductions)
    /\ UNCHANGED <<routine, nandusheet, tables, requests, clients, disturbed,
                   failed, raced, inHand>>

ReadDeductionsFails ==
    /\ selecting.at = "marks" /\ Cardinality(failed \cup {"read"}) <= MaxFaults
    /\ MakeMaps
    /\ Goto(IF Ruleset[routine] = "IWUF" THEN "sheet" ELSE "idle", <<>>)
    /\ failed' = failed \cup {"read"}
    /\ UNCHANGED <<routine, nandusheet, tables, requests, clients, disturbed, raced, inHand>>

FillDeductions ==
    /\ selecting.at = "fill"
    /\ deductions' = [j \in Judges |-> deductions[j] \o
           LET mine == SetToSeq({m \in DOMAIN selecting.rows : Owner[m] = j})
           IN [i \in DOMAIN mine |-> [id |-> mine[i], code |-> selecting.rows[mine[i]]]]]
    /\ Goto(IF Ruleset[routine] = "IWUF" THEN "sheet" ELSE "idle", <<>>)
    /\ UNCHANGED <<routine, nandusheet, nanduScores, tables, requests, clients,
                   disturbed, failed, raced, inHand>>

ReadNandusheet ==
    /\ selecting.at = "sheet"
    /\ nandusheet' = TRUE
    /\ Goto("nandu", <<>>)
    /\ UNCHANGED <<routine, deductions, nanduScores, tables, requests, clients,
                   disturbed, failed, raced, inHand>>

ReadNandusheetFails ==
    /\ selecting.at = "sheet" /\ Cardinality(failed \cup {"read"}) <= MaxFaults
    /\ Goto("nandu", <<>>)
    /\ failed' = failed \cup {"read"}
    /\ UNCHANGED <<cache, tables, requests, clients, disturbed, raced, inHand>>

RowsOf(rt, j) ==
    {i \in DOMAIN nanduRows : nanduRows[i].routine = rt /\ nanduRows[i].judge = j}

\* mutant: the first row of a judge stays
FirstResult(j) ==
    IF RowsOf(routine, j) = {} THEN Nil ELSE nanduRows[Min(RowsOf(routine, j))].result

\* the map that GetNanduResults makes keeps the last row of a judge
LastResult(j) ==
    IF RowsOf(routine, j) = {} THEN Nil ELSE nanduRows[Max(RowsOf(routine, j))].result

ReadNandu ==
    /\ selecting.at = "nandu"
    /\ Goto("parse", [j \in Judges |-> LastResult(j)])
    /\ UNCHANGED <<cache, tables, requests, clients, disturbed, failed, raced, inHand>>

\* the error is not even logged
ReadNanduFails ==
    /\ selecting.at = "nandu" /\ Cardinality(failed \cup {"read"}) <= MaxFaults
    /\ Goto("idle", <<>>)
    /\ failed' = failed \cup {"read"}
    /\ UNCHANGED <<cache, tables, requests, clients, disturbed, raced, inHand>>

\* without a sheet this panics too, unless there are no rows
ParseRead ==
    /\ selecting.at = "parse"
    /\ nanduScores' = IF ~nandusheet THEN nanduScores
                      ELSE [j \in Judges |-> IF selecting.rows[j] = Nil THEN nanduScores[j]
                                             ELSE selecting.rows[j]]
    /\ Goto("idle", <<>>)
    /\ UNCHANGED <<routine, nandusheet, deductions, tables, requests, clients,
                   disturbed, failed, raced, inHand>>

-----------------------------------------------------------------------------
PageSteps ==
    \/ \E m \in Marks : \/ PressMark(m) \/ RemoveMark(m)
                        \/ KeyUp(m) \/ \E text \in Codes \cup {Blank} : Type(m, text)
    \/ \E j \in Judges : \/ UpdateStatus(j)
                         \/ \E result \in Results : SubmitResults(j, result)

HandlerSteps ==
    \E r \in requests :
        \/ SaveDeductionMark(r) \/ SetDeduction(r)
        \/ UpdateDeductionMark(r) \/ UpdateDeduction(r)
        \/ RemoveDeductionMark(r) \/ DeleteDeduction(r)
        \/ LoadDeductions(r)
        \/ ParseNanduScores(r) \/ SaveNanduScore(r)
        \/ DbFails(r)

SelectionSteps ==
    \/ \E rt \in Routines : ResetState(rt)
    \/ ReadDeductions \/ ReadDeductionsFails \/ FillDeductions
    \/ ReadNandusheet \/ ReadNandusheetFails \/ ReadNandu \/ ReadNanduFails \/ ParseRead

Next == PageSteps \/ HandlerSteps \/ SelectionSteps

Spec == Init /\ [][Next]_vars

-----------------------------------------------------------------------------
(* Properties.                                                              *)

Settled == requests = {} /\ selecting.at = "idle" /\ ~disturbed /\ "read" \notin failed

CachedMarks(j) == {deductions[j][i] : i \in DOMAIN deductions[j]}

RecordedMarks(j) ==
    {[id |-> m, code |-> marked[m].code] :
        m \in {n \in DOMAIN marked : Owner[n] = j /\ marked[n].routine = routine}}

Unraced(list) == {x \in list : x.id \notin raced}

\* The score is computed from the cache and reloaded from the table: once the
\* requests are answered both hold the same marks with the same codes, each
\* once, but for a mark whose requests overtook each other.  Requests of several
\* judges may overlap and fail, and one judge's when they do not change the list
\* at once, which the code leaves to chance; what a request beside a selection
\* left behind is gone after the next selection.
CacheIsTheTable ==
    Settled /\ deductions # Nil =>
        \A j \in Judges \ clashed :
            /\ Unraced(CachedMarks(j)) = Unraced(RecordedMarks(j))
            /\ Len(deductions[j]) = Cardinality({x.id : x \in CachedMarks(j)})

\* A judge may submit the nandu again, each time with a new row, and the cache
\* is written before the table: the last result survives the reload, unless its
\* own insert failed or another result of that judge was on its way.
LastNanduSurvives ==
    Settled /\ nanduScores # Nil =>
        \A j \in Judges \ (failed \cup raced) : nanduScores[j] = LastResult(j)

Quiet(m) == m \notin failed \cup raced /\ \A r \in requests : r.about # m

\* The check mark on a judge's page means that the table has the mark, although an
\* update of an unknown mark succeeds as well, and has it with the text beside the
\* check mark, unless the judge typed on while the update was on its way.
CheckMarkIsTrue ==
    \A m \in Marks :
        Quiet(m) /\ page[m].check =>
            m \in DOMAIN marked /\ (m \notin edited => marked[m].code = page[m].text)

\* A mark removed on the page does not come back, whatever was selected
\* meanwhile.
RemovedStaysRemoved ==
    \A m \in Marks : Quiet(m) /\ page[m].at = "removed" => m \notin DOMAIN marked
=============================================================================
