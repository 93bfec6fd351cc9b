------------------------------ MODULE Schedule ------------------------------
(***************************************************************************)
(* The running order of a ring: who is called next.  The head judge's page *)
(* (EventControlPanel, judge.js) walks through a list of the ring's events *)
(* and a list of the event's competitors, which it loads once; the display *)
(* asks the server who is next (findNextTwoCompetitors, routes/api/        *)
(* status.go); an administrator adds and removes competitors and moves     *)
(* events (routes/api/control.go).  The page does not wait for an answer   *)
(* before the next command, and commands arrive in any order.  A handler   *)
(* and its answer are one step here, but for AddCompetitorToEvent, which   *)
(* reads before it inserts; RingServer has the steps of the handlers that  *)
(* change the ring.                                                        *)
(***************************************************************************)
EXTENDS Integers, FiniteSets, Sequences, SequencesExt, FiniteSetsExt, Functions, Sorting

CONSTANTS Events, EventOrder,  \* events; event -> its number in the ring
          Competitors,
          Entries,             \* the rows of routines at the start
          InRing,              \* the events of this ring at the start
          Changes,             \* what the administrator may do
          MaxEdits,            \* bound: what the administrator does
          MaxSent,             \* bound: commands on their way
          None

ASSUME EventsAssumption ==
    InRing \subseteq Events /\ IsFiniteSet(InRing) /\ EventOrder \in [Events -> Nat]
ASSUME EntriesAssumption ==
    /\ Entries \subseteq [event : Events, competitor : Competitors, order : Nat]
    /\ IsFiniteSet(Entries)
ASSUME ChangesAssumption == Changes \subseteq {"add", "remove", "move"} /\ MaxEdits \in Nat /\ MaxSent \in Nat
ASSUME NoneAssumption ==
    /\ None \notin Events /\ None \notin Competitors /\ "panic" \notin Competitors
    /\ None \notin [event : Events, competitor : Competitors, order : Nat]
    /\ None \notin [event : Events, index : Nat]

VARIABLES
    routines,    \* the table
    inRing,      \* events with this ring's ring_id
    event, competitor, routine,   \* RingState
    page,        \* the head judge's page: its lists and the selected indices
    sent,        \* the page's commands that have not been carried out
    adding,      \* AddCompetitorToEvent after its query
    \* history: the rows that were seated; the events that changeEvent was asked
    \* for or that were moved here after the page had listed its events; rows
    \* entered too late for the page; a selection not made by the next button;
    \* a command given while another was on its way
    seated, called, late, byHand, hurried,
    \* an event had no competitor with number 1 when it was selected, or one
    \* was removed after that; the administrator's steps so far
    upset, edits

ring == <<event, competitor, routine>>
history == <<seated, called, late, byHand, hurried, upset, edits>>
vars == <<routines, inRing, ring, page, sent, adding, history>>

-----------------------------------------------------------------------------
(* Queries.                                                                 *)

Row(e, c, n) == [event |-> e, competitor |-> c, order |-> n]

RowsIn(e) == {r \in routines : r.event = e}

\* in the order of event_order
GetCompetitorsInEvent(e) ==
    LET rows == Sorted(SetToSeq(RowsIn(e)), LAMBDA r, s : r.order < s.order)
    IN [i \in DOMAIN rows |-> rows[i].competitor]

GetNthCompetitorInEvent(n, e) ==
    LET rows == {r \in RowsIn(e) : r.order = n}
    IN IF rows = {} THEN None ELSE (CHOOSE r \in rows : TRUE).competitor

GetEventsInRing == Sorted(SetToSeq(inRing), LAMBDA d, e : EventOrder[d] < EventOrder[e])

GetNthEventInRing(n) ==
    LET events == {e \in inRing : EventOrder[e] = n}
    IN IF events = {} THEN None ELSE CHOOSE e \in events : TRUE

\* any of these rows may come first
GetRoutine(e, c) == {r \in RowsIn(e) : r.competitor = c}

-----------------------------------------------------------------------------
(* The display.                                                             *)

Place(e, i) == [event |-> e, index |-> i]

\* mutant: the next event is the one after the ring's, not after the place's
FollowOfRing(p) ==
    LET e == GetNthEventInRing(EventOrder[event] + 1)
    IN IF p.index < Len(GetCompetitorsInEvent(p.event)) THEN Place(p.event, p.index + 1)
       ELSE IF e = None THEN None ELSE Place(e, 1)

\* "at the end of this event, get the next one"
Follow(p) ==
    LET e == GetNthEventInRing(EventOrder[p.event] + 1)
    IN IF p.index < Len(GetCompetitorsInEvent(p.event)) THEN Place(p.event, p.index + 1)
       ELSE IF e = None THEN None ELSE Place(e, 1)

At(p) == IF p = None THEN None
         ELSE IF p.index > Len(GetCompetitorsInEvent(p.event)) THEN "panic"
         ELSE GetCompetitorsInEvent(p.event)[p.index]

\* the index of the current competitor is taken from event_order
findNextTwoCompetitors ==
    LET next    == Follow(Place(event, routine.order))
        prepare == IF At(next) \in {None, "panic"} THEN None ELSE Follow(next)
    IN <<At(next), At(prepare)>>

-----------------------------------------------------------------------------
(* The ring's handlers.                                                     *)

SetCompetitor(e, c) ==
    /\ event' = e /\ competitor' = c
    /\ IF GetRoutine(e, c) = {} THEN UNCHANGED <<routine, seated>>
       ELSE \E r \in GetRoutine(e, c) : routine' = r /\ seated' = seated \cup {r}

\* the event is set before it is known whether it has a first competitor
changeEvent(e) ==
    LET first == GetNthCompetitorInEvent(1, e)
    IN /\ IF first # None THEN SetCompetitor(e, first) /\ UNCHANGED upset
          ELSE event' = e /\ upset' = TRUE /\ UNCHANGED <<competitor, routine, seated>>
       /\ called' = called \cup {e}

-----------------------------------------------------------------------------
(* The head judge's page.                                                   *)

Closed == [at |-> "closed", events |-> <<>>, list |-> <<>>, e |-> 0, c |-> 0, resume |-> None]

Init ==
    /\ routines = Entries /\ inRing = InRing
    /\ event = None /\ competitor = None /\ routine = None
    /\ page = Closed /\ sent = {}
    /\ adding = None
    /\ seated = {} /\ called = {} /\ late = {} /\ byHand = FALSE /\ hurried = FALSE
    /\ upset = FALSE /\ edits = 0

\* A command of the page: "event" and "competitor" go to the ring, "list" asks
\* for the competitors; a "lone" one is the "event" of a page that was left.
Command(kind, e, c) == [kind |-> kind, event |-> e, competitor |-> c]

\* the listener of eventSelect, of compSelect (an empty selection is sent as 0,
\* which names no event and no competitor), and the request for the list
SendEvent(p)      == Command("event", p.events[p.e], None)
SendCompetitor(p) == Command("competitor", p.events[p.e], IF p.c = 0 THEN None ELSE p.list[p.c])
AskForList        == Command("list", None, None)

FirstIn(S) == CHOOSE i \in S : \A j \in S : i <= j

IndexIn(list, x) == IF x \in Range(list) THEN FirstIn({i \in DOMAIN list : list[i] = x}) ELSE 0

\* The judge's next command does not wait for those on their way.
Give(commands) ==
    /\ Cardinality(sent) < MaxSent
    /\ sent' = sent \cup commands
    /\ hurried' = (hurried \/ sent # {})

\* What is left of the commands of a page that is opened again: no answer is used.
Left == {m \in sent : m.kind \in {"competitor", "lone"}}
        \cup {Command("lone", m.event, None) : m \in {n \in sent : n.kind = "event"}}

\* a page that is opened again resumes; the first one selects the first event
Open ==
    /\ GetEventsInRing # <<>> /\ Cardinality(sent) < MaxSent
    /\ page' = [Closed EXCEPT !.at = "open",
                              !.events = GetEventsInRing,
                              !.e = IF event = None THEN 1 ELSE IndexIn(GetEventsInRing, event),
                              !.resume = competitor]
    /\ sent' = Left \cup {IF event = None THEN SendEvent(page') ELSE AskForList}
    /\ hurried' = (hurried \/ sent # {})
    /\ UNCHANGED <<routines, inRing, ring, adding, seated, called, late, byHand, upset, edits>>

SelectEvent ==
    /\ page.at # "closed"
    /\ \E i \in DOMAIN page.events : page' = [page EXCEPT !.at = "open", !.e = i]
    /\ Give({SendEvent(page')})
    /\ byHand' = TRUE
    /\ UNCHANGED <<routines, inRing, ring, adding, seated, called, late, upset, edits>>

SelectCompetitor ==
    /\ page.at # "closed" /\ page.e # 0
    /\ \E i \in DOMAIN page.list : page' = [page EXCEPT !.at = "open", !.c = i]
    /\ Give({SendCompetitor(page')})
    /\ byHand' = TRUE
    /\ UNCHANGED <<routines, inRing, ring, adding, seated, called, late, upset, edits>>

\* an error leaves the page with the old list
PostEvent(m) ==
    /\ m.kind \in {"event", "lone"}
    /\ changeEvent(m.event)
    /\ IF m.kind = "lone" \/ GetNthCompetitorInEvent(1, m.event) = None
       THEN sent' = sent \ {m} /\ page' = page
       ELSE /\ sent' = (sent \ {m}) \cup {AskForList}
            /\ page' = [page EXCEPT !.resume = None]
    /\ UNCHANGED <<routines, inRing, adding, late, byHand, hurried, edits>>

\* the list is that of the ring's event, whatever the page has selected
setCompetitorList(m) ==
    /\ m.kind = "list"
    /\ LET list == GetCompetitorsInEvent(event)
           c    == IF page.resume # None THEN IndexIn(list, page.resume)
                   ELSE IF list = <<>> THEN 0 ELSE 1
       IN page' = [page EXCEPT !.list = list, !.c = c]
    /\ sent' = (sent \ {m}) \cup (IF page.e = 0 THEN {} ELSE {SendCompetitor(page')})
    /\ UNCHANGED <<routines, inRing, ring, adding, history>>

\* the event is set although there is no such competitor
PostCompetitor(m) ==
    /\ m.kind = "competitor"
    /\ IF m.competitor # None THEN SetCompetitor(m.event, m.competitor)
       ELSE event' = m.event /\ UNCHANGED <<competitor, routine, seated>>
    /\ sent' = sent \ {m}
    /\ UNCHANGED <<routines, inRing, page, adding, called, late, byHand, hurried, upset, edits>>

\* mutant: the last competitor of an event is left out
SkipLastCompetitor ==
    /\ page.at = "open"
    /\ IF page.c + 1 < Len(page.list)
       THEN /\ page' = [page EXCEPT !.c = @ + 1]
            /\ Give(IF page.e = 0 THEN {} ELSE {SendCompetitor(page')})
       ELSE IF page.e < Len(page.events)
       THEN page' = [page EXCEPT !.e = @ + 1] /\ Give({SendEvent(page')})
       ELSE page' = [page EXCEPT !.at = "finished"] /\ Give({})
    /\ UNCHANGED <<routines, inRing, ring, adding, seated, called, late, byHand, upset, edits>>

\* The next button, which nothing disables, and the timer after a publication.
selectNextCompetitor ==
    /\ page.at = "open"
    /\ IF page.c < Len(page.list)
       THEN /\ page' = [page EXCEPT !.c = @ + 1]
            /\ Give(IF page.e = 0 THEN {} ELSE {SendCompetitor(page')})
       ELSE IF page.e < Len(page.events)
       THEN page' = [page EXCEPT !.e = @ + 1] /\ Give({SendEvent(page')})
       ELSE page' = [page EXCEPT !.at = "finished"] /\ Give({})
    /\ UNCHANGED <<routines, inRing, ring, adding, seated, called, late, byHand, upset, edits>>

-----------------------------------------------------------------------------
(* The administrator.                                                       *)

Edit(kind) == kind \in Changes /\ edits < MaxEdits /\ edits' = edits + 1

\* mutant: the number of rows is taken for the last number
CountedOrder(e) == Cardinality(RowsIn(e)) + 1

NewOrder(e) == IF RowsIn(e) = {} THEN 1 ELSE Max({r.order : r \in RowsIn(e)}) + 1

AddCompetitorToEvent(c, e) ==
    /\ Edit("add") /\ adding = None
    /\ adding' = Row(e, c, NewOrder(e))
    /\ UNCHANGED <<routines, inRing, ring, page, sent, seated, called, late, byHand, hurried, upset>>

InsertRoutine ==
    /\ adding # None
    /\ routines' = routines \cup {adding} /\ adding' = None
    /\ late' = IF adding.event \in called \/ page.at = "finished" THEN late \cup {adding} ELSE late
    /\ UNCHANGED <<inRing, ring, page, sent, seated, called, byHand, hurried, upset, edits>>

RemoveCompetitorFromEvent(c, e) ==
    /\ Edit("remove") /\ GetRoutine(e, c) # {}
    /\ routines' = routines \ GetRoutine(e, c)
    /\ upset' = (upset \/ e \in called)
    /\ UNCHANGED <<inRing, ring, page, sent, adding, seated, called, late, byHand, hurried>>

\* ChangeEventRing; the number of the event stays
moveEvent(e) ==
    /\ Edit("move")
    /\ inRing' = IF e \in inRing THEN inRing \ {e} ELSE inRing \cup {e}
    /\ IF page = Closed \/ e \in inRing THEN UNCHANGED <<called, late>>
       ELSE called' = called \cup {e} /\ late' = late \cup RowsIn(e)
    /\ UNCHANGED <<routines, ring, page, sent, adding, seated, byHand, hurried, upset>>

Next ==
    \/ Open \/ SelectEvent \/ SelectCompetitor \/ selectNextCompetitor
    \/ \E m \in sent : PostEvent(m) \/ setCompetitorList(m) \/ PostCompetitor(m)
    \/ \E c \in Competitors, e \in Events : AddCompetitorToEvent(c, e)
    \/ InsertRoutine
    \/ \E c \in Competitors, e \in Events : RemoveCompetitorFromEvent(c, e)
    \/ \E e \in Events : moveEvent(e)

Spec == Init /\ [][Next]_vars

-----------------------------------------------------------------------------
(* Properties.                                                              *)

Orders(e) == {r.order : r \in RowsIn(e)}
Numbered(e) == RowsIn(e) # {} /\ Orders(e) = 1..Cardinality(RowsIn(e))

\* the ring's events are numbered without gaps, and so are their competitors
WellNumbered ==
    /\ \A e \in inRing : Numbered(e)
    /\ \A d, e \in inRing : EventOrder[d] = EventOrder[e] => d = e
    /\ \A d, e \in inRing : \A n \in EventOrder[d]..EventOrder[e] :
           \E f \in inRing : EventOrder[f] = n

\* the running order: event by event, and by the numbers of an event's rows
Follows(r, s) ==
    \/ EventOrder[r.event] < EventOrder[s.event]
    \/ r.event = s.event /\ r.order < s.order

NextRow(r) ==
    LET rest == {s \in routines : s.event \in inRing /\ Follows(r, s)}
    IN IF r = None \/ rest = {} THEN None
       ELSE CHOOSE s \in rest : \A t \in rest : t = s \/ Follows(s, t)

Who(r) == IF r = None THEN None ELSE r.competitor

\* The display announces the two who follow in the ring's running order, into
\* the next event and the one after it, whoever was added or moved meanwhile,
\* as long as the numbers have no gaps; and it does not panic.
DisplayFollowsRunningOrder ==
    WellNumbered /\ event \in inRing /\ routine # None /\ routine \in RowsIn(event) =>
        findNextTwoCompetitors = <<Who(NextRow(routine)), Who(NextRow(NextRow(routine)))>>

\* With one administrator at a time the numbers of an event stay distinct,
\* although the last one is read before the insert and rows may go in between.
NumbersAreDistinct ==
    \A r, s \in routines : r.event = s.event /\ r.order = s.order => r = s

\* A competitor who is entered twice in an event is called when one of the two
\* rows is seated.
HasBeenCalled(r) == \E s \in seated : s.event = r.event /\ s.competitor = r.competitor

AllCalled == \A r \in routines : r.event \in inRing => r \in late \/ HasBeenCalled(r)

\* When the page says "Finished!" and every command was carried out, everybody
\* whose entry was there in time has been called: the next button leaves out
\* neither a competitor nor an event, as long as every event has a competitor
\* with number 1 when it is selected and loses none after that, and no command
\* was given while another was on its way.
EveryoneIsCalled ==
    page.at = "finished" /\ sent = {} /\ ~byHand /\ ~upset /\ ~hurried => AllCalled
=============================================================================
