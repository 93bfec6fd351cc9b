------------------------------- MODULE Pages -------------------------------
(***************************************************************************)
(* The pages that follow a ring: the B judges' (app/judge/judge.js) and    *)
(* the public display (app/display/display.js).  A notification carries    *)
(* nothing: a page that receives one asks for the ring's state, and the    *)
(* ring may have changed again before the answer is read, and once more    *)
(* before the page uses it.  Notifications of a socket arrive in order,    *)
(* answers do not; a notification sent while a page's socket is closed is  *)
(* lost, and the page that reconnects registers but does not ask.          *)
(*                                                                         *)
(* The ring works on one event, and a competitor's routine in it bears the *)
(* competitor's name.  A status or an information is read in one step.     *)
(***************************************************************************)
EXTENDS Naturals, Sequences, SequencesExt

CONSTANTS Competitors,
          Judges, Displays,
          Opened,      \* the sets of pages that may be open
          Nobody,
          MaxCommands, \* bound: commands of the head judge, the administrator
          MaxFaults,   \* bound: failures and losses
          MaxTimers    \* bound: timers of a display when it polls

ASSUME PagesAssumption ==
    /\ Nobody \notin Competitors
    /\ Judges \cap Displays = {} /\ Opened \subseteq SUBSET (Judges \cup Displays)
    /\ {MaxCommands, MaxFaults, MaxTimers} \subseteq Nat

VARIABLES
    competitor, routine, \* RingState's; a change assigns them one by one
    finals,      \* the routines whose row has a final score other than 0.00
    request,     \* how far the head judge's request is
    commands, faults,
    polling,     \* the setting "poll"
    open,        \* the pages that are open
    online,      \* those whose socket is registered
    inbox,       \* page -> notifications sent to it, in order: "competitor",
                 \* "final", "live", "last"
    asked,       \* page -> kind -> requests not read yet
    answers,     \* page -> answers not used yet, in the order they were read
    cached,      \* judge -> the page's cache.routineId
    shown,       \* display -> currentCompetitorId, currentRoutineId, lastRoutine,
                 \* timedScoreDisplay, and whether an older scorecard is shown
    timers,      \* display -> timers of scorecards that run
    \* What happened to a page, for the properties:
    lost,        \* a notification or an answer, since it last asked
    overtaken,   \* an answer was used after one read later, likewise
    stranded     \* a display was told of a score and started no timer

ring == <<competitor, routine, finals, request, commands>>
page == <<inbox, asked, answers, cached, shown, timers>>
ghosts == <<lost, overtaken, stranded>>
settled == <<polling, open>>
vars == <<ring, page, ghosts, faults, settled, online>>

Clients == Judges \cup Displays
Kinds == {"status", "info", "scores", "final"}

-----------------------------------------------------------------------------
(* The requests of a page. *)

\* The request that tells a page whom the ring is busy with.
NameKind(p) == IF p \in Judges THEN "status" ELSE "info"

NamesInFlight(p) ==
    asked[p][NameKind(p)] > 0
        \/ \E i \in DOMAIN answers[p] : answers[p][i].kind = NameKind(p)

Nothing(p) ==
    /\ \A k \in Kinds : asked[p][k] = 0
    /\ answers[p] = <<>>

Ask(p, k) == asked' = [asked EXCEPT ![p][k] = @ + 1]

\* updateEventInfo, setInfo.
AskName(p) ==
    /\ Ask(p, NameKind(p))
    /\ lost' = [lost EXCEPT ![p] = FALSE]
    /\ overtaken' = [overtaken EXCEPT ![p] = @ /\ NamesInFlight(p)]

\* ringStatus, displayInfo and getScores, when they look at the ring.  A
\* routine with a final score has scores, without which it is not sent.
Read(k) == [kind |-> k, competitor |-> competitor, routine |-> routine,
            final |-> routine \in finals]

Serve(p, k) ==
    /\ asked[p][k] > 0
    /\ asked' = [asked EXCEPT ![p][k] = @ - 1]
    /\ answers' = [answers EXCEPT ![p] = Append(@, Read(k))]
    /\ UNCHANGED <<ring, ghosts, faults, settled, online, inbox, cached, shown,
                   timers>>

-----------------------------------------------------------------------------
(* The server: one request of the head judge at a time.                    *)

\* A page's socket drops what it does not react to, which is left out here.
Reacts(p, n) == p \in Displays \/ n = "competitor"

Broadcast(n) ==
    /\ inbox' = [p \in Clients |-> IF p \in online /\ Reacts(p, n)
                                   THEN Append(inbox[p], n) ELSE inbox[p]]
    /\ lost' = [p \in Clients |-> lost[p] \/ (p \in open \ online /\ Reacts(p, n))]
    /\ UNCHANGED <<faults, settled, online, asked, answers, cached, shown,
                   timers, overtaken, stranded>>

Command ==
    /\ commands < MaxCommands
    /\ commands' = commands + 1

\* changeCompetitor, up to the query of SetCompetitor.
Change(c) ==
    /\ request = "none" /\ Command
    /\ competitor' = c
    /\ request' = "seat"
    /\ UNCHANGED <<routine, finals, page, ghosts, faults, settled, online>>

\* The rest of SetCompetitor: without a routine it returns early, which
\* changeCompetitor does not notice.
SetCompetitor ==
    /\ request = "seat"
    /\ \/ routine' = competitor /\ UNCHANGED faults
       \/ faults < MaxFaults /\ faults' = faults + 1 /\ UNCHANGED routine
    /\ request' = "competitor"
    /\ UNCHANGED <<competitor, finals, commands, page, ghosts, settled, online>>

\* FinalizeScore saves under the competitor a score that may be 0.00, or
\* fails; finalizeScore goes on in any case.
FinalizeScore ==
    /\ request = "none" /\ Command
    /\ finals' \in {finals \cup {competitor}, finals \ {competitor}, finals}
    /\ request' = "final"
    /\ UNCHANGED <<competitor, routine, page, ghosts, faults, settled, online>>

Tell ==
    /\ request \in {"competitor", "final"}
    /\ Broadcast(request)
    /\ request' = "none"
    /\ UNCHANGED <<competitor, routine, finals, commands>>

\* The administrator's buttons, which the server passes on.
Button(n) ==
    /\ Command
    /\ Broadcast(n)
    /\ UNCHANGED <<competitor, routine, finals, request>>

-----------------------------------------------------------------------------
(* The pages. *)

Idle == UNCHANGED <<asked, answers, shown, lost, overtaken>>

\* mutant: no other request while one is under way
AskOnce(p) ==
    IF (p \in Displays /\ shown[p].timed) \/ NamesInFlight(p)
    THEN Idle
    ELSE AskName(p) /\ UNCHANGED <<answers, shown>>

OnCompetitor(p) ==
    IF p \in Displays /\ shown[p].timed
    THEN Idle
    ELSE AskName(p) /\ UNCHANGED <<answers, shown>>

OnFinal(p) ==
    /\ Ask(p, "final")
    /\ shown' = [shown EXCEPT ![p].timed = TRUE]
    /\ UNCHANGED <<answers, lost, overtaken>>

\* showScorecard: what get-routine answers does not depend on the ring, and
\* without an earlier routine the request is refused.
OnLast(p) ==
    IF shown[p].last = Nobody
    THEN Idle
    ELSE /\ answers' = [answers EXCEPT ![p] =
                Append(@, [kind |-> "card", competitor |-> shown[p].last,
                           routine |-> shown[p].last, final |-> TRUE])]
         /\ UNCHANGED <<asked, shown, lost, overtaken>>

OnMessage(p) ==
    /\ inbox[p] # <<>>
    /\ inbox' = [inbox EXCEPT ![p] = Tail(@)]
    /\ CASE Head(inbox[p]) = "competitor" -> OnCompetitor(p)
         [] Head(inbox[p]) = "final" -> OnFinal(p)
         [] Head(inbox[p]) = "live" -> AskName(p) /\ UNCHANGED <<answers, shown>>
         [] Head(inbox[p]) = "last" -> OnLast(p)
    /\ UNCHANGED <<ring, faults, settled, online, cached, timers, stranded>>

\* onGetCurrentStatusReady.
OnStatus(j, a) ==
    /\ cached' = [cached EXCEPT ![j] = a.routine]
    /\ UNCHANGED <<asked, shown, timers, stranded>>

\* The callback of setInfo: other names if the competitor is another one,
\* and the scores in any case.
OnInfo(d, a) ==
    /\ shown' = IF shown[d].competitor = a.competitor THEN shown
                ELSE [shown EXCEPT ![d] =
                        [competitor |-> a.competitor, routine |-> a.routine,
                         last |-> @.routine, timed |-> @.timed, card |-> FALSE]]
    /\ Ask(d, "scores")
    /\ UNCHANGED <<cached, timers, stranded>>

\* displayScoresMode throws while the ruleset is undefined, which the first
\* information brings along with the competitor.
Displayed(d, a) == a.final /\ shown[d].competitor # Nobody

\* The callback of getFinalScore: only a final score that could be displayed
\* starts a timer.
OnScores(d, a) ==
    /\ timers' = IF Displayed(d, a) THEN [timers EXCEPT ![d] = @ + 1] ELSE timers
    /\ stranded' = [stranded EXCEPT ![d] = @ \/ (a.kind = "final" /\ ~Displayed(d, a))]
    /\ UNCHANGED <<asked, cached, shown>>

OnCard(d, a) ==
    /\ shown' = [shown EXCEPT ![d].competitor = a.competitor,
                              ![d].routine = a.routine, ![d].card = TRUE]
    /\ UNCHANGED <<asked, cached, timers, stranded>>

OnAnswer(p) ==
    \E i \in DOMAIN answers[p] :
        LET a == answers[p][i] IN
        /\ answers' = [answers EXCEPT ![p] = RemoveAt(@, i)]
        /\ overtaken' = [overtaken EXCEPT ![p] = @ \/
               /\ a.kind = NameKind(p)
               /\ \E j \in 1 .. i - 1 : answers[p][j].kind = a.kind]
        /\ CASE a.kind = "status" -> OnStatus(p, a)
             [] a.kind = "info" -> OnInfo(p, a)
             [] a.kind = "card" -> OnCard(p, a)
             [] a.kind \in {"scores", "final"} -> OnScores(p, a)
        /\ UNCHANGED <<ring, faults, settled, online, inbox, lost>>

\* mutant: the timer only looks for other names
TimerKeepsFlag(d) ==
    /\ timers[d] > 0
    /\ timers' = [timers EXCEPT ![d] = @ - 1]
    /\ AskName(d)
    /\ UNCHANGED <<ring, faults, settled, online, inbox, answers, cached, shown,
                   stranded>>

\* The end of scoreDisplayInterval.
Timer(d) ==
    /\ timers[d] > 0
    /\ timers' = [timers EXCEPT ![d] = @ - 1]
    /\ shown' = [shown EXCEPT ![d].timed = FALSE]
    /\ stranded' = [stranded EXCEPT ![d] = FALSE]
    /\ AskName(d)
    /\ UNCHANGED <<ring, faults, settled, online, inbox, answers, cached>>

\* mutant: a poll respects the timed scorecard, as a notification does
PollUnlessTimed(p) ==
    /\ polling /\ p \in open
    /\ Nothing(p)
    /\ p \in Displays => timers[p] < MaxTimers /\ ~shown[p].timed
    /\ AskName(p)
    /\ UNCHANGED <<ring, faults, settled, online, inbox, answers, cached, shown,
                   timers, stranded>>

\* The fallback: pollMode, cfg.poll.enabled.  Bound: one poll at a time.
Poll(p) ==
    /\ polling /\ p \in open
    /\ Nothing(p) /\ (p \in Displays => timers[p] < MaxTimers)
    /\ AskName(p)
    /\ UNCHANGED <<ring, faults, settled, online, inbox, answers, cached, shown,
                   timers, stranded>>

-----------------------------------------------------------------------------
(* What can go wrong. *)

Fault == faults < MaxFaults /\ faults' = faults + 1

\* A request fails or its answer is lost: no callback is called.
LoseAnswer(p) ==
    /\ Fault
    /\ \E i \in DOMAIN answers[p] :
        /\ answers' = [answers EXCEPT ![p] = RemoveAt(@, i)]
        /\ stranded' = [d \in Displays |->
               stranded[d] \/ (d = p /\ answers[p][i].kind = "final")]
    /\ lost' = [lost EXCEPT ![p] = TRUE]
    /\ UNCHANGED <<ring, settled, online, inbox, asked, cached, shown, timers,
                   overtaken>>

\* The socket closes, with what was on its way.
Close(p) ==
    /\ p \in online /\ Fault
    /\ online' = online \ {p}
    /\ inbox' = [inbox EXCEPT ![p] = <<>>]
    /\ lost' = [lost EXCEPT ![p] = @ \/ inbox[p] # <<>>]
    /\ UNCHANGED <<ring, settled, asked, answers, cached, shown, timers,
                   overtaken, stranded>>

\* keepAlive connects again, and onopen registers.
Reconnect(p) ==
    /\ p \in open \ online
    /\ online' = online \cup {p}
    /\ UNCHANGED <<ring, page, ghosts, faults, settled>>

-----------------------------------------------------------------------------
\* The pages have just been opened: each asks once.
Init ==
    /\ competitor \in Competitors /\ routine = competitor
    /\ finals = {} /\ request = "none"
    /\ commands = 0 /\ faults = 0
    /\ polling \in BOOLEAN
    /\ open \in Opened /\ online = open
    /\ inbox = [p \in Clients |-> <<>>]
    /\ asked = [p \in Clients |-> [k \in Kinds |-> IF p \in open /\ k = NameKind(p)
                                                THEN 1 ELSE 0]]
    /\ answers = [p \in Clients |-> <<>>]
    /\ cached = [j \in Judges |-> Nobody]
    /\ shown = [d \in Displays |->
                  [competitor |-> Nobody, routine |-> Nobody, last |-> Nobody,
                   timed |-> FALSE, card |-> FALSE]]
    /\ timers = [d \in Displays |-> 0]
    /\ lost = [p \in Clients |-> FALSE] /\ overtaken = [p \in Clients |-> FALSE]
    /\ stranded = [d \in Displays |-> FALSE]

Server == SetCompetitor \/ Tell

Next ==
    \/ \E c \in Competitors : Change(c)
    \/ FinalizeScore
    \/ \E n \in {"live", "last"} : Button(n)
    \/ Server
    \/ \E p \in Clients, k \in Kinds : Serve(p, k)
    \/ \E p \in Clients : OnMessage(p) \/ OnAnswer(p)
    \/ \E d \in Displays : Timer(d)
    \/ \E p \in Clients : Poll(p) \/ LoseAnswer(p) \/ Close(p) \/ Reconnect(p)

\* The server ends its requests, a browser calls its callbacks and timers and
\* connects again.  Nobody has to press a button, nor has anything to fail.
Fairness ==
    /\ WF_vars(Server)
    /\ \A p \in Clients :
        /\ \A k \in Kinds : WF_vars(Serve(p, k))
        /\ WF_vars(OnMessage(p)) /\ WF_vars(OnAnswer(p))
        /\ WF_vars(Poll(p)) /\ WF_vars(Reconnect(p))
    /\ \A d \in Displays : WF_vars(Timer(d))

Spec == Init /\ [][Next]_vars
FairSpec == Spec /\ Fairness

-----------------------------------------------------------------------------
(* Properties. *)

\* The page is busy with the competitor the ring is busy with.
Current(p) == IF p \in Judges THEN cached[p] = routine
              ELSE shown[p].competitor = competitor

Missed(p) ==
    \/ lost[p] \/ overtaken[p]
    \/ p \in Displays /\ (stranded[p] \/ shown[p].card)

\* Without polling: once the head judge stops, every judge's page scores the
\* ring's routine and every display shows the ring's competitor, although a
\* notification is handled after the ring has changed again and a display
\* ignores it while a scorecard is timed.  What the code does not make good:
\* a notification or an answer lost, answers used in the wrong order, a
\* published score that could not be displayed (there was none, or the display
\* had no information yet), an older scorecard asked for.
PagesCatchUp == \A p \in Clients : p \in open => <>[](Current(p) \/ Missed(p))

\* The half of that which needs no fairness: a page to which nothing is on its
\* way any more, no notification, request, answer or timer, is not left with a
\* competitor the ring has left.
Quiet(p) ==
    /\ request \in {"none", "final"}
    /\ inbox[p] = <<>> /\ Nothing(p) /\ (p \in Displays => timers[p] = 0)

QuietIsCurrent == \A p \in open : Quiet(p) => Current(p) \/ Missed(p)

\* With polling nothing of that lasts: whatever was lost, overtaken, held
\* back or left standing, each page ends with the ring's competitor.
PollingRepairs ==
    \A p \in Clients : polling /\ p \in open => <>[]Current(p)

ScorecardTimed(d) ==
    \/ timers[d] > 0 \/ asked[d]["final"] > 0
    \/ \E i \in DOMAIN answers[d] : answers[d][i].kind = "final"

\* display.js:29 says when the name changes: when the competitor has been
\* selected and a timed scorecard is not being shown (nor asked for).
NameChangesUnlessTimed ==
    [][\A d \in Displays :
          /\ inbox[d] # <<>> /\ Head(inbox[d]) = "competitor"
          /\ inbox'[d] = Tail(inbox[d]) /\ d \in online'
          /\ ~ScorecardTimed(d)
          => asked'[d]["info"] > asked[d]["info"]]_vars
=============================================================================
