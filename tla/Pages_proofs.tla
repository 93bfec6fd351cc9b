---------------------------- MODULE Pages_proofs ----------------------------
(***************************************************************************)
(* The pages, for any number of them, any commands and any losses: a page  *)
(* to which nothing is on its way any more has the ring's competitor, but  *)
(* in the cases that Missed names.                                         *)
(***************************************************************************)
EXTENDS Pages, Lists_proofs

-----------------------------------------------------------------------------
(* Types.  A judge's page is sent nothing but "competitor".                 *)

Names == Competitors \cup {Nobody}
Answer == [kind : Kinds \cup {"card"}, competitor : Names, routine : Names, final : BOOLEAN]
Display == [competitor : Names, routine : Names, last : Names, timed : BOOLEAN, card : BOOLEAN]

RingTypes ==
    /\ competitor \in Competitors /\ routine \in Competitors
    /\ request \in {"none", "seat", "competitor", "final"}
    /\ open \subseteq Clients /\ online \subseteq open

PageTypes ==
    /\ inbox \in [Clients -> Seq({"competitor", "final", "live", "last"})]
    /\ \A j \in Judges : inbox[j] \in Seq({"competitor"})
    /\ asked \in [Clients -> [Kinds -> Nat]]
    /\ answers \in [Clients -> Seq(Answer)]
    /\ cached \in [Judges -> Names]
    /\ shown \in [Displays -> Display]
    /\ timers \in [Displays -> Nat]

GhostTypes ==
    /\ lost \in [Clients -> BOOLEAN] /\ overtaken \in [Clients -> BOOLEAN]
    /\ stranded \in [Displays -> BOOLEAN]

Types == RingTypes /\ PageTypes /\ GhostTypes

\* A page asks one kind of request for the competitor.
LEMMA NamesOfPages == \A p \in Clients : NameKind(p) \in Kinds
BY DEF NameKind, Kinds

\* The pages that have just been opened have these types.
LEMMA InitTypes == Init => Types
<1> SUFFICES ASSUME Init PROVE Types
  OBVIOUS
<1>1. RingTypes
  BY PagesAssumption DEF Init, RingTypes, Clients
<1>2. \A p \in Clients : [k \in Kinds |-> IF p \in open /\ k = NameKind(p) THEN 1 ELSE 0] \in [Kinds -> Nat]
  OBVIOUS
<1>3. [competitor |-> Nobody, routine |-> Nobody, last |-> Nobody, timed |-> FALSE, card |-> FALSE] \in Display
  BY DEF Display, Names
<1>4. PageTypes
  <2>1. inbox = [p \in Clients |-> <<>>] /\ \A j \in Judges : j \in Clients
    BY DEF Init, Clients
  <2>2. asked \in [Clients -> [Kinds -> Nat]]
    BY <1>2 DEF Init
  <2>3. answers \in [Clients -> Seq(Answer)]
    BY DEF Init
  <2>4. cached \in [Judges -> Names] /\ shown \in [Displays -> Display] /\ timers \in [Displays -> Nat]
    BY <1>3 DEF Init, Names
  <2> QED BY <2>1, <2>2, <2>3, <2>4 DEF PageTypes
<1>5. GhostTypes
  BY DEF Init, GhostTypes
<1> QED BY <1>1, <1>4, <1>5 DEF Types

\* A request more,
LEMMA AskedTypes ==
    ASSUME Types, NEW p \in Clients, NEW k \in Kinds, Ask(p, k)
    PROVE  asked' \in [Clients -> [Kinds -> Nat]]
BY DEF Ask, Types, PageTypes

\* and one for the competitor, with what it makes good.
LEMMA NameAskedTypes ==
    ASSUME Types, NEW p \in Clients, AskName(p)
    PROVE  /\ asked' \in [Clients -> [Kinds -> Nat]]
           /\ lost' \in [Clients -> BOOLEAN] /\ overtaken' \in [Clients -> BOOLEAN]
<1>1. asked' \in [Clients -> [Kinds -> Nat]]
  BY AskedTypes, NamesOfPages DEF AskName
<1>2. (overtaken[p] /\ NamesInFlight(p)) \in BOOLEAN
  BY DEF Types, GhostTypes, NamesInFlight
<1>3. lost' \in [Clients -> BOOLEAN] /\ overtaken' \in [Clients -> BOOLEAN]
  BY <1>2 DEF AskName, Types, GhostTypes
<1> QED BY <1>1, <1>3

\* The steps of the server, of which a broadcast is part.
LEMMA BroadcastTypes ==
    ASSUME Types, NEW n \in {"competitor", "final", "live", "last"}, Broadcast(n)
    PROVE  PageTypes' /\ GhostTypes' /\ online' = online /\ open' = open
<1>1. \A p \in Clients : Append(inbox[p], n) \in Seq({"competitor", "final", "live", "last"})
  BY DEF Types, PageTypes
<1>2. inbox' \in [Clients -> Seq({"competitor", "final", "live", "last"})]
  BY <1>1 DEF Types, PageTypes, Broadcast
<1>3. ASSUME NEW j \in Judges PROVE inbox'[j] \in Seq({"competitor"})
  <2>1. j \in Clients /\ j \notin Displays /\ inbox[j] \in Seq({"competitor"})
    BY PagesAssumption DEF Clients, Types, PageTypes
  <2>2. inbox'[j] = inbox[j] \/ (n = "competitor" /\ inbox'[j] = Append(inbox[j], n))
    BY <2>1 DEF Broadcast, Reacts
  <2> QED BY <2>1, <2>2
<1>4. \A p \in Clients : (lost[p] \/ (p \in open \ online /\ Reacts(p, n))) \in BOOLEAN
  BY DEF Types, GhostTypes
<1>5. lost' \in [Clients -> BOOLEAN]
  BY <1>4 DEF Broadcast
<1> QED BY <1>2, <1>3, <1>5 DEF Broadcast, settled, Types, PageTypes, GhostTypes

\* All of the server's steps keep the types.
LEMMA ServerTypes ==
    ASSUME Types,
           \/ \E c \in Competitors : Change(c)
           \/ FinalizeScore \/ SetCompetitor \/ Tell
           \/ \E n \in {"live", "last"} : Button(n)
    PROVE  Types'
<1>1. ASSUME NEW c \in Competitors, Change(c) PROVE Types'
  BY <1>1 DEF Change, Command, page, ghosts, settled, Types, RingTypes, PageTypes, GhostTypes
<1>2. CASE FinalizeScore
  BY <1>2 DEF FinalizeScore, Command, page, ghosts, settled, Types, RingTypes, PageTypes, GhostTypes
<1>3. CASE SetCompetitor
  BY <1>3 DEF SetCompetitor, page, ghosts, settled, Types, RingTypes, PageTypes, GhostTypes
<1>4. CASE Tell
  <2>1. Broadcast(request) /\ request \in {"competitor", "final", "live", "last"}
    BY <1>4 DEF Tell
  <2> QED BY <1>4, <2>1, BroadcastTypes DEF Tell, Types, RingTypes
<1>5. ASSUME NEW n \in {"live", "last"}, Button(n) PROVE Types'
  BY <1>5, BroadcastTypes DEF Button, Types, RingTypes
<1> QED BY <1>1, <1>2, <1>3, <1>4, <1>5

\* The steps of a page.
LEMMA ServeTypes == ASSUME Types, NEW p \in Clients, NEW k \in Kinds, Serve(p, k) PROVE Types'
<1>1. Read(k) \in Answer
  BY DEF Read, Answer, Names, Types, RingTypes
<1>2. asked' \in [Clients -> [Kinds -> Nat]]
  BY DEF Serve, Types, PageTypes
<1>3. answers' \in [Clients -> Seq(Answer)]
  <2>1. Append(answers[p], Read(k)) \in Seq(Answer)
    BY <1>1 DEF Types, PageTypes
  <2> QED BY <2>1 DEF Serve, Types, PageTypes
<1> QED BY <1>2, <1>3 DEF Serve, ring, ghosts, settled, Types, RingTypes, PageTypes, GhostTypes

\* A notification is one of the four, and for a judge the first.
LEMMA MessageTypes == ASSUME Types, NEW p \in Clients, OnMessage(p) PROVE Types'
<1> DEFINE n == Head(inbox[p])
<1>1. /\ inbox[p] \in Seq({"competitor", "final", "live", "last"}) /\ inbox[p] # <<>>
      /\ n \in {"competitor", "final", "live", "last"}
      /\ p \in Judges => inbox[p] \in Seq({"competitor"}) /\ n = "competitor"
  BY DEF OnMessage, Types, PageTypes
<1>2. /\ inbox' \in [Clients -> Seq({"competitor", "final", "live", "last"})]
      /\ \A j \in Judges : inbox'[j] \in Seq({"competitor"})
  <2>1. Tail(inbox[p]) \in Seq({"competitor", "final", "live", "last"})
    BY <1>1
  <2>2. p \in Judges => Tail(inbox[p]) \in Seq({"competitor"})
    BY <1>1
  <2>3. inbox' = [inbox EXCEPT ![p] = Tail(@)]
    BY DEF OnMessage
  <2> QED BY <2>1, <2>2, <2>3 DEF Types, PageTypes, Clients
<1> HIDE DEF n
<1>3. RingTypes' /\ timers' = timers /\ cached' = cached /\ stranded' = stranded
  BY DEF OnMessage, ring, settled, Types, RingTypes
<1>4. /\ asked' \in [Clients -> [Kinds -> Nat]] /\ answers' \in [Clients -> Seq(Answer)]
      /\ shown' \in [Displays -> Display]
      /\ lost' \in [Clients -> BOOLEAN] /\ overtaken' \in [Clients -> BOOLEAN]
  <2>1. CASE Idle
    BY <2>1 DEF Idle, Types, PageTypes, GhostTypes
  <2>2. CASE AskName(p) /\ UNCHANGED <<answers, shown>>
    BY <2>2, NameAskedTypes DEF Types, PageTypes
  <2>3. CASE OnFinal(p)
    <3>1. asked' \in [Clients -> [Kinds -> Nat]]
      BY <2>3, AskedTypes DEF OnFinal, Kinds
    <3>2. shown' \in [Displays -> Display]
      BY <2>3 DEF OnFinal, Types, PageTypes, Display
    <3> QED BY <2>3, <3>1, <3>2 DEF OnFinal, Types, PageTypes, GhostTypes
  <2>4. CASE n = "last" /\ OnLast(p)
    <3>1. p \in Displays
      BY <1>1, <2>4 DEF Clients
    <3>2. [kind |-> "card", competitor |-> shown[p].last, routine |-> shown[p].last, final |-> TRUE] \in Answer
      BY <3>1 DEF Types, PageTypes, Display, Answer
    <3> DEFINE card == [kind |-> "card", competitor |-> shown[p].last, routine |-> shown[p].last, final |-> TRUE]
    <3>3. Append(answers[p], card) \in Seq(Answer)
      BY <3>2 DEF Types, PageTypes
    <3>4. Idle \/ (answers' = [answers EXCEPT ![p] = Append(@, card)] /\ UNCHANGED <<asked, shown, lost, overtaken>>)
      BY <2>4 DEF OnLast
    <3> HIDE DEF card
    <3> QED BY <2>1, <3>3, <3>4 DEF Types, PageTypes, GhostTypes
  <2> QED BY <1>1, <2>1, <2>2, <2>3, <2>4 DEF OnMessage, OnCompetitor, n
<1> QED BY <1>2, <1>3, <1>4 DEF Types, PageTypes, GhostTypes

\* An answer that is used is taken out.
LEMMA AnswerTypes == ASSUME Types, NEW p \in Clients, OnAnswer(p) PROVE Types'
<1>1. PICK i \in DOMAIN answers[p] :
        LET a == answers[p][i] IN
        /\ answers' = [answers EXCEPT ![p] = RemoveAt(@, i)]
        /\ overtaken' = [overtaken EXCEPT ![p] = @ \/
               /\ a.kind = NameKind(p)
               /\ \E j \in 1 .. i - 1 : answers[p][j].kind = a.kind]
        /\ CASE a.kind = "status" -> OnStatus(p, a)
             [] a.kind = "info" -> OnInfo(p, a)
             [] a.kind = "card" -> OnCard(p, a)
             [] a.kind \in {"scores", "final"} -> OnScores(p, a)
        /\ UNCHANGED <<ring, faults, settled, online, inbox, lost>>
  BY DEF OnAnswer
<1> DEFINE a == answers[p][i]
<1>2. answers[p] \in Seq(Answer) /\ i \in 1..Len(answers[p]) /\ a \in Answer
  BY DEF Types, PageTypes
<1>3. answers' \in [Clients -> Seq(Answer)]
  <2>1. RemoveAt(answers[p], i) \in Seq(Answer)
    BY <1>2, RowRemoved
  <2> QED BY <1>1, <2>1 DEF Types, PageTypes
<1>4. overtaken' \in [Clients -> BOOLEAN] /\ lost' \in [Clients -> BOOLEAN]
  <2> DEFINE b == a.kind = NameKind(p) /\ \E j \in 1 .. i - 1 : answers[p][j].kind = a.kind
  <2>1. overtaken' = [overtaken EXCEPT ![p] = @ \/ b]
    BY <1>1
  <2>2. b \in BOOLEAN
    OBVIOUS
  <2> HIDE DEF b
  <2>3. (overtaken[p] \/ b) \in BOOLEAN
    BY <2>2
  <2>4. overtaken' \in [Clients -> BOOLEAN]
    BY <2>1, <2>3 DEF Types, GhostTypes
  <2> QED BY <1>1, <2>4 DEF Types, GhostTypes
<1>5. RingTypes' /\ inbox' = inbox
  BY <1>1 DEF ring, settled, Types, RingTypes
<1>6. \/ a.kind = "status" /\ OnStatus(p, a)
      \/ a.kind = "info" /\ OnInfo(p, a)
      \/ a.kind = "card" /\ OnCard(p, a)
      \/ a.kind \in {"scores", "final"} /\ OnScores(p, a)
  BY <1>1, <1>2 DEF Answer, Kinds
<1> HIDE DEF a
<1>7. /\ asked' \in [Clients -> [Kinds -> Nat]] /\ cached' \in [Judges -> Names]
      /\ shown' \in [Displays -> Display] /\ timers' \in [Displays -> Nat]
      /\ stranded' \in [Displays -> BOOLEAN]
  <2>0. a.competitor \in Names /\ a.routine \in Names /\ a.final \in BOOLEAN
    BY <1>2 DEF Answer
  <2>1. CASE OnStatus(p, a)
    BY <2>0, <2>1 DEF OnStatus, Types, PageTypes, GhostTypes
  <2>2. CASE OnInfo(p, a)
    <3>1. asked' \in [Clients -> [Kinds -> Nat]]
      BY <2>2, AskedTypes DEF OnInfo, Kinds
    <3>2. shown' \in [Displays -> Display]
      BY <2>0, <2>2 DEF OnInfo, Types, PageTypes, Display
    <3> QED BY <2>2, <3>1, <3>2 DEF OnInfo, Types, PageTypes, GhostTypes
  <2>3. CASE OnCard(p, a)
    <3>1. shown' \in [Displays -> Display]
      BY <2>0, <2>3 DEF OnCard, Types, PageTypes, Display
    <3> QED BY <2>3, <3>1 DEF OnCard, Types, PageTypes, GhostTypes
  <2>4. CASE OnScores(p, a)
    <3>1. timers' \in [Displays -> Nat]
      <4>1. timers' = [timers EXCEPT ![p] = @ + 1] \/ timers' = timers
        BY <2>4 DEF OnScores
      <4>2. timers \in [Displays -> Nat] /\ \A d \in Displays : timers[d] + 1 \in Nat
        BY DEF Types, PageTypes
      <4> QED BY ONLY <4>1, <4>2
    <3>2. (stranded[p] \/ (a.kind = "final" /\ ~Displayed(p, a))) \in BOOLEAN
      OBVIOUS
    <3>3. stranded' \in [Displays -> BOOLEAN]
      BY <2>4, <3>2 DEF OnScores, Types, GhostTypes
    <3> QED BY <2>4, <3>1, <3>3 DEF OnScores, Types, PageTypes
  <2> QED BY <1>6, <2>1, <2>2, <2>3, <2>4
<1> QED BY <1>3, <1>4, <1>5, <1>7 DEF Types, PageTypes, GhostTypes

\* A timer that ends was counted.
LEMMA TimerTypes == ASSUME Types, NEW d \in Displays, Timer(d) PROVE Types'
<1>1. d \in Clients
  BY DEF Clients
<1>2. /\ asked' \in [Clients -> [Kinds -> Nat]]
      /\ lost' \in [Clients -> BOOLEAN] /\ overtaken' \in [Clients -> BOOLEAN]
  BY <1>1, NameAskedTypes DEF Timer
<1>3. timers' \in [Displays -> Nat] /\ stranded' \in [Displays -> BOOLEAN]
  BY DEF Timer, Types, PageTypes, GhostTypes
<1>4. shown' \in [Displays -> Display]
  BY DEF Timer, Types, PageTypes, Display
<1> QED BY <1>2, <1>3, <1>4 DEF Timer, ring, settled, Types, RingTypes, PageTypes, GhostTypes

\* A poll asks.
LEMMA PollTypes == ASSUME Types, NEW p \in Clients, Poll(p) PROVE Types'
BY NameAskedTypes DEF Poll, ring, settled, Types, RingTypes, PageTypes, GhostTypes

\* What goes wrong.
LEMMA FaultTypes ==
    ASSUME Types, NEW p \in Clients, LoseAnswer(p) \/ Close(p) \/ Reconnect(p) PROVE Types'
<1>1. CASE LoseAnswer(p)
  <2>1. PICK i \in DOMAIN answers[p] :
          /\ answers' = [answers EXCEPT ![p] = RemoveAt(@, i)]
          /\ stranded' = [d \in Displays |-> stranded[d] \/ (d = p /\ answers[p][i].kind = "final")]
    BY <1>1 DEF LoseAnswer
  <2>2. answers[p] \in Seq(Answer) /\ i \in 1..Len(answers[p])
    BY DEF Types, PageTypes
  <2>3. RemoveAt(answers[p], i) \in Seq(Answer)
    BY <2>2, RowRemoved
  <2>4. answers' \in [Clients -> Seq(Answer)]
    BY <2>1, <2>3 DEF Types, PageTypes
  <2>5. \A d \in Displays : (stranded[d] \/ (d = p /\ answers[p][i].kind = "final")) \in BOOLEAN
    OBVIOUS
  <2>6. stranded' \in [Displays -> BOOLEAN]
    BY <2>1, <2>5
  <2> QED BY <1>1, <2>4, <2>6 DEF LoseAnswer, ring, settled, Types, RingTypes, PageTypes, GhostTypes
<1>2. CASE Close(p)
  <2>1. (lost[p] \/ inbox[p] # <<>>) \in BOOLEAN
    OBVIOUS
  <2>2. lost' \in [Clients -> BOOLEAN]
    BY <1>2, <2>1 DEF Close, Types, GhostTypes
  <2>3. <<>> \in Seq({"competitor", "final", "live", "last"}) /\ <<>> \in Seq({"competitor"})
    OBVIOUS
  <2>4. /\ inbox' \in [Clients -> Seq({"competitor", "final", "live", "last"})]
        /\ \A j \in Judges : inbox'[j] \in Seq({"competitor"})
    BY <1>2, <2>3 DEF Close, Types, PageTypes, Clients
  <2> QED BY <1>2, <2>2, <2>4 DEF Close, ring, settled, Types, RingTypes, PageTypes, GhostTypes
<1>3. CASE Reconnect(p)
  BY <1>3 DEF Reconnect, ring, page, ghosts, settled, Types, RingTypes, PageTypes, GhostTypes
<1> QED BY <1>1, <1>2, <1>3

\* So the types always hold.
LEMMA TypesAlways == Spec => []Types
<1>1. Types /\ [Next]_vars => Types'
  <2> SUFFICES ASSUME Types, [Next]_vars PROVE Types'
    OBVIOUS
  <2>1. CASE UNCHANGED vars
    BY <2>1 DEF vars, ring, page, ghosts, settled, Types, RingTypes, PageTypes, GhostTypes
  <2>2. CASE Next
    BY <2>2, ServerTypes, ServeTypes, MessageTypes, AnswerTypes, TimerTypes, PollTypes, FaultTypes
       DEF Next, Server
  <2> QED BY <2>1, <2>2
<1> QED BY <1>1, InitTypes, PTL DEF Spec

-----------------------------------------------------------------------------
(* Answers that are added and taken out.                                    *)

\* The last answer of a kind is one of G; there is none of that kind.
Ends(s, kind, G) ==
    \E i \in 1..Len(s) : /\ s[i].kind = kind /\ s[i] \in G
                         /\ \A k \in 1..Len(s) : k > i => s[k].kind # kind
Without(s, kind) == \A i \in 1..Len(s) : s[i].kind # kind

\* An answer of the kind becomes the last; another one changes nothing.
LEMMA OneMore ==
    ASSUME NEW s \in Seq(Answer), NEW a \in Answer, NEW kind, NEW G
    PROVE  /\ a.kind = kind /\ a \in G => Ends(Append(s, a), kind, G)
           /\ a.kind # kind /\ Ends(s, kind, G) => Ends(Append(s, a), kind, G)
           /\ a.kind # kind /\ Without(s, kind) => Without(Append(s, a), kind)
           /\ ~Without(s, kind) => ~Without(Append(s, a), kind)
<1> DEFINE n == Len(s)
           t == Append(s, a)
<1>1. n \in Nat /\ Len(t) = n + 1 /\ t[n + 1] = a /\ \A k \in 1..n : t[k] = s[k]
  OBVIOUS
<1> HIDE DEF n, t
<1>2. \A k \in 1..(n + 1) : k \in 1..n \/ k = n + 1
  BY <1>1
<1>3. n + 1 \in 1..(n + 1) /\ \A k \in 1..(n + 1) : ~(k > n + 1)
  BY <1>1
<1>4. \A k \in 1..n : k \in 1..(n + 1)
  BY <1>1
<1>5. a.kind = kind /\ a \in G => Ends(t, kind, G)
  BY <1>1, <1>3 DEF Ends
<1>6. ASSUME a.kind # kind, Ends(s, kind, G) PROVE Ends(t, kind, G)
  <2>1. PICK i \in 1..n : /\ s[i].kind = kind /\ s[i] \in G
                          /\ \A k \in 1..n : k > i => s[k].kind # kind
    BY <1>6 DEF Ends, n
  <2>2. i \in 1..(n + 1) /\ t[i].kind = kind /\ t[i] \in G
    BY <1>1, <1>4, <2>1
  <2>3. \A k \in 1..(n + 1) : k > i => t[k].kind # kind
    BY <1>1, <1>2, <1>6, <2>1
  <2> QED BY <1>1, <2>2, <2>3 DEF Ends
<1>7. a.kind # kind /\ Without(s, kind) => Without(t, kind)
  BY <1>1, <1>2 DEF Without, n
<1>8. ~Without(s, kind) => ~Without(t, kind)
  BY <1>1, <1>4 DEF Without, n
<1> QED BY <1>5, <1>6, <1>7, <1>8 DEF t

\* Taking out an answer of another kind changes nothing; when the first of the
\* kind is taken out, the last remains or was that one.
LEMMA OneLess ==
    ASSUME NEW s \in Seq(Answer), NEW i \in 1..Len(s), NEW kind, NEW G
    PROVE  /\ Without(s, kind) => Without(RemoveAt(s, i), kind)
           /\ s[i].kind # kind /\ Ends(s, kind, G) => Ends(RemoveAt(s, i), kind, G)
           /\ s[i].kind # kind /\ ~Without(s, kind) => ~Without(RemoveAt(s, i), kind)
           /\ (\A j \in 1 .. i - 1 : s[j].kind # kind) /\ Ends(s, kind, G)
              => \/ Ends(RemoveAt(s, i), kind, G)
                 \/ s[i] \in G /\ s[i].kind = kind /\ Without(RemoveAt(s, i), kind)
<1> DEFINE n == Len(s)
           t == RemoveAt(s, i)
           from(k) == IF k < i THEN k ELSE k + 1
<1>1. n \in Nat /\ i \in 1..n /\ Len(t) = n - 1
      /\ \A k \in 1..(n - 1) : t[k] = s[from(k)]
  <2>1. n \in Nat /\ i \in 1..n
    OBVIOUS
  <2>2. Len(t) = n - 1 /\ \A k \in 1..(n - 1) : t[k] = IF k < i THEN s[k] ELSE s[k + 1]
    BY RowRemoved
  <2> HIDE DEF n, t
  <2> QED BY <2>1, <2>2
<1> HIDE DEF n, t
<1>2. \A k \in 1..(n - 1) : from(k) \in 1..n
  BY <1>1
<1>3. \A j \in 1..n : j # i => \E k \in 1..(n - 1) : from(k) = j
  <2> SUFFICES ASSUME NEW j \in 1..n, j # i PROVE \E k \in 1..(n - 1) : from(k) = j
    OBVIOUS
  <2>1. CASE j < i
    <3>1. j \in 1..(n - 1) /\ from(j) = j
      BY <1>1, <2>1
    <3> QED BY <3>1
  <2>2. CASE j > i
    <3>1. j - 1 \in 1..(n - 1) /\ from(j - 1) = j
      BY <1>1, <2>2
    <3> QED BY <3>1
  <2> QED BY <1>1, <2>1, <2>2
<1>4. \A k, l \in 1..(n - 1) : k > l => from(k) > from(l)
  BY <1>1
<1> HIDE DEF from
<1>5. Without(s, kind) => Without(t, kind)
  BY <1>1, <1>2 DEF Without, n
<1>6. ASSUME NEW l \in 1..n, l # i, s[l].kind = kind, s[l] \in G,
             \A k \in 1..n : k > l => s[k].kind # kind
      PROVE  Ends(t, kind, G)
  <2>1. PICK m \in 1..(n - 1) : from(m) = l
    BY <1>3, <1>6
  <2>2. t[m].kind = kind /\ t[m] \in G
    BY <1>1, <1>6, <2>1
  <2>3. \A k \in 1..(n - 1) : k > m => t[k].kind # kind
    BY <1>1, <1>2, <1>4, <1>6, <2>1
  <2> QED BY <1>1, <2>2, <2>3 DEF Ends
<1>7. s[i].kind # kind /\ Ends(s, kind, G) => Ends(t, kind, G)
  BY <1>6 DEF Ends, n
<1>8. ASSUME s[i].kind # kind, ~Without(s, kind) PROVE ~Without(t, kind)
  <2>1. PICK j \in 1..n : s[j].kind = kind
    BY <1>8 DEF Without, n
  <2>2. PICK k \in 1..(n - 1) : from(k) = j
    BY <1>3, <1>8, <2>1
  <2> QED BY <1>1, <2>1, <2>2 DEF Without
<1>9. ASSUME \A j \in 1 .. i - 1 : s[j].kind # kind, Ends(s, kind, G)
      PROVE  Ends(t, kind, G) \/ (s[i] \in G /\ s[i].kind = kind /\ Without(t, kind))
  <2>1. PICK l \in 1..n : /\ s[l].kind = kind /\ s[l] \in G
                          /\ \A k \in 1..n : k > l => s[k].kind # kind
    BY <1>9 DEF Ends, n
  <2>2. CASE l # i
    BY <1>6, <2>1, <2>2
  <2>3. CASE l = i
    <3>1. \A j \in 1..n : j # i => s[j].kind # kind
      BY <1>1, <1>9, <2>1, <2>3
    <3>2. \A k \in 1..(n - 1) : from(k) \in 1..n /\ from(k) # i
      BY <1>1 DEF from
    <3>3. Without(t, kind)
      BY <1>1, <3>1, <3>2 DEF Without
    <3> QED BY <2>1, <2>3, <3>3
  <2> QED BY <2>2, <2>3
<1> QED BY <1>5, <1>7, <1>8, <1>9 DEF t

-----------------------------------------------------------------------------
(* The invariant.  A page either has the ring's competitor, or the last of  *)
(* the answers on their way to it will bring it, or something is still to   *)
(* come that makes it ask.                                                  *)

\* A scorecard is timed or asked for: in the end a timer will make it ask.
Timing(d) == timers[d] > 0 \/ asked[d]["final"] > 0 \/ ~Without(answers[d], "final")

\* A display ignores a change only while that is so, or it is stranded.
HoldsBack(d) == shown[d].timed => stranded[d] \/ Timing(d)

Announced(p) == \E i \in 1..Len(inbox[p]) : inbox[p][i] = "competitor"

Coming(p) ==
    \/ lost[p] \/ overtaken[p]
    \/ request \in {"seat", "competitor"}
    \/ Announced(p)
    \/ asked[p][NameKind(p)] > 0
    \/ p \in Displays /\ (stranded[p] \/ Timing(p))

Good(p) == {a \in Answer : IF p \in Judges THEN a.routine = routine ELSE a.competitor = competitor}

Told(p) ==
    \/ Ends(answers[p], NameKind(p), Good(p))
    \/ Without(answers[p], NameKind(p)) /\ (Current(p) \/ (p \in Displays /\ shown[p].card))

Follows(p) == Coming(p) \/ Told(p)

PagesInv == Types /\ (\A p \in open : Follows(p)) /\ \A d \in Displays : HoldsBack(d)

\* A step that keeps the invariant of a page.
Keeps(p) == /\ p \in open /\ Follows(p) => Follows(p)'
            /\ p \in Displays /\ HoldsBack(p) => HoldsBack(p)'

\* What the ring and the page have stays.
RingStays == competitor' = competitor /\ routine' = routine /\ request' = request
PageStays(p) ==
    /\ inbox'[p] = inbox[p] /\ asked'[p] = asked[p] /\ answers'[p] = answers[p]
    /\ lost'[p] = lost[p] /\ overtaken'[p] = overtaken[p]
    /\ p \in Judges => cached'[p] = cached[p]
    /\ p \in Displays => shown'[p] = shown[p] /\ timers'[p] = timers[p] /\ stranded'[p] = stranded[p]

\* A page with which nothing happens keeps its invariant.
LEMMA StaysKeeps == ASSUME NEW p \in Clients, RingStays, PageStays(p) PROVE Keeps(p)
<1>0. p \notin Judges => p \in Displays
  BY DEF Clients
<1>1. Good(p)' = Good(p)
  BY DEF Good, RingStays
<1>2. Announced(p)' = Announced(p) /\ (p \in Displays => Timing(p)' = Timing(p))
  BY DEF Timing, Announced, PageStays
<1>3. Current(p)' = Current(p)
  BY <1>0 DEF Current, RingStays, PageStays
<1>4. Told(p)' = Told(p)
  BY <1>1, <1>3 DEF Told, PageStays
<1> QED BY <1>2, <1>4 DEF Keeps, Follows, Coming, HoldsBack, RingStays, PageStays

\* A page that asks will be told.
LEMMA AskedIsComing ==
    ASSUME Types, NEW p \in Clients, AskName(p)
    PROVE  /\ Coming(p)' /\ asked'[p]["final"] >= asked[p]["final"]
           /\ \A q \in Clients \ {p} : asked'[q] = asked[q] /\ lost'[q] = lost[q] /\ overtaken'[q] = overtaken[q]
<1>1. asked \in [Clients -> [Kinds -> Nat]] /\ NameKind(p) \in Kinds /\ "final" \in Kinds
  BY NamesOfPages DEF Types, PageTypes, Kinds
<1>2. asked' = [asked EXCEPT ![p][NameKind(p)] = @ + 1]
  BY DEF AskName, Ask
<1>3. asked'[p][NameKind(p)] > 0 /\ asked'[p]["final"] >= asked[p]["final"]
  BY <1>1, <1>2
<1>4. \A q \in Clients \ {p} : asked'[q] = asked[q] /\ lost'[q] = lost[q] /\ overtaken'[q] = overtaken[q]
  BY <1>1, <1>2 DEF AskName, Types, GhostTypes
<1> QED BY <1>3, <1>4 DEF Coming, NameKind

-----------------------------------------------------------------------------
(* The steps of the server.                                                 *)

\* A broadcast reaches a page, or the page has lost something.
LEMMA BroadcastTold ==
    ASSUME Types, NEW n \in {"competitor", "final", "live", "last"}, Broadcast(n), NEW p \in Clients
    PROVE  /\ Announced(p) => Announced(p)'
           /\ lost[p] => lost'[p]
           /\ p \in open /\ n = "competitor" => Announced(p)' \/ lost'[p]
<1> DEFINE s == inbox[p]
<1>1. s \in Seq({"competitor", "final", "live", "last"})
  BY DEF Types, PageTypes
<1> HIDE DEF s
<1>2. /\ Len(s) \in Nat /\ Len(Append(s, n)) = Len(s) + 1 /\ Append(s, n)[Len(s) + 1] = n
      /\ \A k \in 1..Len(s) : k \in 1..(Len(s) + 1) /\ Append(s, n)[k] = s[k]
      /\ Len(s) + 1 \in 1..(Len(s) + 1)
  BY <1>1
<1>3. inbox'[p] = IF p \in online /\ Reacts(p, n) THEN Append(s, n) ELSE s
  BY DEF Broadcast, s
<1>4. lost'[p] = (lost[p] \/ (p \in open \ online /\ Reacts(p, n)))
  BY DEF Broadcast
<1>5. Announced(p) => Announced(p)'
  BY <1>2, <1>3 DEF Announced, s
<1>6. n = "competitor" => Reacts(p, n)
  BY DEF Reacts
<1>7. p \in online /\ n = "competitor" => Announced(p)'
  BY <1>2, <1>3, <1>6 DEF Announced
<1> QED BY <1>4, <1>5, <1>6, <1>7

\* A broadcast makes up for the change of competitor that it follows.
LEMMA BroadcastKeeps ==
    ASSUME Types, NEW n \in {"competitor", "final", "live", "last"}, Broadcast(n), NEW p \in Clients,
           competitor' = competitor, routine' = routine,
           n = "competitor" \/ (request \in {"seat", "competitor"} => request' \in {"seat", "competitor"})
    PROVE  Keeps(p)
<1>1. /\ asked' = asked /\ answers' = answers /\ cached' = cached /\ shown' = shown
      /\ timers' = timers /\ overtaken' = overtaken /\ stranded' = stranded
  BY DEF Broadcast
<1>2. Timing(p)' = Timing(p) /\ HoldsBack(p)' = HoldsBack(p)
  BY <1>1 DEF Timing, HoldsBack
<1>3. Good(p)' = Good(p)
  BY DEF Good
<1>4. Told(p)' = Told(p)
  BY <1>1, <1>3 DEF Told, Current
<1>5. /\ Announced(p) => Announced(p)'
      /\ lost[p] => lost'[p]
      /\ p \in open /\ n = "competitor" => Announced(p)' \/ lost'[p]
  BY BroadcastTold
<1>6. p \in open /\ Coming(p) => Coming(p)'
  <2>1. CASE n = "competitor"
    BY <1>5, <2>1 DEF Coming
  <2>2. CASE n # "competitor"
    BY <1>1, <1>2, <1>5, <2>2 DEF Coming
  <2> QED BY <2>1, <2>2
<1> QED BY <1>2, <1>4, <1>6 DEF Keeps, Follows

\* While the ring changes, the broadcast about it is still to come.
LEMMA ServerKeeps ==
    ASSUME Types, NEW p \in Clients,
           \/ \E c \in Competitors : Change(c)
           \/ FinalizeScore \/ SetCompetitor \/ Tell
           \/ \E n \in {"live", "last"} : Button(n)
    PROVE  Keeps(p)
<1>1. ASSUME UNCHANGED page, UNCHANGED ghosts, request' \in {"seat", "competitor"} PROVE Keeps(p)
  BY <1>1 DEF page, ghosts, Keeps, Follows, Coming, HoldsBack, Timing
<1>2. ASSUME NEW c \in Competitors, Change(c) PROVE Keeps(p)
  BY <1>1, <1>2 DEF Change
<1>3. CASE SetCompetitor
  BY <1>1, <1>3 DEF SetCompetitor
<1>4. CASE FinalizeScore
  <2>1. /\ UNCHANGED page /\ UNCHANGED ghosts /\ competitor' = competitor /\ routine' = routine
        /\ request \notin {"seat", "competitor"}
    BY <1>4 DEF FinalizeScore
  <2>2. Good(p)' = Good(p)
    BY <2>1 DEF Good
  <2>3. Told(p)' = Told(p)
    BY <2>1, <2>2 DEF Told, Current, page
  <2>4. Coming(p) => Coming(p)'
    BY <2>1 DEF Coming, Announced, Timing, page, ghosts
  <2>5. HoldsBack(p)' = HoldsBack(p)
    BY <2>1 DEF HoldsBack, Timing, page, ghosts
  <2> QED BY <2>3, <2>4, <2>5 DEF Keeps, Follows
<1>5. CASE Tell
  <2>1. /\ request \in {"competitor", "final", "live", "last"} /\ Broadcast(request)
        /\ competitor' = competitor /\ routine' = routine
        /\ request = "competitor" \/ request \notin {"seat", "competitor"}
    BY <1>5 DEF Tell
  <2> QED BY <2>1, BroadcastKeeps
<1>6. ASSUME NEW n \in {"live", "last"}, Button(n) PROVE Keeps(p)
  BY <1>6, BroadcastKeeps DEF Button
<1> QED BY <1>2, <1>3, <1>4, <1>5, <1>6

-----------------------------------------------------------------------------
(* The steps of the pages.                                                  *)

\* What a page does leaves the others as they are.
Others(p) == RingStays /\ \A q \in Clients \ {p} : PageStays(q)

\* So only the page itself has to be looked at.
LEMMA OthersKeep ==
    ASSUME NEW p, Others(p), Keeps(p) PROVE \A q \in Clients : Keeps(q)
BY StaysKeeps DEF Others

\* An answer is read.
LEMMA ServeKeeps ==
    ASSUME Types, NEW p \in Clients, NEW k \in Kinds, Serve(p, k) PROVE Keeps(p)
<1> DEFINE s == answers[p]
           a == Read(k)
<1>1. a \in Answer /\ a.kind = k
  BY DEF Read, Answer, Names, Types, RingTypes
<1>2. s \in Seq(Answer) /\ answers'[p] = Append(s, a)
  BY DEF Serve, Types, PageTypes
<1>3. /\ asked[p][k] > 0 /\ asked[p] \in [Kinds -> Nat]
      /\ \A l \in Kinds \ {k} : asked'[p][l] = asked[p][l]
  BY DEF Serve, Types, PageTypes
<1>4. a \in Good(p) /\ Good(p)' = Good(p)
  <2>1. a.routine = routine /\ a.competitor = competitor
    BY DEF Read
  <2>2. competitor' = competitor /\ routine' = routine
    BY DEF Serve, ring
  <2> HIDE DEF a
  <2> QED BY <1>1, <2>1, <2>2 DEF Good
<1> HIDE DEF a, s
<1>5. Timing(p) => Timing(p)'
  <2>1. ~Without(s, "final") => ~Without(Append(s, a), "final")
    BY <1>1, <1>2, OneMore
  <2>2. k = "final" => ~Without(Append(s, a), "final")
    <3> DEFINE t == Append(s, a)
    <3>1. Len(t) \in 1..Len(t) /\ t[Len(t)] = a
      BY <1>1, <1>2
    <3> HIDE DEF t
    <3> QED BY <1>1, <3>1 DEF Without, t
  <2>3. timers' = timers /\ "final" \in Kinds
    BY DEF Serve, Kinds
  <2> QED BY <1>2, <1>3, <2>1, <2>2, <2>3 DEF Timing, s
<1>6. HoldsBack(p) => HoldsBack(p)'
  BY <1>5 DEF HoldsBack, Serve, ghosts
<1>7. CASE k = NameKind(p)
  <2>1. Ends(Append(s, a), NameKind(p), Good(p))
    BY <1>1, <1>2, <1>4, <1>7, OneMore
  <2>2. Told(p)'
    BY <1>2, <1>4, <2>1 DEF Told, NameKind
  <2> QED BY <1>6, <2>2 DEF Keeps, Follows
<1>8. CASE k # NameKind(p)
  <2>1. Ends(s, NameKind(p), Good(p)) => Ends(Append(s, a), NameKind(p), Good(p))
    BY <1>1, <1>2, <1>8, OneMore
  <2>2. Without(s, NameKind(p)) => Without(Append(s, a), NameKind(p))
    BY <1>1, <1>2, <1>8, OneMore
  <2>3. competitor' = competitor /\ routine' = routine /\ cached' = cached /\ shown' = shown
    BY DEF Serve, ring
  <2>4. Told(p) => Told(p)'
    BY <1>2, <1>4, <2>1, <2>2, <2>3 DEF Told, Current, NameKind, s
  <2>5. asked'[p][NameKind(p)] = asked[p][NameKind(p)]
    BY <1>3, <1>8, NamesOfPages
  <2>6. Coming(p) => Coming(p)'
    BY <1>5, <2>5 DEF Coming, Announced, Serve, ring, ghosts, NameKind
  <2> QED BY <1>6, <2>4, <2>6 DEF Keeps, Follows
<1> QED BY <1>7, <1>8

\* A page that asks.
LEMMA AskingKeeps ==
    ASSUME Types, NEW p \in Clients, AskName(p),
           p \in Displays /\ HoldsBack(p) => HoldsBack(p)'
    PROVE  Keeps(p)
BY AskedIsComing DEF Keeps, Follows

\* A display's flag stays what it is, and what is timed remains.
LEMMA FlagStays ==
    ASSUME Types, NEW p \in Displays, AskName(p),
           answers' = answers, timers' = timers, stranded' = stranded, shown' = shown
    PROVE  HoldsBack(p) => HoldsBack(p)'
<1>1. p \in Clients
  BY DEF Clients
<1>2. asked'[p]["final"] >= asked[p]["final"]
  BY <1>1, AskedIsComing
<1>3. asked[p]["final"] \in Nat /\ asked'[p]["final"] \in Nat
  <2>1. "final" \in Kinds /\ asked' \in [Clients -> [Kinds -> Nat]]
    BY <1>1, NameAskedTypes DEF Kinds
  <2> QED BY <1>1, <2>1 DEF Types, PageTypes
<1>4. Timing(p) => Timing(p)'
  BY <1>2, <1>3 DEF Timing
<1> QED BY <1>4 DEF HoldsBack

\* A notification is handled.
LEMMA MessageKeeps ==
    ASSUME Types, NEW p \in Clients, OnMessage(p), p \in Displays => HoldsBack(p) PROVE Keeps(p)
<1> DEFINE s == inbox[p]
           n == Head(s)
<1>1. /\ s \in Seq({"competitor", "final", "live", "last"}) /\ s # <<>>
      /\ n \in {"competitor", "final", "live", "last"}
      /\ p \in Judges => s \in Seq({"competitor"}) /\ n = "competitor"
  BY DEF OnMessage, Types, PageTypes
<1>2. n # "competitor" /\ Announced(p) => Announced(p)'
  <2> DEFINE t == Tail(s)
  <2>1. inbox'[p] = t
    BY DEF OnMessage, Types, PageTypes
  <2>2. /\ Len(s) \in Nat /\ Len(t) = Len(s) - 1 /\ n = s[1]
        /\ \A i \in 1..Len(s) : i # 1 => i - 1 \in 1..Len(t) /\ t[i - 1] = s[i]
    BY <1>1
  <2> HIDE DEF n, t, s
  <2> QED BY <2>1, <2>2 DEF Announced, s
<1>3. /\ competitor' = competitor /\ routine' = routine /\ request' = request
      /\ cached' = cached /\ timers' = timers /\ stranded' = stranded
  BY DEF OnMessage, ring
<1>4. Good(p)' = Good(p)
  BY <1>3 DEF Good
<1> HIDE DEF n, s
<1>5. CASE AskName(p) /\ UNCHANGED <<answers, shown>>
  BY <1>3, <1>5, AskingKeeps, FlagStays
<1>6. CASE n = "competitor" /\ p \in Displays /\ shown[p].timed /\ Idle
  <2>1. Timing(p)' = Timing(p) /\ HoldsBack(p)' = HoldsBack(p)
    BY <1>3, <1>6 DEF Timing, HoldsBack, Idle
  <2>2. Coming(p)'
    BY <1>3, <1>6, <2>1 DEF Coming, HoldsBack
  <2> QED BY <2>1, <2>2 DEF Keeps, Follows
<1>7. CASE n = "final" /\ OnFinal(p)
  <2>1. p \in Displays /\ "final" \in Kinds
    BY <1>1, <1>7 DEF Clients, Kinds
  <2>2. asked'[p]["final"] > 0
    BY <1>7, <2>1 DEF OnFinal, Ask, Types, PageTypes
  <2>3. Timing(p)'
    BY <2>2 DEF Timing
  <2> QED BY <2>1, <2>3 DEF Keeps, Follows, Coming, HoldsBack
<1>8. CASE n = "last" /\ Idle
  <2>1. Timing(p)' = Timing(p) /\ HoldsBack(p)' = HoldsBack(p) /\ Told(p)' = Told(p)
    BY <1>3, <1>4, <1>8 DEF Timing, HoldsBack, Told, Current, Idle
  <2>2. Coming(p) => Coming(p)'
    BY <1>2, <1>3, <1>8, <2>1 DEF Coming, Idle
  <2> QED BY <2>1, <2>2 DEF Keeps, Follows
<1>9. CASE n = "last" /\ OnLast(p) /\ ~Idle
  <2> DEFINE card == [kind |-> "card", competitor |-> shown[p].last, routine |-> shown[p].last, final |-> TRUE]
             b == answers[p]
  <2>1. p \in Displays
    BY <1>1, <1>9 DEF Clients
  <2>2. card \in Answer /\ card.kind = "card" /\ b \in Seq(Answer)
    BY <2>1 DEF Types, PageTypes, Display, Answer
  <2>3. answers' = [answers EXCEPT ![p] = Append(@, card)] /\ UNCHANGED <<asked, shown, lost, overtaken>>
    BY <1>9 DEF OnLast
  <2>4. answers'[p] = Append(b, card)
    BY <2>3 DEF Types, PageTypes
  <2> HIDE DEF card, b
  <2>5. NameKind(p) # "card" /\ "final" # "card"
    BY DEF NameKind
  <2>6. /\ Ends(b, NameKind(p), Good(p)) => Ends(Append(b, card), NameKind(p), Good(p))
        /\ Without(b, NameKind(p)) => Without(Append(b, card), NameKind(p))
        /\ ~Without(b, "final") => ~Without(Append(b, card), "final")
    BY <2>2, <2>5, OneMore
  <2>7. Told(p) => Told(p)'
    BY <1>3, <1>4, <2>3, <2>4, <2>6 DEF Told, Current, NameKind, b
  <2>8. Timing(p) => Timing(p)'
    BY <1>3, <2>3, <2>4, <2>6 DEF Timing, b
  <2>9. Coming(p) => Coming(p)'
    BY <1>2, <1>3, <1>9, <2>3, <2>8 DEF Coming, NameKind
  <2> QED BY <1>3, <2>3, <2>7, <2>8, <2>9 DEF Keeps, Follows, HoldsBack
<1>10. \/ n = "competitor" /\ OnCompetitor(p)
       \/ n = "final" /\ OnFinal(p)
       \/ n = "live" /\ AskName(p) /\ UNCHANGED <<answers, shown>>
       \/ n = "last" /\ OnLast(p)
  <2>1. CASE n = "competitor"
    BY <2>1 DEF OnMessage, OnCompetitor, n, s
  <2>2. CASE n = "final"
    BY <2>2 DEF OnMessage, n, s
  <2>3. CASE n = "live"
    BY <2>3 DEF OnMessage, n, s
  <2>4. CASE n = "last"
    BY <2>4 DEF OnMessage, n, s
  <2> QED BY <1>1, <2>1, <2>2, <2>3, <2>4
<1> QED BY <1>5, <1>6, <1>7, <1>8, <1>9, <1>10 DEF OnCompetitor

\* An answer is used.
LEMMA AnswerKeeps ==
    ASSUME Types, NEW p \in Clients, OnAnswer(p) PROVE Keeps(p)
<1>1. PICK i \in DOMAIN answers[p] :
        LET a == answers[p][i] IN
        /\ answers' = [answers EXCEPT ![p] = RemoveAt(@, i)]
        /\ overtaken' = [overtaken EXCEPT ![p] = @ \/
               /\ a.kind = NameKind(p)
               /\ \E j \in 1 .. i - 1 : answers[p][j].kind = a.kind]
        /\ CASE a.kind = "status" -> OnStatus(p, a)
             [] a.kind = "info" -> OnInfo(p, a)
             [] a.kind = "card" -> OnCard(p, a)
             [] a.kind \in {"scores", "final"} -> OnScores(p, a)
        /\ UNCHANGED <<ring, faults, settled, online, inbox, lost>>
  BY DEF OnAnswer
<1> DEFINE s == answers[p]
           a == s[i]
           t == RemoveAt(s, i)
           kind == NameKind(p)
<1>2. s \in Seq(Answer) /\ i \in 1..Len(s) /\ a \in Answer /\ answers'[p] = t
  BY <1>1 DEF Types, PageTypes
<1>3. /\ competitor' = competitor /\ routine' = routine /\ request' = request
      /\ inbox' = inbox /\ lost' = lost
  BY <1>1 DEF ring
<1>4. Good(p)' = Good(p)
  BY <1>3 DEF Good
<1>5. \/ a.kind = "status" /\ OnStatus(p, a)
      \/ a.kind = "info" /\ OnInfo(p, a)
      \/ a.kind = "card" /\ OnCard(p, a)
      \/ a.kind \in {"scores", "final"} /\ OnScores(p, a)
  BY <1>1, <1>2 DEF Answer, Kinds
<1>6. /\ overtaken[p] => overtaken'[p]
      /\ a.kind = kind /\ ~overtaken'[p] => \A j \in 1 .. i - 1 : s[j].kind # kind
  <2> DEFINE over == a.kind = NameKind(p) /\ \E j \in 1 .. i - 1 : answers[p][j].kind = a.kind
  <2>1. overtaken' = [overtaken EXCEPT ![p] = @ \/ over]
    BY <1>1
  <2> HIDE DEF over
  <2>2. overtaken'[p] = (overtaken[p] \/ over)
    BY <2>1 DEF Types, GhostTypes
  <2> QED BY <2>2 DEF over
<1> HIDE DEF s, a, t, kind
<1>7. /\ Without(s, kind) => Without(t, kind)
      /\ a.kind # kind /\ Ends(s, kind, Good(p)) => Ends(t, kind, Good(p))
      /\ (\A j \in 1 .. i - 1 : s[j].kind # kind) /\ Ends(s, kind, Good(p))
         => Ends(t, kind, Good(p)) \/ (a \in Good(p) /\ a.kind = kind /\ Without(t, kind))
      /\ a.kind # "final" /\ ~Without(s, "final") => ~Without(t, "final")
  BY <1>2, OneLess DEF a, t
<1>8. /\ asked[p] \in [Kinds -> Nat] /\ asked'[p] \in [Kinds -> Nat]
      /\ \A k \in Kinds : asked'[p][k] >= asked[p][k]
  <2>0. asked[p] \in [Kinds -> Nat] /\ \A k \in Kinds : asked[p][k] >= asked[p][k]
    BY DEF Types, PageTypes
  <2>1. CASE asked' = asked
    BY <2>0, <2>1
  <2>2. CASE Ask(p, "scores")
    BY <2>2 DEF Ask, Types, PageTypes, Kinds
  <2> QED BY <1>5, <2>1, <2>2 DEF OnStatus, OnInfo, OnCard, OnScores
<1>9. "final" \in Kinds /\ kind \in Kinds
  BY NamesOfPages DEF Kinds, kind
\* what a display's flag waits for
<1>10. p \in Displays /\ (stranded[p] \/ Timing(p)) => stranded'[p] \/ Timing(p)'
  <2> SUFFICES ASSUME p \in Displays, stranded[p] \/ Timing(p) PROVE stranded'[p] \/ Timing(p)'
    OBVIOUS
  <2>1. asked[p]["final"] > 0 => asked'[p]["final"] > 0
    BY <1>8, <1>9
  <2>2. CASE UNCHANGED <<timers, stranded>> /\ a.kind # "final"
    BY <1>2, <1>7, <2>1, <2>2 DEF Timing, s
  <2>3. CASE OnScores(p, a) /\ a.kind # "final"
    <3>1. timers[p] > 0 => timers'[p] > 0
      BY <2>3 DEF OnScores, Types, PageTypes
    <3>2. stranded[p] => stranded'[p]
      BY <2>3 DEF OnScores, Types, GhostTypes
    <3> QED BY <1>2, <1>7, <2>1, <2>3, <3>1, <3>2 DEF Timing, s
  <2>4. CASE OnScores(p, a) /\ a.kind = "final"
    <3>1. Displayed(p, a) => timers'[p] > 0
      BY <2>4 DEF OnScores, Types, PageTypes
    <3>2. ~Displayed(p, a) => stranded'[p]
      BY <2>4 DEF OnScores, Types, GhostTypes
    <3> QED BY <3>1, <3>2 DEF Timing
  <2> QED BY <1>5, <2>2, <2>3, <2>4 DEF OnStatus, OnInfo, OnCard
<1>11. p \in Displays => shown'[p].timed = shown[p].timed
  <2> SUFFICES ASSUME p \in Displays PROVE shown'[p].timed = shown[p].timed
    OBVIOUS
  <2>1. shown \in [Displays -> Display]
    BY DEF Types, PageTypes
  <2>2. CASE OnInfo(p, a)
    BY <2>1, <2>2 DEF OnInfo, Display
  <2>3. CASE OnCard(p, a)
    BY <2>1, <2>3 DEF OnCard, Display
  <2>4. CASE shown' = shown
    BY <2>4
  <2> QED BY <1>5, <2>2, <2>3, <2>4 DEF OnStatus, OnScores
<1>12. p \in Displays /\ HoldsBack(p) => HoldsBack(p)'
  BY <1>10, <1>11 DEF HoldsBack
<1>13. Coming(p) => Coming(p)'
  <2>1. asked[p][kind] > 0 => asked'[p][kind] > 0
    BY <1>8, <1>9
  <2>2. Announced(p)' = Announced(p)
    BY <1>3 DEF Announced
  <2> QED BY <1>3, <1>6, <1>10, <2>1, <2>2 DEF Coming, kind, NameKind
<1>14. CASE a.kind = kind
  <2> SUFFICES ASSUME ~overtaken'[p], Told(p) PROVE Follows(p)'
    BY <1>12, <1>13 DEF Keeps, Follows, Coming
  <2>1. ~Without(s, kind)
    BY <1>2, <1>14 DEF Without, a
  <2>2. Ends(s, kind, Good(p))
    BY <2>1 DEF Told, s, kind
  <2>3. CASE Ends(t, kind, Good(p))
    BY <1>2, <1>4, <2>3 DEF Follows, Told, kind, NameKind
  <2>4. CASE a \in Good(p) /\ Without(t, kind)
    <3>1. Current(p)'
      <4>1. CASE p \in Judges
        <5>1. a.routine = routine /\ OnStatus(p, a)
          BY <1>5, <1>14, <2>4, <4>1 DEF Good, kind, NameKind
        <5> QED BY <1>3, <4>1, <5>1 DEF Current, OnStatus, Types, PageTypes
      <4>2. CASE p \notin Judges
        <5>1. a.competitor = competitor /\ OnInfo(p, a) /\ p \in Displays
          BY <1>5, <1>14, <2>4, <4>2 DEF Good, kind, NameKind, Clients
        <5>2. shown'[p].competitor = competitor
          BY <5>1 DEF OnInfo, Types, PageTypes, Display
        <5> QED BY <1>3, <4>2, <5>2 DEF Current
      <4> QED BY <4>1, <4>2
    <3> QED BY <1>2, <2>4, <3>1 DEF Follows, Told, kind, NameKind
  <2> QED BY <1>6, <1>7, <1>14, <2>2, <2>3, <2>4
<1>15. CASE a.kind # kind
  <2>1. /\ p \in Judges => Current(p)' = Current(p)
        /\ p \in Displays => \/ Current(p)' = Current(p) /\ shown'[p].card = shown[p].card
                             \/ shown'[p].card
    <3>1. p \in Judges => a.kind # "status"
      BY <1>15 DEF kind, NameKind
    <3>2. p \in Displays => p \notin Judges /\ a.kind # "info"
      BY <1>15, PagesAssumption DEF kind, NameKind
    <3>3. p \in Judges => cached'[p] = cached[p]
      BY <1>5, <3>1 DEF OnInfo, OnCard, OnScores
    <3>4. p \in Displays => shown' = shown \/ shown'[p].card
      BY <1>5, <3>2 DEF OnStatus, OnScores, OnCard, Types, PageTypes, Display
    <3> QED BY <1>3, <3>2, <3>3, <3>4 DEF Current
  <2>2. Told(p) => Told(p)'
    <3>1. CASE Ends(s, kind, Good(p))
      BY <1>2, <1>4, <1>7, <1>15, <3>1 DEF Told, kind, NameKind
    <3>2. CASE Without(s, kind) /\ (Current(p) \/ (p \in Displays /\ shown[p].card))
      <4>1. Current(p)' \/ (p \in Displays /\ shown'[p].card)
        BY <2>1, <3>2 DEF Clients
      <4> QED BY <1>2, <1>7, <3>2, <4>1 DEF Told, kind, NameKind
    <3> QED BY <3>1, <3>2 DEF Told, s, kind
  <2> QED BY <1>12, <1>13, <2>2 DEF Keeps, Follows
<1> QED BY <1>14, <1>15

\* The other steps of a page.
LEMMA TimerKeeps == ASSUME Types, NEW d \in Displays, Timer(d) PROVE Keeps(d)
<1>1. d \in Clients
  BY DEF Clients
<1>2. shown'[d].timed = FALSE
  BY DEF Timer, Types, PageTypes, Display
<1> QED BY <1>1, <1>2, AskingKeeps DEF Timer, HoldsBack

\* A poll, too, leaves the flag to a timer,
LEMMA PollKeeps == ASSUME Types, NEW p \in Clients, Poll(p) PROVE Keeps(p)
BY AskingKeeps, FlagStays DEF Poll

\* and what goes wrong is remembered.
LEMMA FaultKeeps ==
    ASSUME Types, NEW p \in Clients, LoseAnswer(p) \/ Close(p) \/ Reconnect(p) PROVE Keeps(p)
<1>1. CASE LoseAnswer(p)
  <2>1. PICK i \in DOMAIN answers[p] :
          /\ answers' = [answers EXCEPT ![p] = RemoveAt(@, i)]
          /\ stranded' = [d \in Displays |-> stranded[d] \/ (d = p /\ answers[p][i].kind = "final")]
    BY <1>1 DEF LoseAnswer
  <2> DEFINE s == answers[p]
  <2>2. s \in Seq(Answer) /\ i \in 1..Len(s) /\ answers'[p] = RemoveAt(s, i)
    BY <2>1 DEF Types, PageTypes
  <2>3. lost'[p]
    BY <1>1 DEF LoseAnswer, Types, GhostTypes
  <2> HIDE DEF s
  <2>4. s[i].kind # "final" /\ ~Without(s, "final") => ~Without(RemoveAt(s, i), "final")
    BY <2>2, OneLess
  <2>5. p \in Displays /\ (stranded[p] \/ Timing(p)) => stranded'[p] \/ Timing(p)'
    BY <1>1, <2>1, <2>2, <2>4 DEF LoseAnswer, Timing, s
  <2>6. p \in Displays /\ HoldsBack(p) => HoldsBack(p)'
    BY <1>1, <2>5 DEF LoseAnswer, HoldsBack
  <2> QED BY <2>3, <2>6 DEF Keeps, Follows, Coming
<1>2. CASE Close(p)
  <2>1. /\ RingStays /\ asked' = asked /\ answers' = answers /\ cached' = cached /\ shown' = shown
        /\ timers' = timers /\ overtaken' = overtaken /\ stranded' = stranded
    BY <1>2 DEF Close, ring, RingStays
  <2>2. lost'[p] = (lost[p] \/ inbox[p] # <<>>)
    BY <1>2 DEF Close, Types, GhostTypes
  <2>3. Announced(p) => inbox[p] # <<>>
    BY DEF Announced
  <2>4. Good(p)' = Good(p)
    BY <2>1 DEF Good, RingStays
  <2>5. Told(p)' = Told(p) /\ Timing(p)' = Timing(p) /\ HoldsBack(p)' = HoldsBack(p)
    BY <2>1, <2>4 DEF Told, Current, Timing, HoldsBack, RingStays
  <2>6. Coming(p) => Coming(p)'
    BY <2>1, <2>2, <2>3, <2>5 DEF Coming, RingStays
  <2> QED BY <2>5, <2>6 DEF Keeps, Follows
<1>3. CASE Reconnect(p)
  BY <1>3, StaysKeeps DEF Reconnect, ring, page, ghosts, RingStays, PageStays
<1> QED BY <1>1, <1>2, <1>3

\* Each of them is about one page.
LEMMA StepsAreOfAPage ==
    ASSUME Types, NEW p \in Clients,
           \/ \E k \in Kinds : Serve(p, k)
           \/ OnMessage(p) \/ OnAnswer(p) \/ Poll(p)
           \/ p \in Displays /\ Timer(p)
           \/ LoseAnswer(p) \/ Close(p) \/ Reconnect(p)
    PROVE  Others(p)
<1> RingStays
  BY DEF RingStays, Serve, OnMessage, OnAnswer, Poll, Timer, LoseAnswer, Close, Reconnect, ring
<1> SUFFICES ASSUME NEW q \in Clients \ {p} PROVE RingStays /\ PageStays(q)
  BY DEF Others
<1>0. /\ inbox \in [Clients -> Seq({"competitor", "final", "live", "last"})]
      /\ asked \in [Clients -> [Kinds -> Nat]] /\ answers \in [Clients -> Seq(Answer)]
      /\ cached \in [Judges -> Names] /\ shown \in [Displays -> Display] /\ timers \in [Displays -> Nat]
      /\ lost \in [Clients -> BOOLEAN] /\ overtaken \in [Clients -> BOOLEAN]
      /\ stranded \in [Displays -> BOOLEAN]
  BY DEF Types, PageTypes, GhostTypes
<1> USE DEF RingStays, PageStays, ring
<1>1. ASSUME NEW k, Ask(p, k) PROVE asked'[q] = asked[q]
  BY <1>0, <1>1 DEF Ask
<1>2. ASSUME AskName(p) PROVE asked'[q] = asked[q] /\ lost'[q] = lost[q] /\ overtaken'[q] = overtaken[q]
  BY <1>2, AskedIsComing
<1>3. ASSUME NEW k \in Kinds, Serve(p, k) PROVE RingStays /\ PageStays(q)
  BY <1>0, <1>3 DEF Serve, ghosts
<1>4. CASE Poll(p)
  BY <1>2, <1>4 DEF Poll
<1>5. CASE p \in Displays /\ Timer(p)
  BY <1>0, <1>2, <1>5 DEF Timer
<1>6. CASE Close(p)
  BY <1>0, <1>6 DEF Close
<1>7. CASE Reconnect(p)
  BY <1>0, <1>7 DEF Reconnect, page, ghosts
<1>8. CASE OnMessage(p)
  <2>1. /\ RingStays /\ inbox'[q] = inbox[q] /\ cached' = cached /\ timers' = timers /\ stranded' = stranded
    BY <1>0, <1>8 DEF OnMessage
  <2>2. CASE Idle
    BY <2>1, <2>2 DEF Idle
  <2>3. CASE AskName(p) /\ UNCHANGED <<answers, shown>>
    BY <1>2, <2>1, <2>3
  <2>4. CASE OnFinal(p)
    BY <1>0, <1>1, <2>1, <2>4 DEF OnFinal
  <2>5. CASE OnLast(p) /\ ~Idle
    BY <1>0, <2>1, <2>5 DEF OnLast
  <2>6. Idle \/ (AskName(p) /\ UNCHANGED <<answers, shown>>) \/ OnFinal(p) \/ OnLast(p)
    <3>1. Head(inbox[p]) \in {"competitor", "final", "live", "last"}
      BY <1>0, <1>8 DEF OnMessage
    <3>2. CASE Head(inbox[p]) = "competitor"
      BY <1>8, <3>2 DEF OnMessage, OnCompetitor
    <3>3. CASE Head(inbox[p]) = "final"
      BY <1>8, <3>3 DEF OnMessage
    <3>4. CASE Head(inbox[p]) = "live"
      BY <1>8, <3>4 DEF OnMessage
    <3>5. CASE Head(inbox[p]) = "last"
      BY <1>8, <3>5 DEF OnMessage
    <3> QED BY <3>1, <3>2, <3>3, <3>4, <3>5
  <2> QED BY <2>2, <2>3, <2>4, <2>5, <2>6
<1>9. CASE OnAnswer(p)
  <2>1. PICK i \in DOMAIN answers[p] :
          LET a == answers[p][i] IN
          /\ answers' = [answers EXCEPT ![p] = RemoveAt(@, i)]
          /\ overtaken' = [overtaken EXCEPT ![p] = @ \/
                 /\ a.kind = NameKind(p)
                 /\ \E j \in 1 .. i - 1 : answers[p][j].kind = a.kind]
          /\ CASE a.kind = "status" -> OnStatus(p, a)
               [] a.kind = "info" -> OnInfo(p, a)
               [] a.kind = "card" -> OnCard(p, a)
               [] a.kind \in {"scores", "final"} -> OnScores(p, a)
          /\ UNCHANGED <<ring, faults, settled, online, inbox, lost>>
    BY <1>9 DEF OnAnswer
  <2> DEFINE a == answers[p][i]
  <2>2. /\ RingStays /\ inbox' = inbox /\ lost' = lost
        /\ answers'[q] = answers[q] /\ overtaken'[q] = overtaken[q]
    BY <1>0, <2>1
  <2>3. a.kind \in {"status", "info", "card", "scores", "final"}
    <3>1. answers[p] \in Seq(Answer) /\ i \in 1..Len(answers[p])
      BY <1>0
    <3>2. a \in Answer
      BY <3>1
    <3> HIDE DEF a
    <3> QED BY <3>2 DEF Answer, Kinds
  <2>4. OnStatus(p, a) \/ OnInfo(p, a) \/ OnCard(p, a) \/ OnScores(p, a)
    BY <2>1, <2>3
  <2> HIDE DEF a
  <2>5. CASE OnStatus(p, a)
    BY <1>0, <2>2, <2>5 DEF OnStatus
  <2>6. CASE OnInfo(p, a)
    BY <1>0, <1>1, <2>2, <2>6 DEF OnInfo
  <2>7. CASE OnCard(p, a)
    BY <1>0, <2>2, <2>7 DEF OnCard
  <2>8. CASE OnScores(p, a)
    BY <1>0, <2>2, <2>8 DEF OnScores
  <2> QED BY <2>4, <2>5, <2>6, <2>7, <2>8
<1>10. CASE LoseAnswer(p)
  BY <1>0, <1>10 DEF LoseAnswer
<1> QED BY <1>3, <1>4, <1>5, <1>6, <1>7, <1>8, <1>9, <1>10

-----------------------------------------------------------------------------
\* When the pages have been opened, each has asked.
LEMMA InitFollows == Init => PagesInv
<1> SUFFICES ASSUME Init PROVE PagesInv
  OBVIOUS
<1>1. \A p \in open : Follows(p)
  <2> SUFFICES ASSUME NEW p \in open PROVE asked[p][NameKind(p)] > 0
    BY DEF Follows, Coming
  <2>1. p \in Clients /\ NameKind(p) \in Kinds
    BY InitTypes, NamesOfPages DEF Types, RingTypes
  <2> QED BY <2>1 DEF Init
<1>2. \A d \in Displays : HoldsBack(d)
  BY DEF Init, HoldsBack
<1> QED BY <1>1, <1>2, InitTypes DEF PagesInv

\* Whatever happens, each page follows the ring.
LEMMA PagesAlways == Spec => []PagesInv
<1>1. PagesInv /\ Types' /\ [Next]_vars => PagesInv'
  <2> SUFFICES ASSUME PagesInv, Types', [Next]_vars PROVE PagesInv'
    OBVIOUS
  <2>1. open' = open
    BY DEF Next, vars, settled, Change, FinalizeScore, Button, Broadcast, Server, SetCompetitor, Tell,
           Serve, OnMessage, OnAnswer, Timer, Poll, LoseAnswer, Close, Reconnect
  <2>2. Types /\ open \subseteq Clients /\ \A d \in Displays : d \in Clients
    BY DEF PagesInv, Types, RingTypes, Clients
  <2>3. ASSUME NEW q \in Clients PROVE Keeps(q)
    <3>1. CASE UNCHANGED vars
      BY <3>1, StaysKeeps DEF vars, ring, page, ghosts, RingStays, PageStays
    <3>2. CASE \/ \E c \in Competitors : Change(c)
               \/ FinalizeScore \/ SetCompetitor \/ Tell
               \/ \E n \in {"live", "last"} : Button(n)
      BY <2>2, <3>2, ServerKeeps
    <3>3. CASE \E p \in Clients : \/ \E k \in Kinds : Serve(p, k)
                                  \/ OnMessage(p) \/ OnAnswer(p) \/ Poll(p)
                                  \/ p \in Displays /\ Timer(p)
                                  \/ LoseAnswer(p) \/ Close(p) \/ Reconnect(p)
      <4>1. PICK p \in Clients : \/ \E k \in Kinds : Serve(p, k)
                                 \/ OnMessage(p) \/ OnAnswer(p) \/ Poll(p)
                                 \/ p \in Displays /\ Timer(p)
                                 \/ LoseAnswer(p) \/ Close(p) \/ Reconnect(p)
        BY <3>3
      <4>2. Keeps(p)
        BY <2>2, <4>1, ServeKeeps, MessageKeeps, AnswerKeeps, PollKeeps, TimerKeeps, FaultKeeps
           DEF PagesInv
      <4> QED BY <2>2, <4>1, <4>2, StepsAreOfAPage, OthersKeep
    <3> QED BY <2>2, <3>1, <3>2, <3>3 DEF Next, Server
  <2> QED BY <2>1, <2>2, <2>3 DEF PagesInv, Keeps
<1> QED BY <1>1, InitFollows, TypesAlways, PTL DEF Spec

\* A page to which nothing is on its way any more has the ring's competitor,
\* unless one of the four things has happened that the code does not make good.
THEOREM QuietPagesAreCurrent == Spec => []QuietIsCurrent
<1>1. PagesInv => QuietIsCurrent
  <2> SUFFICES ASSUME PagesInv, NEW p \in open, Quiet(p) PROVE Current(p) \/ Missed(p)
    BY DEF QuietIsCurrent
  <2>1. p \in Clients /\ Follows(p)
    BY DEF PagesInv, Types, RingTypes
  <2>2. /\ request \in {"none", "final"} /\ inbox[p] = <<>> /\ answers[p] = <<>>
        /\ \A k \in Kinds : asked[p][k] = 0
        /\ p \in Displays => timers[p] = 0
    BY DEF Quiet, Nothing
  <2>3. ~Announced(p) /\ \A kind, G : Without(answers[p], kind) /\ ~Ends(answers[p], kind, G)
    BY <2>2 DEF Announced, Without, Ends
  <2>4. asked[p][NameKind(p)] = 0 /\ asked[p]["final"] = 0
    BY <2>1, <2>2, NamesOfPages DEF Kinds
  <2>5. p \in Displays => ~Timing(p)
    BY <2>2, <2>3, <2>4 DEF Timing
  <2> QED BY <2>1, <2>2, <2>3, <2>4, <2>5 DEF Follows, Coming, Told, Missed
<1> QED BY <1>1, PagesAlways, PTL
=============================================================================
