------------------------ MODULE TechnicalPanel_proofs ------------------------
(***************************************************************************)
(* What the A and C panels of a ring guarantee for any judges, marks and   *)
(* routines, and any number of requests, failures and overtakings.         *)
(***************************************************************************)
EXTENDS TechnicalPanel, FiniteSetTheorems, SequenceTheorems, WellFoundedInduction, TLAPS

Code == Codes \cup {Blank}

Request ==
    [kind : {"mark", "update", "delete", "nandu"}, judge : Judges, about : Marks \cup Judges,
     value : Code \cup Results, routine : Routines, at : {"first", "second", "third"}]

PageRow == [at : {"unused", "shown", "removed", "gone"}, text : Code, check : BOOLEAN]

\* A handler goes on to its next step.
GoesOn(r, at) == requests' = (requests \ {r}) \cup {[r EXCEPT !.at = at]}

Moves(r) == End(r) \/ \E at \in {"second", "third"} : GoesOn(r, at)

\* What a page's request is about.
Addressed(r) ==
    IF r.kind = "nandu"
    THEN r.about = r.judge /\ Ruleset[r.routine] = "IWUF" /\ r.value \in Results
    ELSE r.about \in Marks /\ r.judge = Owner[r.about] /\ r.value \in Code

\* A row is shown once the judge's page knows a routine; no other has a check mark.
RowHolds(m) ==
    /\ page[m].at = "shown" => seen[Owner[m]] \in Routines
    /\ page[m].check => page[m].at = "shown"

MarksTyped ==
    /\ page \in [Marks -> PageRow]
    /\ seen \in [Judges -> Routines \cup {Nil}]
    /\ \A m \in Marks : RowHolds(m)
    /\ requests \subseteq Request /\ \A r \in requests : Addressed(r)
    /\ DOMAIN marked \subseteq Marks
    /\ marked \in [DOMAIN marked -> [routine : Routines, code : Code]]
    /\ routine \in Routines \cup {Nil}

-----------------------------------------------------------------------------
(* The life of a mark about which no request has failed or overtaken another *)

\* While its request is under way the page shows no check mark, and the table
\* has the mark as far as the request has come.
UnderWay(m, r) ==
    /\ ~page[m].check
    /\ r.kind # "nandu" /\ page[m].at # "unused"
    /\ page[m].at = "removed" <=> r.kind = "delete"
    /\ m \in DOMAIN marked <=> \/ r.kind = "mark" /\ r.at # "first"
                               \/ r.kind = "update"
                               \/ r.kind = "delete" /\ r.at = "first"
    /\ r.kind = "update" /\ r.at # "first" => marked[m].code = r.value
    /\ r.kind = "update" /\ page[m].at = "shown" /\ m \notin edited => page[m].text = r.value

\* Once it is answered, table and page agree.
Answered(m) ==
    /\ m \in DOMAIN marked <=> page[m].at \in {"shown", "gone"}
    /\ page[m].check =>
          m \in DOMAIN marked /\ (m \notin edited => marked[m].code = page[m].text)

Alone(m) == \A r, s \in requests : r.about = m /\ s.about = m => r = s

MarkHolds(m) ==
    m \notin failed \cup raced =>
        /\ Alone(m)
        /\ \A r \in requests : r.about = m => UnderWay(m, r)
        /\ (\A r \in requests : r.about # m) => Answered(m)

MarksInv == \A m \in Marks : MarkHolds(m)


\* A mark whose page, row and requests a step leaves alone.
LEMMA UntouchedMark ==
    ASSUME NEW m \in Marks, MarkHolds(m), m \notin failed' \cup raced' => m \notin failed \cup raced,
           \A r \in requests' : r.about = m => r \in requests,
           \A r \in requests : r.about = m => r \in requests',
           page'[m] = page[m], m \in edited' <=> m \in edited,
           m \in DOMAIN marked' <=> m \in DOMAIN marked,
           m \in DOMAIN marked => marked'[m] = marked[m]
    PROVE  MarkHolds(m)'
BY DEF MarkHolds, Alone, UnderWay, Answered

\* A page that sends a request about a mark while none is under way about it finds
\* the mark answered.
LEMMA SendMarks ==
    ASSUME MarksTyped, MarksInv, NEW q \in Request, Addressed(q),
           q = [kind |-> q.kind, judge |-> q.judge, about |-> q.about, value |-> q.value,
                routine |-> seen[q.judge], at |-> "first"],
           Send(q.kind, q.judge, q.about, q.value),
           \A m \in Marks \ {q.about} : page'[m] = page[m] /\ (m \in edited' <=> m \in edited),
           ASSUME q.about \in Marks, q.about \notin failed' \cup raced', Answered(q.about),
                  UNCHANGED marked
           PROVE  UnderWay(q.about, q)',
           page' \in [Marks -> PageRow], q.about \in Marks => RowHolds(q.about)'
    PROVE  MarksTyped' /\ MarksInv'
<1>1. /\ requests' = requests \cup {q}
      /\ UNCHANGED <<marked, routine, failed, seen>>
      /\ raced' = IF \E s \in requests : s.about = q.about THEN raced \cup {q.about} ELSE raced
  BY DEF Send, cache, tables
<1>2. MarksTyped'
  <2>1. ASSUME NEW m \in Marks PROVE RowHolds(m)'
    BY <1>1, <2>1 DEF MarksTyped, RowHolds
  <2> QED BY <1>1, <2>1 DEF MarksTyped, Addressed
<1>3. ASSUME NEW m \in Marks PROVE MarkHolds(m)'
  <2>1. CASE m # q.about
    <3>1. \A r \in requests' : r.about = m => r \in requests
      BY <1>1, <2>1
    <3>2. page'[m] = page[m] /\ (m \in edited' <=> m \in edited)
      BY <2>1
    <3> QED BY <1>1, <3>1, <3>2, UntouchedMark DEF MarksInv
  <2>2. CASE m = q.about
    <3>1. ASSUME m \notin failed' \cup raced'
          PROVE  /\ \A r \in requests' : r.about = m => r = q
                 /\ UnderWay(m, q)'
      <4>1. m \notin failed \cup raced /\ \A r \in requests : r.about # m
        BY <1>1, <2>2, <3>1
      <4>2. Answered(m)
        BY <4>1 DEF MarksInv, MarkHolds
      <4> QED BY <1>1, <2>2, <3>1, <4>1, <4>2
    <3> QED BY <1>1, <2>2, <3>1 DEF MarkHolds, Alone
  <2> QED BY <2>1, <2>2
<1> QED BY <1>2, <1>3 DEF MarksInv

\* The steps of the pages keep the life of every mark.
LEMMA PageMarks ==
    ASSUME MarksTyped, MarksInv, PageSteps PROVE MarksTyped' /\ MarksInv'
<1> USE OwnerAssumption, NilAssumption
<1>1. ASSUME NEW m \in Marks, PressMark(m) PROVE MarksTyped' /\ MarksInv'
  <2>1. PICK q : q = [kind |-> "mark", judge |-> Owner[m], about |-> m, value |-> Blank,
                      routine |-> seen[Owner[m]], at |-> "first"]
    OBVIOUS
  <2>2. /\ page' = [page EXCEPT ![m] = Row("shown")] /\ UNCHANGED edited
        /\ page[m].at = "unused" /\ seen[Owner[m]] \in Routines
        /\ Send("mark", Owner[m], m, Blank)
    BY <1>1 DEF PressMark, MarksTyped
  <2>3. q \in Request /\ Addressed(q)
    BY <2>1, <2>2 DEF Request, Addressed, Code
  <2>4. page' \in [Marks -> PageRow] /\ page'[m] = Row("shown")
    BY <2>2 DEF MarksTyped, PageRow, Row, Code
  <2>5. ASSUME Answered(m), UNCHANGED marked PROVE UnderWay(m, q)'
    BY <2>1, <2>2, <2>4, <2>5 DEF UnderWay, Answered, Row
  <2>6. /\ q.kind = "mark" /\ q.judge = Owner[m] /\ q.about = m /\ q.value = Blank
        /\ q.routine = seen[Owner[m]] /\ q.at = "first"
    BY <2>1
  <2>7. \A n \in Marks \ {q.about} : page'[n] = page[n] /\ (n \in edited' <=> n \in edited)
    BY <2>2, <2>6 DEF MarksTyped
  <2>8. RowHolds(q.about)'
    BY <2>2, <2>4, <2>6 DEF RowHolds, MarksTyped, Row, Send
  <2> QED BY <2>1, <2>2, <2>3, <2>4, <2>5, <2>6, <2>7, <2>8, SendMarks
<1>2. ASSUME NEW m \in Marks, RemoveMark(m) PROVE MarksTyped' /\ MarksInv'
  <2>1. PICK q : q = [kind |-> "delete", judge |-> Owner[m], about |-> m, value |-> Blank,
                      routine |-> seen[Owner[m]], at |-> "first"]
    OBVIOUS
  <2>2. /\ page' = [page EXCEPT ![m] = Row("removed")] /\ edited' = edited \ {m}
        /\ page[m].at = "shown" /\ seen[Owner[m]] \in Routines
        /\ Send("delete", Owner[m], m, Blank)
    BY <1>2 DEF RemoveMark, MarksTyped, RowHolds
  <2>3. q \in Request /\ Addressed(q)
    BY <2>1, <2>2 DEF Request, Addressed, Code
  <2>4. page' \in [Marks -> PageRow] /\ page'[m] = Row("removed")
    BY <2>2 DEF MarksTyped, PageRow, Row, Code
  <2>5. ASSUME Answered(m), UNCHANGED marked PROVE UnderWay(m, q)'
    BY <2>1, <2>2, <2>4, <2>5 DEF UnderWay, Answered, Row
  <2>6. /\ q.kind = "delete" /\ q.judge = Owner[m] /\ q.about = m /\ q.value = Blank
        /\ q.routine = seen[Owner[m]] /\ q.at = "first"
    BY <2>1
  <2>7. \A n \in Marks \ {q.about} : page'[n] = page[n] /\ (n \in edited' <=> n \in edited)
    BY <2>2, <2>6 DEF MarksTyped
  <2>8. RowHolds(q.about)'
    BY <2>2, <2>4, <2>6 DEF RowHolds, MarksTyped, Row, Send
  <2> QED BY <2>1, <2>2, <2>3, <2>4, <2>5, <2>6, <2>7, <2>8, SendMarks
<1>3. ASSUME NEW m \in Marks, KeyUp(m) PROVE MarksTyped' /\ MarksInv'
  <2>1. PICK q : q = [kind |-> "update", judge |-> Owner[m], about |-> m,
                      value |-> page[m].text, routine |-> seen[Owner[m]], at |-> "first"]
    OBVIOUS
  <2>2. /\ UNCHANGED page /\ edited' = edited \ {m}
        /\ page[m].at = "shown" /\ page[m].text \in Codes /\ ~page[m].check
        /\ seen[Owner[m]] \in Routines
        /\ Send("update", Owner[m], m, page[m].text)
    BY <1>3 DEF KeyUp, MarksTyped, RowHolds
  <2>3. q \in Request /\ Addressed(q)
    BY <2>1, <2>2 DEF Request, Addressed, Code
  <2>4. page' \in [Marks -> PageRow]
    BY <2>2 DEF MarksTyped
  <2>5. ASSUME Answered(m), UNCHANGED marked PROVE UnderWay(m, q)'
    BY <2>1, <2>2, <2>5 DEF UnderWay, Answered
  <2>6. /\ q.kind = "update" /\ q.judge = Owner[m] /\ q.about = m /\ q.value = page[m].text
        /\ q.routine = seen[Owner[m]] /\ q.at = "first"
    BY <2>1
  <2>7. \A n \in Marks \ {q.about} : page'[n] = page[n] /\ (n \in edited' <=> n \in edited)
    BY <2>2, <2>6 DEF MarksTyped
  <2>8. RowHolds(q.about)'
    BY <2>2, <2>4, <2>6 DEF RowHolds, MarksTyped, Row, Send
  <2> QED BY <2>1, <2>2, <2>3, <2>4, <2>5, <2>6, <2>7, <2>8, SendMarks
<1>4. ASSUME NEW j \in Judges, UpdateStatus(j) PROVE MarksTyped' /\ MarksInv'
  <2>1. /\ seen' = [seen EXCEPT ![j] = routine] /\ routine \in Routines
        /\ page' = [m \in Marks |-> IF Owner[m] = j /\ page[m].at = "shown" THEN Row("gone")
                                    ELSE page[m]]
        /\ edited' = {m \in edited : Owner[m] # j}
        /\ UNCHANGED <<routine, marked, requests, failed, raced>>
    BY <1>4 DEF UpdateStatus, cache, tables, MarksTyped
  <2>2. MarksTyped'
    <3>1. page' \in [Marks -> PageRow] /\ seen' \in [Judges -> Routines \cup {Nil}]
      BY <2>1 DEF MarksTyped, PageRow, Row, Code
    <3>2. ASSUME NEW m \in Marks PROVE RowHolds(m)'
      BY <2>1, <3>2 DEF MarksTyped, RowHolds, Row
    <3> QED BY <2>1, <3>1, <3>2 DEF MarksTyped
  <2>3. ASSUME NEW m \in Marks PROVE MarkHolds(m)'
    <3>1. page'[m] = IF Owner[m] = j /\ page[m].at = "shown" THEN Row("gone") ELSE page[m]
      BY <2>1
    <3>2. CASE Owner[m] = j /\ page[m].at = "shown"
      <4>1. page'[m].at = "gone" /\ ~page'[m].check
        BY <3>1, <3>2 DEF Row
      <4>2. ASSUME NEW r \in requests, r.about = m, UnderWay(m, r) PROVE UnderWay(m, r)'
        BY <2>1, <3>2, <4>1, <4>2 DEF UnderWay
      <4>3. Answered(m) => Answered(m)'
        BY <2>1, <3>2, <4>1 DEF Answered
      <4>4. Alone(m) => Alone(m)'
        BY <2>1 DEF Alone
      <4> QED BY <2>1, <4>2, <4>3, <4>4 DEF MarksInv, MarkHolds
    <3>3. CASE page[m].at # "shown" /\ Owner[m] = j
      <4>1. ~page[m].check
        BY <3>3 DEF MarksTyped, RowHolds
      <4> QED BY <2>1, <3>1, <3>3, <4>1 DEF MarksInv, MarkHolds, Alone, UnderWay, Answered
    <3>4. CASE Owner[m] # j
      BY <2>1, <3>1, <3>4 DEF MarksInv, MarkHolds, Alone, UnderWay, Answered
    <3> QED BY <3>2, <3>3, <3>4
  <2> QED BY <2>2, <2>3 DEF MarksInv
<1>6. ASSUME NEW m \in Marks, NEW text \in Codes \cup {Blank}, Type(m, text)
      PROVE  MarksTyped' /\ MarksInv'
  <2>1. /\ page[m].at = "shown"
        /\ page' = [page EXCEPT ![m].text = text, ![m].check = FALSE]
        /\ edited' = IF \E r \in requests : r.kind = "update" /\ r.about = m
                     THEN edited \cup {m} ELSE edited \ {m}
        /\ UNCHANGED <<routine, seen, marked, requests, failed, raced>>
    BY <1>6 DEF Type, cache, tables
  <2>2. page' \in [Marks -> PageRow] /\ page'[m] = [at |-> "shown", text |-> text, check |-> FALSE]
    BY <2>1 DEF MarksTyped, PageRow, Code
  <2>3. ASSUME NEW n \in Marks PROVE MarkHolds(n)'
    <3>1. CASE n # m
      <4>1. page'[n] = page[n] /\ (n \in edited' <=> n \in edited)
        BY <2>1, <3>1 DEF MarksTyped
      <4> QED BY <2>1, <4>1, UntouchedMark DEF MarksInv
    <3>2. CASE n = m
      BY <2>1, <2>2, <3>2 DEF MarksInv, MarkHolds, Alone, UnderWay, Answered
    <3> QED BY <3>1, <3>2
  <2>4. ASSUME NEW n \in Marks PROVE RowHolds(n)'
    BY <2>1, <2>2 DEF MarksTyped, RowHolds
  <2> QED BY <2>1, <2>2, <2>3, <2>4 DEF MarksTyped, MarksInv
<1>5. ASSUME NEW j \in Judges, NEW result \in Results, SubmitResults(j, result)
      PROVE MarksTyped' /\ MarksInv'
  <2>1. PICK q : q = [kind |-> "nandu", judge |-> j, about |-> j, value |-> result,
                      routine |-> seen[j], at |-> "first"]
    OBVIOUS
  <2>2. /\ seen[j] \in Routines /\ Ruleset[seen[j]] = "IWUF"
        /\ Send("nandu", j, j, result) /\ UNCHANGED <<page, edited>>
    BY <1>5 DEF SubmitResults, MarksTyped
  <2>3. q \in Request /\ Addressed(q) /\ q.about \notin Marks
    BY <2>1, <2>2 DEF Request, Addressed, Code
  <2> QED BY <2>1, <2>2, <2>3, SendMarks DEF MarksTyped
<1> QED BY <1>1, <1>2, <1>3, <1>4, <1>5, <1>6 DEF PageSteps

\* A handler that goes on to its next step changes nothing of the other marks.
LEMMA AdvanceMarks ==
    ASSUME MarksTyped, MarksInv, NEW r \in requests,
           NEW at \in {"second", "third"}, GoesOn(r, at),
           UNCHANGED <<page, seen, edited, routine, failed, raced>>,
           DOMAIN marked' \subseteq Marks,
           marked' \in [DOMAIN marked' -> [routine : Routines, code : Code]],
           \A m \in Marks \ {r.about} :
               /\ m \in DOMAIN marked' <=> m \in DOMAIN marked
               /\ m \in DOMAIN marked => marked'[m] = marked[m],
           ASSUME NEW q \in Request, q = [r EXCEPT !.at = at], r.about \in Marks,
                  UnderWay(r.about, r)
           PROVE  UnderWay(r.about, q)'
    PROVE  MarksTyped' /\ MarksInv'
<1>1. PICK q : q = [r EXCEPT !.at = at]
  OBVIOUS
<1>2. /\ q \in Request /\ Addressed(q) /\ q.kind = r.kind /\ q.value = r.value
      /\ q.about = r.about /\ q.at = at
  BY <1>1 DEF MarksTyped, Request, Addressed
<1>3. requests' = (requests \ {r}) \cup {q}
  BY <1>1 DEF GoesOn
<1>4. MarksTyped'
  <2>1. \A m \in Marks : RowHolds(m)'
    BY DEF MarksTyped, RowHolds
  <2> QED BY <1>2, <1>3, <2>1 DEF MarksTyped, Addressed
<1>5. ASSUME NEW m \in Marks PROVE MarkHolds(m)'
  <2>1. CASE m # r.about
    <3>1. /\ \A s \in requests' : s.about = m => s \in requests
          /\ \A s \in requests : s.about = m => s \in requests'
      BY <1>2, <1>3, <2>1
    <3> QED BY <2>1, <3>1, UntouchedMark DEF MarksInv
  <2>2. CASE m = r.about
    <3>1. ASSUME m \notin failed' \cup raced'
          PROVE  (\A s \in requests' : s.about = m => s = q) /\ UnderWay(m, q)'
      <4>1. (\A s \in requests : s.about = m => s = r) /\ UnderWay(m, r)
        BY <2>2, <3>1 DEF MarksInv, MarkHolds, Alone
      <4> QED BY <1>1, <1>2, <1>3, <2>2, <4>1
    <3> QED BY <1>2, <1>3, <2>2, <3>1 DEF MarkHolds, Alone
  <2> QED BY <2>1, <2>2
<1> QED BY <1>4, <1>5 DEF MarksInv

\* Neither does a handler that ends.
LEMMA EndMarks ==
    ASSUME MarksTyped, MarksInv, NEW r \in requests, End(r),
           UNCHANGED <<seen, edited, routine, marked, raced>>,
           page' \in [Marks -> PageRow],
           \A m \in Marks : m \in failed => m \in failed',
           \A m \in Marks \ {r.about} : page'[m] = page[m],
           \A m \in Marks : /\ page'[m].at = page[m].at
                            /\ page'[m].check => page[m].check \/ page[m].at = "shown",
           ASSUME r.about \in Marks, r.about \notin failed', UnderWay(r.about, r)
           PROVE  Answered(r.about)'
    PROVE  MarksTyped' /\ MarksInv'
<1>1. requests' = requests \ {r}
  BY DEF End
<1>2. MarksTyped'
  <2>1. ASSUME NEW m \in Marks PROVE RowHolds(m)'
    BY <2>1 DEF MarksTyped, RowHolds
  <2> QED BY <1>1, <2>1 DEF MarksTyped, Addressed
<1>3. ASSUME NEW m \in Marks PROVE MarkHolds(m)'
  <2>1. CASE m # r.about
    <3>1. /\ \A s \in requests' : s.about = m => s \in requests
          /\ \A s \in requests : s.about = m => s \in requests'
      BY <1>1, <2>1
    <3> QED BY <2>1, <3>1, UntouchedMark DEF MarksInv
  <2>2. CASE m = r.about
    <3>1. ASSUME m \notin failed' \cup raced'
          PROVE  (\A s \in requests' : s.about # m) /\ Answered(m)'
      <4>1. (\A s \in requests : s.about = m => s = r) /\ UnderWay(m, r)
        BY <2>2, <3>1 DEF MarksInv, MarkHolds, Alone
      <4> QED BY <1>1, <2>2, <3>1, <4>1
    <3> QED BY <3>1 DEF MarkHolds, Alone
  <2> QED BY <2>1, <2>2
<1> QED BY <1>2, <1>3 DEF MarksInv

\* The steps of the handlers keep the life of every mark.
LEMMA HandlerMarks ==
    ASSUME MarksTyped, MarksInv, HandlerSteps PROVE MarksTyped' /\ MarksInv'
<1> USE OwnerAssumption, NilAssumption DEF Awaits, clients, cache, tables, Advance, GoesOn
<1> SUFFICES ASSUME NEW r \in requests,
                    \/ SaveDeductionMark(r) \/ SetDeduction(r)
                    \/ UpdateDeductionMark(r) \/ UpdateDeduction(r)
                    \/ RemoveDeductionMark(r) \/ DeleteDeduction(r)
                    \/ LoadDeductions(r)
                    \/ ParseNanduScores(r) \/ SaveNanduScore(r) \/ DbFails(r)
             PROVE  MarksTyped' /\ MarksInv'
  BY DEF HandlerSteps
<1>0. /\ r \in Request /\ Addressed(r)
      /\ page \in [Marks -> PageRow]
      /\ DOMAIN marked \subseteq Marks
      /\ marked \in [DOMAIN marked -> [routine : Routines, code : Code]]
  BY DEF MarksTyped
<1>1. CASE SaveDeductionMark(r)
  <2>1. /\ r.kind = "mark" /\ r.at = "first" /\ r.about \in Marks /\ Advance(r)
        /\ UNCHANGED <<page, seen, edited, routine, failed, raced>>
        /\ marked' = [m \in DOMAIN marked \cup {r.about} |->
                        IF m = r.about THEN [routine |-> r.routine, code |-> r.value]
                        ELSE marked[m]]
    BY <1>0, <1>1 DEF SaveDeductionMark, Addressed
  <2>2. [routine |-> r.routine, code |-> r.value] \in [routine : Routines, code : Code]
    BY <1>0, <2>1 DEF Request, Addressed
  <2>3. /\ DOMAIN marked' = DOMAIN marked \cup {r.about}
        /\ marked' \in [DOMAIN marked' -> [routine : Routines, code : Code]]
    BY <1>0, <2>1, <2>2
  <2>4. ASSUME NEW q \in Request, q = [r EXCEPT !.at = "second"], UnderWay(r.about, r)
        PROVE  UnderWay(r.about, q)'
    BY <1>0, <2>1, <2>3, <2>4 DEF UnderWay, Request
  <2> QED BY <1>0, <2>1, <2>3, <2>4, AdvanceMarks
<1>2. CASE SetDeduction(r)
  <2>1. /\ r.kind = "mark" /\ r.at = "third" /\ End(r)
        /\ UNCHANGED <<page, seen, edited, routine, marked, failed, raced>>
    BY <1>2 DEF SetDeduction, Store
  <2>2. ASSUME UnderWay(r.about, r) PROVE Answered(r.about)'
    <3>1. page[r.about].at \in {"unused", "shown", "removed", "gone"} \/ r.about \notin Marks
      BY <1>0 DEF PageRow
    <3> QED BY <1>0, <2>1, <2>2, <3>1 DEF UnderWay, Answered, Addressed
  <2> QED BY <1>0, <2>1, <2>2, EndMarks
<1>3. CASE UpdateDeductionMark(r)
  <2>1. /\ r.kind = "update" /\ r.at = "first" /\ r.about \in Marks /\ Advance(r)
        /\ UNCHANGED <<page, seen, edited, routine, failed, raced>>
        /\ marked' = [m \in DOMAIN marked |->
                        IF m = r.about THEN [marked[m] EXCEPT !.code = r.value] ELSE marked[m]]
    BY <1>0, <1>3 DEF UpdateDeductionMark, Addressed
  <2>2. \A m \in DOMAIN marked :
           /\ [marked[m] EXCEPT !.code = r.value] \in [routine : Routines, code : Code]
           /\ [marked[m] EXCEPT !.code = r.value].code = r.value
    BY <1>0, <2>1 DEF Addressed
  <2>3. /\ DOMAIN marked' = DOMAIN marked
        /\ marked' \in [DOMAIN marked' -> [routine : Routines, code : Code]]
    BY <1>0, <2>1, <2>2
  <2>4. ASSUME NEW q \in Request, q = [r EXCEPT !.at = "second"], UnderWay(r.about, r)
        PROVE  UnderWay(r.about, q)'
    BY <1>0, <2>1, <2>2, <2>3, <2>4 DEF UnderWay, Request
  <2> QED BY <1>0, <2>1, <2>3, <2>4, AdvanceMarks
<1>4. CASE UpdateDeduction(r)
  <2>1. /\ r.kind = "update" /\ r.at = "third" /\ r.about \in Marks /\ r.value \in Code
        /\ End(r)
        /\ UNCHANGED <<marked, seen, edited, routine, failed, raced>>
        /\ page' = IF page[r.about].at = "shown" THEN [page EXCEPT ![r.about].check = TRUE]
                   ELSE page
    BY <1>0, <1>4 DEF UpdateDeduction, Addressed
  <2>2. /\ page' \in [Marks -> PageRow]
        /\ page[r.about].at = "shown" =>
              /\ page'[r.about].at = "shown" /\ page'[r.about].check
              /\ page'[r.about].text = page[r.about].text
    <3>1. page[r.about] \in PageRow
      BY <1>0, <2>1
    <3>2. \A x \in PageRow : /\ [x EXCEPT !.check = TRUE] \in PageRow
                             /\ [x EXCEPT !.check = TRUE].at = x.at
                             /\ [x EXCEPT !.check = TRUE].text = x.text
                             /\ [x EXCEPT !.check = TRUE].check
      BY DEF PageRow
    <3>3. page[r.about].at = "shown" =>
             page' = [page EXCEPT ![r.about] = [page[r.about] EXCEPT !.check = TRUE]]
      BY <2>1
    <3> QED BY <1>0, <2>1, <3>1, <3>2, <3>3
  <2>3. ASSUME UnderWay(r.about, r) PROVE Answered(r.about)'
    <3>1. page[r.about].at \in {"unused", "shown", "removed", "gone"}
      BY <1>0, <2>1 DEF PageRow
    <3>2. page[r.about].at # "shown" => page' = page
      BY <2>1
    <3>3. r.about \in DOMAIN marked /\ marked[r.about].code = r.value
      BY <2>1, <2>3 DEF UnderWay
    <3> QED BY <1>0, <2>1, <2>2, <2>3, <3>1, <3>2, <3>3 DEF UnderWay, Answered
  <2> QED BY <1>0, <2>1, <2>2, <2>3, EndMarks
<1>5. CASE RemoveDeductionMark(r)
  <2>1. /\ r.kind = "delete" /\ r.at = "first" /\ r.about \in Marks /\ Advance(r)
        /\ UNCHANGED <<page, seen, edited, routine, failed, raced>>
        /\ marked' = [m \in DOMAIN marked \ {r.about} |-> marked[m]]
    BY <1>0, <1>5 DEF RemoveDeductionMark, Addressed
  <2>2. /\ DOMAIN marked' = DOMAIN marked \ {r.about}
        /\ marked' \in [DOMAIN marked' -> [routine : Routines, code : Code]]
    BY <1>0, <2>1
  <2>3. ASSUME NEW q \in Request, q = [r EXCEPT !.at = "second"], UnderWay(r.about, r)
        PROVE  UnderWay(r.about, q)'
    BY <1>0, <2>1, <2>2, <2>3 DEF UnderWay, Request
  <2> QED BY <1>0, <2>1, <2>2, <2>3, AdvanceMarks
<1>6. CASE DeleteDeduction(r)
  BY <1>0, <1>6, EndMarks DEF DeleteDeduction, Store, UnderWay, Answered
<1>7. CASE ParseNanduScores(r)
  <2>1. r.about \notin Marks /\ UNCHANGED <<page, seen, edited, routine, marked, failed, raced>>
    BY <1>0, <1>7 DEF ParseNanduScores, Addressed, Request
  <2>2. CASE End(r)
    BY <1>0, <2>1, <2>2, EndMarks
  <2>3. CASE Advance(r)
    BY <1>0, <2>1, <2>3, AdvanceMarks
  <2> QED BY <1>7, <2>2, <2>3 DEF ParseNanduScores
<1>8. CASE SaveNanduScore(r)
  <2>1. /\ r.about \notin Marks /\ r.judge \notin Marks
        /\ UNCHANGED <<page, seen, edited, routine, marked, raced>>
        /\ failed' = failed \ {r.judge} /\ End(r)
    BY <1>0, <1>8 DEF SaveNanduScore, Addressed, Request
  <2> QED BY <1>0, <2>1, EndMarks
<1>10. CASE LoadDeductions(r)
  <2>1. /\ r.kind # "nandu" /\ r.at = "second" /\ r.about \in Marks /\ GoesOn(r, "third")
        /\ UNCHANGED <<page, seen, edited, routine, marked, failed, raced>>
    BY <1>0, <1>10 DEF LoadDeductions, Addressed
  <2>2. ASSUME NEW q \in Request, q = [r EXCEPT !.at = "third"], UnderWay(r.about, r)
        PROVE  UnderWay(r.about, q)'
    <3>1. q.kind = r.kind /\ q.value = r.value /\ q.at = "third"
      BY <1>0, <2>2 DEF Request
    <3> QED BY <2>1, <2>2, <3>1 DEF UnderWay
  <2> QED BY <1>0, <2>1, <2>2, AdvanceMarks
<1>9. CASE DbFails(r)
  BY <1>0, <1>9, EndMarks DEF DbFails
<1> QED BY <1>1, <1>2, <1>3, <1>4, <1>5, <1>6, <1>7, <1>8, <1>9, <1>10

\* So do those of SetCompetitor, which only reads the tables.
LEMMA SelectionMarks ==
    ASSUME MarksTyped, MarksInv, SelectionSteps PROVE MarksTyped' /\ MarksInv'
<1>1. /\ UNCHANGED <<requests, page, seen, edited, marked, raced>>
      /\ \A m \in Marks : m \in failed => m \in failed'
      /\ routine' \in Routines \cup {Nil}
  BY NilAssumption
  DEF SelectionSteps, ResetState, ReadDeductions, ReadDeductionsFails, FillDeductions,
      ReadNandusheet, ReadNandusheetFails, ReadNandu, ReadNanduFails, ParseRead, Goto,
      MarksTyped, cache, tables, clients
<1>2. \A m \in Marks : MarkHolds(m)'
  BY <1>1, UntouchedMark DEF MarksInv
<1>3. \A m \in Marks : RowHolds(m)'
  BY <1>1 DEF MarksTyped, RowHolds
<1> QED BY <1>1, <1>2, <1>3 DEF MarksTyped, MarksInv

\* The life of a mark, in every reachable state.
LEMMA MarksInvariant == Spec => [](MarksTyped /\ MarksInv)
<1>1. Init => MarksTyped /\ MarksInv
  BY NilAssumption, OwnerAssumption
  DEF Init, MarksTyped, RowHolds, MarksInv, MarkHolds, Alone, Answered, Code, PageRow, Row
<1>2. MarksTyped /\ MarksInv /\ [Next]_vars => (MarksTyped /\ MarksInv)'
  <2> SUFFICES ASSUME MarksTyped, MarksInv, [Next]_vars PROVE MarksTyped' /\ MarksInv'
    OBVIOUS
  <2>1. CASE UNCHANGED vars
    BY <2>1 DEF vars, cache, tables, clients, MarksTyped, RowHolds, MarksInv, MarkHolds,
                Alone, UnderWay, Answered
  <2> QED BY <2>1, PageMarks, HandlerMarks, SelectionMarks DEF Next
<1> QED BY <1>1, <1>2, PTL DEF Spec

\* A check mark on a judge's page stands for a row of the table, and for one with the
\* text beside it unless the judge typed on while the update was on its way: whatever the
\* other requests, failures and selections, and unless a request about this very mark
\* failed or overtook another.
THEOREM CheckMarksAreTrue == Spec => []CheckMarkIsTrue
<1>1. MarksTyped /\ MarksInv => CheckMarkIsTrue
  BY DEF MarksInv, MarkHolds, Answered, CheckMarkIsTrue, Quiet
<1> QED BY <1>1, MarksInvariant, PTL

\* A mark that its judge has removed has no row, and so no selection brings it back.
THEOREM RemovedMarksStayRemoved == Spec => []RemovedStaysRemoved
<1>1. MarksTyped /\ MarksInv => RemovedStaysRemoved
  BY NilAssumption DEF MarksInv, MarkHolds, Answered, RemovedStaysRemoved, Quiet
<1> QED BY <1>1, MarksInvariant, PTL

-----------------------------------------------------------------------------
(* The C panel's results.  As long as nothing has disturbed the ring since   *)
(* the selection of its routine, no request meets the selection and all are  *)
(* about this routine, so that the cache is the table and what is under way. *)

ResultMap == [Judges -> Results \cup {Nil}]

Filled == {"fill", "sheet", "nandu", "parse"}

NanduTyped ==
    /\ nanduRows \in Seq([routine : Routines, judge : Judges, result : Results])
    /\ \A i \in DOMAIN nanduRows : Ruleset[nanduRows[i].routine] = "IWUF"
    /\ nanduScores = Nil \/ nanduScores \in ResultMap
    /\ nandusheet \in BOOLEAN
    /\ nandusheet \/ selecting.at \in Filled => nanduScores \in ResultMap
    /\ selecting.at \in {"idle", "marks"} \cup Filled
    /\ selecting.at = "parse" => \A j \in Judges : selecting.rows[j] \in Results \cup {Nil}

\* The cache holds the result whose insert is under way, else the last one.
ResultHolds(j) ==
    j \notin raced =>
        /\ \A r \in requests : r.about = j /\ r.at = "second" => nanduScores[j] = r.value
        /\ j \notin failed /\ (\A r \in requests : r.about = j => r.at = "first") =>
              nanduScores[j] = LastResult(j)

\* Once the maps are made they are empty until the rows are read and parsed.
SelectionHolds ==
    /\ selecting.at \in Filled => nanduScores = NoResults
    /\ selecting.at \in {"nandu", "parse"} => nandusheet
    /\ selecting.at = "parse" => \A j \in Judges : selecting.rows[j] = LastResult(j)
    /\ selecting.at = "idle" /\ (nandusheet \/ nanduScores # Nil) =>
          \A j \in Judges : ResultHolds(j)

NanduInv ==
    /\ \A j \in Judges : j \notin raced => Alone(j)
    /\ ~disturbed =>
          /\ selecting.at # "idle" => requests = {}
          /\ \A r \in requests : r.routine = routine
          /\ "read" \notin failed => SelectionHolds

\* A non-empty set of indices has a last one.
LEMMA MaxIsMember ==
    ASSUME NEW n \in Nat, NEW S \in SUBSET (1..n), S # {}
    PROVE  Max(S) \in S
<1> DEFINE Bounds == {x \in Nat : \A i \in S : i <= x}
<1>1. Bounds \subseteq Nat /\ n \in Bounds
  OBVIOUS
<1>2. PICK x \in Bounds : \A y \in Bounds : <<y, x>> \notin OpToRel(<, Nat)
  BY <1>1, WFMin, NatLessThanWellFounded
<1>3. \A y \in Bounds : ~ (y < x)
  BY <1>1, <1>2 DEF OpToRel
<1>4. x \in S
  <2> SUFFICES ASSUME x \notin S PROVE x - 1 \in Bounds
    BY <1>3
  <2>1. PICK i \in S : TRUE
    OBVIOUS
  <2>2. x \in Nat /\ \A k \in S : k \in Nat /\ k <= x /\ k # x
    OBVIOUS
  <2> QED BY <2>1, <2>2
<1> QED BY <1>4 DEF Max

\* An inserted row is the last one of its judge, and leaves the others' last rows.
LEMMA InsertedIsLast ==
    ASSUME NanduTyped, routine \in Routines, UNCHANGED routine, NEW j \in Judges,
           NEW result \in Results,
           nanduRows' = Append(nanduRows, [routine |-> routine, judge |-> j, result |-> result])
    PROVE  /\ LastResult(j)' = result
           /\ \A k \in Judges \ {j} : LastResult(k)' = LastResult(k)
<1> DEFINE row == [routine |-> routine, judge |-> j, result |-> result]
           n == Len(nanduRows) + 1
<1>1. row \in [routine : Routines, judge : Judges, result : Results]
  OBVIOUS
<1>2. /\ nanduRows \in Seq([routine : Routines, judge : Judges, result : Results])
      /\ n \in Nat /\ DOMAIN nanduRows = 1..(n - 1)
      /\ DOMAIN nanduRows' = 1..n /\ nanduRows'[n] = row
      /\ \A i \in 1..(n - 1) : nanduRows'[i] = nanduRows[i]
  BY <1>1 DEF NanduTyped
<1>3. ASSUME NEW k \in Judges \ {j} PROVE LastResult(k)' = LastResult(k)
  <2>1. RowsOf(routine, k)' = RowsOf(routine, k) /\ RowsOf(routine, k) \subseteq 1..(n - 1)
    BY <1>2, <1>3 DEF RowsOf
  <2>2. CASE RowsOf(routine, k) = {}
    BY <2>1, <2>2 DEF LastResult
  <2>3. CASE RowsOf(routine, k) # {}
    <3> HIDE DEF n
    <3>1. n - 1 \in Nat
      BY <1>2 DEF n
    <3>2. Max(RowsOf(routine, k)) \in RowsOf(routine, k)
      BY <2>1, <2>3, <3>1, MaxIsMember
    <3>3. Max(RowsOf(routine, k)) \in 1..(n - 1)
      BY <2>1, <3>2
    <3> QED BY <1>2, <2>1, <2>3, <3>3 DEF LastResult
  <2> QED BY <2>2, <2>3
<1>4. LastResult(j)' = result
  <2>1. n \in RowsOf(routine, j)' /\ RowsOf(routine, j)' \subseteq 1..n
    BY <1>2 DEF RowsOf
  <2>2. \A i \in RowsOf(routine, j)' : n >= i
    BY <1>2, <2>1
  <2>3. Max(RowsOf(routine, j)') = n
    BY <1>2, <2>1, <2>2 DEF Max
  <2> QED BY <1>2, <2>1, <2>3 DEF LastResult
<1> QED BY <1>3, <1>4

\* What does not touch the cache, the tables and the requests.
LEMMA SameNandu ==
    ASSUME NanduTyped, NanduInv,
           UNCHANGED <<cache, tables, selecting, requests, disturbed, failed, raced>>
    PROVE  NanduTyped' /\ NanduInv'
<1>1. UNCHANGED <<routine, nanduScores, nandusheet, nanduRows, selecting, requests,
                  disturbed, failed, raced>>
  BY DEF cache, tables
<1>2. \A k \in Judges : LastResult(k)' = LastResult(k)
  BY <1>1 DEF LastResult, RowsOf
<1>3. \A k \in Judges : ResultHolds(k) => ResultHolds(k)'
  BY <1>1, <1>2 DEF ResultHolds
<1>4. SelectionHolds => SelectionHolds'
  BY <1>1, <1>2, <1>3 DEF SelectionHolds
<1> QED BY <1>1, <1>4 DEF NanduTyped, NanduInv, Alone

\* The steps of the pages keep what the cache holds of the C panel.
LEMMA PageNandu ==
    ASSUME MarksTyped, NanduTyped, NanduInv, PageSteps PROVE NanduTyped' /\ NanduInv'
<1> USE OwnerAssumption, NilAssumption
<1>1. ASSUME NEW kind, NEW j \in Judges, NEW about, NEW value, Send(kind, j, about, value)
      PROVE  NanduTyped' /\ NanduInv'
  <2>1. PICK q : q = [kind |-> kind, judge |-> j, about |-> about, value |-> value,
                      routine |-> seen[j], at |-> "first"]
    OBVIOUS
  <2>2. /\ requests' = requests \cup {q}
        /\ raced' = IF \E s \in requests : s.about = about THEN raced \cup {about} ELSE raced
        /\ disturbed' = (disturbed \/ selecting.at # "idle" \/ seen[j] # routine)
        /\ UNCHANGED <<routine, nanduScores, nandusheet, nanduRows, selecting, failed>>
    BY <1>1, <2>1 DEF Send, cache, tables
  <2>3. NanduTyped'
    BY <2>2 DEF NanduTyped
  <2>4. \A k \in Judges : LastResult(k)' = LastResult(k)
    BY <2>2 DEF LastResult, RowsOf
  <2>5. ASSUME NEW k \in Judges, k \notin raced' PROVE Alone(k)'
    BY <2>1, <2>2, <2>5 DEF NanduInv, Alone
  <2>6. ASSUME ~disturbed' PROVE \A r \in requests' : r.routine = routine'
    <3>1. ~disturbed /\ seen[j] = routine
      BY <2>2, <2>6
    <3>2. q.routine = routine
      BY <2>1, <3>1
    <3> QED BY <2>2, <3>1, <3>2 DEF NanduInv
  <2>7. ASSUME ~disturbed', "read" \notin failed' PROVE SelectionHolds'
    <3>1. SelectionHolds /\ selecting.at = "idle"
      BY <2>2, <2>7 DEF NanduInv
    <3>2. ASSUME NEW k \in Judges, ResultHolds(k) PROVE ResultHolds(k)'
      BY <2>1, <2>2, <2>4, <3>2 DEF ResultHolds
    <3> QED BY <2>2, <3>1, <3>2 DEF SelectionHolds
  <2> QED BY <2>2, <2>3, <2>5, <2>6, <2>7 DEF NanduInv
<1>2. ASSUME NEW j \in Judges, UpdateStatus(j) PROVE NanduTyped' /\ NanduInv'
  <2>1. UNCHANGED <<cache, tables, selecting, requests, disturbed, failed, raced>>
    BY <1>2 DEF UpdateStatus
  <2> QED BY <2>1, SameNandu
<1>3. ASSUME NEW m \in Marks, NEW text, Type(m, text) PROVE NanduTyped' /\ NanduInv'
  <2>1. UNCHANGED <<cache, tables, selecting, requests, disturbed, failed, raced>>
    BY <1>3 DEF Type
  <2> QED BY <2>1, SameNandu
<1> QED BY <1>1, <1>2, <1>3 DEF PageSteps, PressMark, KeyUp, RemoveMark, SubmitResults

\* A request in hand: it is well typed and the requests about other things stay.
LEMMA InHand ==
    ASSUME MarksTyped, NEW r \in requests
    PROVE  /\ r \in Request /\ Addressed(r)
           /\ r.kind = "nandu" => r.about = r.judge /\ r.judge \in Judges /\ r.judge \notin Marks
           /\ r.kind # "nandu" => r.about \in Marks /\ r.about \notin Judges
           /\ Moves(r) =>
                 /\ \A q \in requests' : q.about # r.about => q \in requests
                 /\ \A q \in requests : q.about # r.about => q \in requests'
                 /\ \A q \in requests' : \E p \in requests :
                       q.about = p.about /\ q.routine = p.routine
<1>1. r \in Request /\ Addressed(r)
  BY DEF MarksTyped
<1>2. /\ r.kind = "nandu" => r.about = r.judge /\ r.judge \in Judges /\ r.judge \notin Marks
      /\ r.kind # "nandu" => r.about \in Marks /\ r.about \notin Judges
  BY <1>1, NilAssumption DEF Request, Addressed
<1>3. \A at : [r EXCEPT !.at = at].about = r.about /\ [r EXCEPT !.at = at].routine = r.routine
  BY <1>1 DEF Request
<1> QED BY <1>1, <1>2, <1>3 DEF Moves, GoesOn, End

\* A handler of a mark changes nothing of the C panel.
LEMMA MarkHandlerNandu ==
    ASSUME MarksTyped, NanduTyped, NanduInv, NEW r \in requests, r.kind # "nandu",
           Moves(r),
           UNCHANGED <<routine, nanduScores, nandusheet, nanduRows, selecting, disturbed, raced>>,
           failed \subseteq failed'
    PROVE  NanduTyped' /\ NanduInv'
<1>1. /\ r.about \notin Judges
      /\ \A q \in requests' : q.about # r.about => q \in requests
      /\ \A q \in requests : q.about # r.about => q \in requests'
      /\ \A q \in requests' : \E p \in requests : q.about = p.about /\ q.routine = p.routine
  BY InHand
<1>2. \A k \in Judges : LastResult(k)' = LastResult(k)
  BY DEF LastResult, RowsOf
<1>3. \A k \in Judges : ResultHolds(k) => ResultHolds(k)'
  BY <1>1, <1>2 DEF ResultHolds
<1>4. SelectionHolds => SelectionHolds'
  BY <1>2, <1>3 DEF SelectionHolds
<1>5. \A k \in Judges : k \notin raced' => Alone(k)'
  BY <1>1 DEF NanduInv, Alone
<1>6. (\A q \in requests : q.routine = routine) => \A q \in requests' : q.routine = routine'
  BY <1>1
<1>7. requests # {}
  OBVIOUS
<1> QED BY <1>4, <1>5, <1>6, <1>7 DEF NanduTyped, NanduInv

\* The steps of the handlers keep what the cache holds of the C panel.
LEMMA HandlerNandu ==
    ASSUME MarksTyped, NanduTyped, NanduInv, HandlerSteps PROVE NanduTyped' /\ NanduInv'
<1> USE DEF Awaits, cache, tables
<1> SUFFICES ASSUME NEW r \in requests,
                    \/ SaveDeductionMark(r) \/ SetDeduction(r)
                    \/ UpdateDeductionMark(r) \/ UpdateDeduction(r)
                    \/ RemoveDeductionMark(r) \/ DeleteDeduction(r)
                    \/ LoadDeductions(r)
                    \/ ParseNanduScores(r) \/ SaveNanduScore(r) \/ DbFails(r)
             PROVE  NanduTyped' /\ NanduInv'
  BY DEF HandlerSteps
<1> DEFINE j == r.judge
<1>0. Advance(r) \/ End(r) \/ GoesOn(r, "third") => Moves(r)
  BY DEF Advance, GoesOn, Moves
<1>1. CASE SaveDeductionMark(r) \/ UpdateDeductionMark(r) \/ RemoveDeductionMark(r)
  BY <1>0, <1>1, MarkHandlerNandu DEF SaveDeductionMark, UpdateDeductionMark, RemoveDeductionMark
<1>2. CASE SetDeduction(r) \/ UpdateDeduction(r) \/ DeleteDeduction(r)
  <2>1. /\ r.kind # "nandu" /\ End(r)
        /\ UNCHANGED <<routine, nanduScores, nandusheet, nanduRows, selecting, disturbed,
                       failed, raced>>
    BY <1>2 DEF SetDeduction, UpdateDeduction, DeleteDeduction, Store
  <2> QED BY <1>0, <2>1, MarkHandlerNandu
<1>7. CASE LoadDeductions(r)
  BY <1>0, <1>7, MarkHandlerNandu DEF LoadDeductions, GoesOn
<1>3. CASE DbFails(r) /\ r.kind # "nandu"
  BY <1>0, <1>3, MarkHandlerNandu DEF DbFails
<1>4. CASE ParseNanduScores(r)
  <2>1. /\ r.kind = "nandu" /\ r.at = "first" /\ r.about = j /\ j \in Judges
        /\ r.value \in Results /\ r \in Request
        /\ UNCHANGED <<routine, nandusheet, nanduRows, selecting, disturbed, failed, raced>>
    BY <1>4, InHand DEF ParseNanduScores, Addressed
  <2>2. \A k \in Judges : LastResult(k)' = LastResult(k)
    BY <2>1 DEF LastResult, RowsOf
  <2>3. CASE ~nandusheet
    <3>1. requests' = requests \ {r} /\ nanduScores' = nanduScores
      BY <1>4, <2>3 DEF ParseNanduScores, End
    <3>2. \A k \in Judges : ResultHolds(k) => ResultHolds(k)'
      BY <2>1, <2>2, <3>1 DEF ResultHolds
    <3>3. SelectionHolds => SelectionHolds'
      BY <2>1, <2>2, <3>1, <3>2 DEF SelectionHolds
    <3> QED BY <2>1, <3>1, <3>3 DEF NanduTyped, NanduInv, Alone
  <2>4. CASE nandusheet
    <3>1. PICK q : q = [r EXCEPT !.at = "second"]
      OBVIOUS
    <3>2. q.about = j /\ q.value = r.value /\ q.routine = r.routine /\ q.at = "second"
      BY <2>1, <3>1 DEF Request
    <3>3. /\ requests' = (requests \ {r}) \cup {q}
          /\ nanduScores' = [nanduScores EXCEPT ![j] = r.value] /\ nanduScores \in ResultMap
      BY <1>4, <2>4, <3>1 DEF ParseNanduScores, Advance, NanduTyped
    <3>4. /\ nanduScores' \in ResultMap /\ nanduScores'[j] = r.value
          /\ \A k \in Judges \ {j} : nanduScores'[k] = nanduScores[k]
      BY <2>1, <3>3 DEF ResultMap
    <3>5. \A k \in Judges : k \notin raced' => Alone(k)'
      BY <2>1, <3>2, <3>3 DEF NanduInv, Alone
    <3>6. \A k \in Judges : ResultHolds(k) => ResultHolds(k)'
      <4>1. ASSUME NEW k \in Judges \ {j}, ResultHolds(k) PROVE ResultHolds(k)'
        BY <2>1, <2>2, <3>2, <3>3, <3>4, <4>1 DEF ResultHolds
      <4>2. ResultHolds(j)'
        BY <2>1, <3>2, <3>3, <3>4, <3>5 DEF ResultHolds, Alone
      <4> QED BY <4>1, <4>2
    <3>7. ASSUME ~disturbed
          PROVE  selecting.at = "idle" /\ \A p \in requests' : p.routine = routine
      BY <3>2, <3>3, <3>7 DEF NanduInv
    <3>8. selecting.at = "idle" /\ SelectionHolds => SelectionHolds'
      BY <2>1, <2>4, <3>6 DEF SelectionHolds, Filled
    <3> QED BY <2>1, <3>4, <3>5, <3>7, <3>8 DEF NanduTyped, NanduInv
  <2> QED BY <2>1, <2>3, <2>4 DEF NanduTyped
<1>5. CASE SaveNanduScore(r)
  <2>1. /\ r.kind = "nandu" /\ r.at = "second" /\ r.about = j /\ j \in Judges
        /\ r.value \in Results /\ r.routine \in Routines /\ Ruleset[r.routine] = "IWUF"
        /\ requests' = requests \ {r} /\ failed' = failed \ {j} /\ j # "read"
        /\ nanduRows' = Append(nanduRows,
                               [routine |-> r.routine, judge |-> j, result |-> r.value])
        /\ UNCHANGED <<routine, nanduScores, nandusheet, selecting, disturbed, raced>>
    BY <1>5, InHand, NilAssumption DEF SaveNanduScore, Addressed, Request, End
  <2>2. NanduTyped'
    <3>1. [routine |-> r.routine, judge |-> j, result |-> r.value]
             \in [routine : Routines, judge : Judges, result : Results]
      BY <2>1
    <3>2. /\ nanduRows' \in Seq([routine : Routines, judge : Judges, result : Results])
          /\ \A i \in DOMAIN nanduRows' : Ruleset[nanduRows'[i].routine] = "IWUF"
      BY <2>1, <3>1 DEF NanduTyped
    <3> QED BY <2>1, <3>2 DEF NanduTyped
  <2>3. \A k \in Judges : k \notin raced' => Alone(k)'
    BY <2>1 DEF NanduInv, Alone
  <2>4. ASSUME ~disturbed', "read" \notin failed' PROVE SelectionHolds'
    <3>1. /\ r.routine = routine /\ selecting.at = "idle" /\ SelectionHolds
      BY <2>1, <2>4 DEF NanduInv
    <3>2. LastResult(j)' = r.value /\ \A k \in Judges \ {j} : LastResult(k)' = LastResult(k)
      BY <2>1, <3>1, InsertedIsLast
    <3>3. ASSUME NEW k \in Judges, ResultHolds(k) PROVE ResultHolds(k)'
      <4>1. CASE k # j
        BY <2>1, <3>2, <3>3, <4>1 DEF ResultHolds
      <4>2. CASE k = j
        BY <2>1, <3>2, <3>3, <4>2 DEF ResultHolds, NanduInv, Alone
      <4> QED BY <4>1, <4>2
    <3> QED BY <2>1, <3>1, <3>3 DEF SelectionHolds, Filled
  <2>5. ASSUME ~disturbed'
        PROVE  selecting'.at = "idle" /\ \A p \in requests' : p.routine = routine'
    BY <2>1, <2>5 DEF NanduInv
  <2> QED BY <2>2, <2>3, <2>4, <2>5 DEF NanduInv
<1>6. CASE DbFails(r) /\ r.kind = "nandu"
  <2>1. /\ r.at = "second" /\ r.about = j /\ j \in Judges
        /\ requests' = requests \ {r} /\ failed' = failed \cup {j}
        /\ UNCHANGED <<routine, nanduScores, nandusheet, nanduRows, selecting, disturbed, raced>>
    BY <1>6, InHand DEF DbFails, End
  <2>2. \A k \in Judges : LastResult(k)' = LastResult(k)
    BY <2>1 DEF LastResult, RowsOf
  <2>3. ASSUME NEW k \in Judges, ResultHolds(k) PROVE ResultHolds(k)'
    BY <2>1, <2>2, <2>3 DEF ResultHolds
  <2>4. SelectionHolds => SelectionHolds'
    BY <2>1, <2>2, <2>3 DEF SelectionHolds
  <2> QED BY <2>1, <2>4 DEF NanduTyped, NanduInv, Alone
<1> QED BY <1>1, <1>2, <1>3, <1>4, <1>5, <1>6, <1>7

\* The last result of a judge is one of the results, if there is one; a routine
\* of another ruleset has none.
LEMMA LastResultType ==
    ASSUME NanduTyped, NEW j \in Judges
    PROVE  /\ LastResult(j) \in Results \cup {Nil}
           /\ Ruleset[routine] # "IWUF" => LastResult(j) = Nil
<1>1. /\ RowsOf(routine, j) \subseteq 1..Len(nanduRows) /\ Len(nanduRows) \in Nat
      /\ \A i \in 1..Len(nanduRows) : nanduRows[i].result \in Results
  <2> DEFINE Rows == [routine : Routines, judge : Judges, result : Results]
  <2>1. nanduRows \in Seq(Rows)
    BY DEF NanduTyped
  <2> HIDE DEF Rows
  <2>2. /\ DOMAIN nanduRows = 1..Len(nanduRows) /\ Len(nanduRows) \in Nat
        /\ \A i \in 1..Len(nanduRows) : nanduRows[i] \in Rows
    BY <2>1
  <2> QED BY <2>2 DEF RowsOf, Rows
<1>2. CASE RowsOf(routine, j) = {}
  BY <1>2 DEF LastResult
<1>3. CASE RowsOf(routine, j) # {}
  <2>1. Max(RowsOf(routine, j)) \in RowsOf(routine, j)
    BY <1>1, <1>3, MaxIsMember
  <2>2. Ruleset[routine] = "IWUF"
    BY <1>3 DEF RowsOf, NanduTyped
  <2> QED BY <1>1, <1>3, <2>1, <2>2 DEF LastResult
<1> QED BY <1>2, <1>3

\* The steps of SetCompetitor keep what the cache holds of the C panel.
LEMMA SelectionNandu ==
    ASSUME MarksTyped, NanduTyped, NanduInv, SelectionSteps PROVE NanduTyped' /\ NanduInv'
<1> USE DEF Goto, Filled, cache, tables
<1>1. UNCHANGED <<requests, raced, nanduRows>>
  BY DEF SelectionSteps, ResetState, ReadDeductions, ReadDeductionsFails, FillDeductions,
         ReadNandusheet, ReadNandusheetFails, ReadNandu, ReadNanduFails, ParseRead
<1>2. \A k \in Judges : k \notin raced' => Alone(k)'
  BY <1>1 DEF NanduInv, Alone
<1>3. NoResults \in ResultMap /\ \A k \in Judges : NoResults[k] = Nil
  BY DEF NoResults, ResultMap
<1>4. ASSUME NEW rt \in Routines, ResetState(rt) PROVE NanduTyped' /\ NanduInv'
  BY <1>1, <1>2, <1>4 DEF ResetState, NanduTyped, NanduInv, SelectionHolds
<1> SUFFICES ASSUME UNCHANGED <<routine, disturbed>>, selecting.at # "idle",
                    \/ ReadDeductions \/ ReadDeductionsFails \/ FillDeductions
                    \/ ReadNandusheet \/ ReadNandusheetFails \/ ReadNandu
                    \/ ReadNanduFails \/ ParseRead
             PROVE  NanduTyped' /\ NanduInv'
  BY <1>4 DEF SelectionSteps, ReadDeductions, ReadDeductionsFails, FillDeductions,
              ReadNandusheet, ReadNandusheetFails, ReadNandu, ReadNanduFails, ParseRead
<1>5. \A k \in Judges : LastResult(k)' = LastResult(k)
  BY <1>1 DEF LastResult, RowsOf
<1>6. ~disturbed' => requests' = {} /\ ("read" \notin failed => SelectionHolds)
  BY <1>1 DEF NanduInv
<1>7. ASSUME NanduTyped', "read" \notin failed' /\ ~disturbed' => SelectionHolds'
      PROVE  NanduTyped' /\ NanduInv'
  BY <1>2, <1>6, <1>7 DEF NanduInv
<1>8. CASE ReadDeductions
  <2>1. /\ nanduScores' = NoResults /\ selecting'.at = "fill"
        /\ UNCHANGED nandusheet
    BY <1>8 DEF ReadDeductions, MakeMaps
  <2> QED BY <1>1, <1>3, <1>7, <2>1 DEF NanduTyped, SelectionHolds
<1>9. CASE ReadDeductionsFails
  <2>1. /\ nanduScores' = NoResults /\ selecting'.at \in {"sheet", "idle"}
        /\ UNCHANGED nandusheet /\ "read" \in failed'
    BY <1>9 DEF ReadDeductionsFails, MakeMaps
  <2> QED BY <1>1, <1>3, <1>7, <2>1 DEF NanduTyped
<1>10. CASE FillDeductions
  <2>1. /\ selecting.at = "fill" /\ UNCHANGED <<nanduScores, nandusheet, failed>>
        /\ selecting'.at = IF Ruleset[routine] = "IWUF" THEN "sheet" ELSE "idle"
    BY <1>10 DEF FillDeductions
  <2>2. ASSUME "read" \notin failed', ~disturbed', selecting'.at = "idle", NEW k \in Judges
        PROVE  ResultHolds(k)'
    <3>1. requests' = {} /\ nanduScores'[k] = Nil
      BY <1>3, <1>6, <2>1, <2>2 DEF SelectionHolds
    <3>2. LastResult(k)' = Nil
      BY <1>5, <2>1, <2>2, LastResultType DEF NanduTyped
    <3> QED BY <3>1, <3>2 DEF ResultHolds
  <2> QED BY <1>1, <1>6, <1>7, <2>1, <2>2 DEF NanduTyped, SelectionHolds
<1>11. CASE ReadNandusheet
  BY <1>1, <1>6, <1>7, <1>11 DEF ReadNandusheet, NanduTyped, SelectionHolds
<1>12. CASE ReadNandusheetFails \/ ReadNanduFails
  BY <1>1, <1>7, <1>12 DEF ReadNandusheetFails, ReadNanduFails, NanduTyped
<1>13. CASE ReadNandu
  <2>1. /\ selecting.at = "nandu" /\ selecting'.at = "parse"
        /\ \A k \in Judges : selecting'.rows[k] = LastResult(k)
        /\ UNCHANGED <<nanduScores, nandusheet, failed>>
    BY <1>13 DEF ReadNandu
  <2> QED BY <1>1, <1>5, <1>6, <1>7, <2>1, LastResultType DEF NanduTyped, SelectionHolds
<1>14. CASE ParseRead
  <2>1. /\ selecting.at = "parse" /\ selecting'.at = "idle" /\ UNCHANGED <<nandusheet, failed>>
        /\ nanduScores' = IF ~nandusheet THEN nanduScores
                          ELSE [j \in Judges |-> IF selecting.rows[j] = Nil THEN nanduScores[j]
                                                 ELSE selecting.rows[j]]
    BY <1>14 DEF ParseRead
  <2>2. nanduScores' \in ResultMap
    BY <2>1 DEF NanduTyped, ResultMap
  <2>3. ASSUME "read" \notin failed', ~disturbed', NEW k \in Judges PROVE ResultHolds(k)'
    <3>1. requests' = {} /\ nanduScores'[k] = LastResult(k)
      BY <1>3, <1>6, <2>1, <2>3 DEF SelectionHolds
    <3> QED BY <1>5, <3>1 DEF ResultHolds
  <2> QED BY <1>1, <1>7, <2>1, <2>2, <2>3 DEF NanduTyped, SelectionHolds
<1> QED BY <1>8, <1>9, <1>10, <1>11, <1>12, <1>13, <1>14

\* What the cache holds of the C panel is an invariant.
LEMMA NanduInvariant == Spec => [](MarksTyped /\ NanduTyped /\ NanduInv)
<1>1. Init => NanduTyped /\ NanduInv
  <2> SUFFICES ASSUME Init PROVE NanduTyped /\ NanduInv
    OBVIOUS
  <2>1. /\ nanduRows \in Seq([routine : Routines, judge : Judges, result : Results])
        /\ DOMAIN nanduRows = {}
    BY DEF Init
  <2>2. nanduScores = Nil /\ nandusheet = FALSE /\ selecting.at = "idle" /\ requests = {}
    BY DEF Init
  <2> QED BY <2>1, <2>2 DEF NanduTyped, NanduInv, Alone, SelectionHolds, Filled
<1>2. MarksTyped /\ NanduTyped /\ NanduInv /\ [Next]_vars => (NanduTyped /\ NanduInv)'
  <2> SUFFICES ASSUME MarksTyped, NanduTyped, NanduInv, [Next]_vars
               PROVE  NanduTyped' /\ NanduInv'
    OBVIOUS
  <2>1. CASE UNCHANGED vars
    BY <2>1, SameNandu DEF vars
  <2> QED BY <2>1, PageNandu, HandlerNandu, SelectionNandu DEF Next
<1> QED BY <1>1, <1>2, MarksInvariant, PTL DEF Spec

\* A judge of the C panel may submit again and again, each time into the cache first
\* and into the table afterwards, and inserts may fail: once the requests are answered
\* the cache has the result that the next selection will read, unless this judge's own
\* last insert failed or two of the judge's requests overlapped.
THEOREM LastNanduIsKept == Spec => []LastNanduSurvives
<1>1. NanduTyped /\ NanduInv => LastNanduSurvives
  BY DEF NanduInv, SelectionHolds, ResultHolds, LastNanduSurvives, Settled
<1> QED BY <1>1, NanduInvariant, PTL
-----------------------------------------------------------------------------
(* The A panel's lists.  A judge's list has every mark once; what it has of  *)
(* a mark is what the table has, but for the request under way about it.     *)

Entry == [id : Marks, code : Code]

Once(list) == \A i, k \in DOMAIN list : list[i].id = list[k].id => i = k

Lists(j) == {list \in Seq(Entry) : Once(list) /\ \A i \in DOMAIN list : Owner[list[i].id] = j}

\* the entries of a mark in a list, one or none
Of(list, m) == {x \in {list[i] : i \in DOMAIN list} : x.id = m}

Kept(m) == Of(deductions[Owner[m]], m)

Recorded(m) ==
    IF m \in DOMAIN marked /\ marked[m].routine = routine
    THEN {[id |-> m, code |-> marked[m].code]} ELSE {}

\* A request past its first step: the table is ahead of the cache.
TableIsAhead(m, r) ==
    /\ r.kind = "mark" => Recorded(m) = {[id |-> m, code |-> r.value]}
    /\ r.kind = "update" => /\ Kept(m) = {} <=> Recorded(m) = {}
                            /\ Recorded(m) \subseteq {[id |-> m, code |-> r.value]}
    /\ r.kind = "delete" => Recorded(m) = {}

MarkIsCached(m) ==
    m \notin raced =>
        /\ (\A r \in requests : r.about = m => r.at = "first") => Kept(m) = Recorded(m)
        /\ \A r \in requests : r.about = m /\ r.at # "first" => TableIsAhead(m, r)

\* No list has a mark yet that its judge has not made, or that is being made.
NotMade(m) == page[m].at = "unused" \/ \E r \in requests : r.kind = "mark" /\ r.about = m

CacheHolds(m) == (NotMade(m) => Kept(m) = {}) /\ MarkIsCached(m)

ListsTyped ==
    /\ deductions = [j \in Judges |-> deductions[j]]
    /\ \A j \in Judges \ clashed : deductions[j] \in Lists(j)

\* What a request has loaded is still the judge's list; an update's may have grown.
LoadHolds(r) ==
    r.judge \notin clashed =>
        /\ r.kind \in {"mark", "delete"} => loaded[r] = deductions[r.judge]
        /\ r.kind = "update" =>
              /\ DOMAIN loaded[r] \subseteq DOMAIN deductions[r.judge]
              /\ \A i \in DOMAIN loaded[r] : loaded[r][i] \in Entry
              /\ r.about \notin raced => (IsListed(loaded[r], r.about) <=> Kept(r.about) # {})

LoadsHold ==
    /\ \A r \in DOMAIN loaded : LoadHolds(r)
    /\ \A q, r \in DOMAIN loaded : q # r /\ Clash(q, r) => r.judge \in clashed

ListsHold ==
    ListsTyped /\ LoadsHold /\ \A m \in Marks : Owner[m] \notin clashed => CacheHolds(m)

\* A mark is made once, and nothing is asked about it before.
MadeOnce ==
    /\ IsFiniteSet(DOMAIN marked)
    /\ DOMAIN loaded = {r \in requests : r.at = "third"}
    /\ \A m \in Marks : m \notin raced => Alone(m)
    /\ \A r, s \in requests : r.kind = "mark" /\ s.kind = "mark" /\ r.about = s.about => r = s
    /\ \A m \in Marks : page[m].at = "unused" =>
           m \notin DOMAIN marked /\ \A r \in requests : r.about # m

CacheInv ==
    ~disturbed =>
        /\ selecting.at = "fill" => deductions = NoLists /\ selecting.rows = GetDeductions
        /\ selecting.at \notin {"marks", "fill"} /\ deductions # Nil /\ "read" \notin failed =>
               ListsHold

\* A list of a judge, as its entries.
LEMMA ListFacts ==
    ASSUME NEW j, NEW list \in Lists(j)
    PROVE  /\ list \in Seq(Entry) /\ Len(list) \in Nat /\ DOMAIN list = 1..Len(list)
           /\ \A i \in 1..Len(list) : list[i] \in Entry /\ Owner[list[i].id] = j
           /\ \A i, k \in 1..Len(list) : list[i].id = list[k].id => i = k
<1>1. list \in Seq(Entry) /\ Once(list) /\ \A i \in DOMAIN list : Owner[list[i].id] = j
  BY DEF Lists
<1>2. Len(list) \in Nat /\ DOMAIN list = 1..Len(list) /\ \A i \in 1..Len(list) : list[i] \in Entry
  BY <1>1, LenProperties, ElementOfSeq
<1> QED BY <1>1, <1>2 DEF Once

\* What a list has of a mark.
LEMMA InOf ==
    ASSUME NEW list, NEW m, NEW x
    PROVE  x \in Of(list, m) <=> x.id = m /\ \E i \in DOMAIN list : x = list[i]
BY DEF Of

\* What makes a list of a judge's.
LEMMA IsAList ==
    ASSUME NEW j, NEW n \in Nat, NEW list \in [1..n -> Entry],
           \A i \in 1..n : Owner[list[i].id] = j,
           \A i, k \in 1..n : list[i].id = list[k].id => i = k
    PROVE  list \in Lists(j)
<1>1. list \in Seq(Entry) /\ DOMAIN list = 1..n
  OBVIOUS
<1>2. Once(list)
  BY <1>1 DEF Once
<1> QED BY <1>1, <1>2 DEF Lists

HasEntry(new, list, e) ==
    Of(new, e.id) = {e} /\ \A m : m # e.id => Of(new, m) = Of(list, m)

\* A new mark at the end of a list.
LEMMA AppendedList ==
    ASSUME NEW j, NEW list, NEW e,
           list \in Lists(j), e \in Entry, Owner[e.id] = j, Of(list, e.id) = {}
    PROVE  Append(list, e) \in Lists(j) /\ HasEntry(Append(list, e), list, e)
<1> DEFINE new == Append(list, e)
           n == Len(list)
<1>1. /\ list \in Seq(Entry) /\ n \in Nat /\ DOMAIN list = 1..n
      /\ \A i \in 1..n : list[i] \in Entry /\ Owner[list[i].id] = j
      /\ \A i, k \in 1..n : list[i].id = list[k].id => i = k
  BY ListFacts
<1>2. /\ new \in Seq(Entry) /\ DOMAIN new = 1..(n + 1) /\ new[n + 1] = e
      /\ \A i \in 1..n : new[i] = list[i]
  BY <1>1, AppendProperties
<1>3. \A i \in 1..n : list[i].id # e.id
  BY <1>1 DEF Of
<1> HIDE DEF new, n
<1>4. \A i \in 1..(n + 1) : i \in 1..n \/ i = n + 1
  BY <1>1
<1>5. new \in Lists(j)
  BY <1>1, <1>2, <1>3, <1>4 DEF Lists, Once
<1>6. \A x : (\E i \in DOMAIN new : x = new[i]) <=> (x = e \/ \E i \in DOMAIN list : x = list[i])
  BY <1>1, <1>2, <1>4
<1>7. {new[i] : i \in DOMAIN new} = {list[i] : i \in DOMAIN list} \cup {e}
  BY <1>6
<1>8. Of(new, e.id) = {e} /\ \A m : m # e.id => Of(new, m) = Of(list, m)
  BY <1>7 DEF Of
<1> QED BY <1>5, <1>8 DEF new, HasEntry

\* A code given to a mark of a list.
HasCode(new, list, m, c) ==
    /\ Of(new, m) = IF Of(list, m) = {} THEN {} ELSE {[id |-> m, code |-> c]}
    /\ \A x : x # m => Of(new, x) = Of(list, x)

\* It replaces the mark's code.
LEMMA UpdatedList ==
    ASSUME NEW j, NEW list, NEW m, NEW c, list \in Lists(j), c \in Code
    PROVE  Recoded(list, m, c) \in Lists(j) /\ HasCode(Recoded(list, m, c), list, m, c)
<1> DEFINE n == Len(list)
           new == Recoded(list, m, c)
<1>0. new = [i \in DOMAIN list |-> IF list[i].id = m THEN [list[i] EXCEPT !.code = c]
                                   ELSE list[i]]
  BY DEF Recoded
<1>1. /\ n \in Nat /\ DOMAIN list = 1..n
      /\ \A i \in 1..n : list[i] \in Entry /\ Owner[list[i].id] = j
      /\ \A i, k \in 1..n : list[i].id = list[k].id => i = k
  BY ListFacts
<1> HIDE DEF n, new
<1>2. DOMAIN new = 1..n
  BY <1>0, <1>1
<1>3. ASSUME NEW i \in 1..n
      PROVE  /\ new[i] = IF list[i].id = m THEN [id |-> m, code |-> c] ELSE list[i]
             /\ new[i] \in Entry /\ new[i].id = list[i].id
  <2>1. new[i] = IF list[i].id = m THEN [list[i] EXCEPT !.code = c] ELSE list[i]
    BY <1>0, <1>1
  <2>2. list[i] \in Entry
    BY <1>1
  <2> QED BY <2>1, <2>2 DEF Entry
<1>4. new \in [1..n -> Entry]
  <2>1. new = [i \in 1..n |-> new[i]]
    BY <1>0, <1>1
  <2> QED BY <1>3, <2>1
<1>5. new \in Lists(j)
  <2>1. \A i \in 1..n : Owner[new[i].id] = j
    BY <1>1, <1>3
  <2>2. \A i, k \in 1..n : new[i].id = new[k].id => i = k
    BY <1>1, <1>3
  <2> QED BY <1>1, <1>4, <2>1, <2>2, IsAList, Zenon
<1>6. \A x : x # m => Of(new, x) = Of(list, x)
  BY <1>1, <1>2, <1>3 DEF Of
<1>7. Of(new, m) = IF Of(list, m) = {} THEN {} ELSE {[id |-> m, code |-> c]}
  <2>1. Of(list, m) # {} <=> \E i \in 1..n : list[i].id = m
    BY <1>1 DEF Of
  <2>2. \A x : x \in Of(new, m) <=> x.id = m /\ \E i \in 1..n : x = new[i]
    BY <1>2 DEF Of
  <2>3. \A x : x \in Of(new, m) <=> x = [id |-> m, code |-> c] /\ \E i \in 1..n : list[i].id = m
    <3>1. ASSUME NEW x, x.id = m, NEW i \in 1..n, x = new[i]
          PROVE  x = [id |-> m, code |-> c] /\ list[i].id = m
      BY <1>3, <3>1
    <3>2. ASSUME NEW i \in 1..n, list[i].id = m
          PROVE  [id |-> m, code |-> c] \in Of(new, m)
      <4>1. new[i] = [id |-> m, code |-> c] /\ [id |-> m, code |-> c].id = m
        BY <1>3, <3>2
      <4> QED BY <2>2, <4>1
    <3> QED BY <2>2, <3>1, <3>2
  <2> QED BY <2>1, <2>3
<1> QED BY <1>5, <1>6, <1>7 DEF new, HasCode

\* A mark taken out of a list.
LEMMA RemovedList ==
    ASSUME NEW j, NEW list \in Lists(j), NEW p \in DOMAIN list
    PROVE  /\ RemoveAt(list, p) \in Lists(j)
           /\ Of(RemoveAt(list, p), list[p].id) = {}
           /\ \A x : x # list[p].id => Of(RemoveAt(list, p), x) = Of(list, x)
<1> DEFINE n == Len(list)
           front == SubSeq(list, 1, p - 1)
           back == SubSeq(list, p + 1, n)
           new == front \o back
<1>1. /\ list \in Seq(Entry) /\ n \in Nat /\ DOMAIN list = 1..n /\ p \in 1..n
      /\ \A i \in 1..n : list[i] \in Entry /\ Owner[list[i].id] = j
      /\ \A i, k \in 1..n : list[i].id = list[k].id => i = k
  BY ListFacts
<1>2. /\ front \in Seq(Entry) /\ Len(front) = p - 1
      /\ \A i \in 1..(p - 1) : front[i] = list[i]
  <2>1. p - 1 \in Nat /\ \A i \in 1..(p - 1) : i \in 1..n
    BY <1>1
  <2>2. \A i \in 1..(p - 1) : list[i] \in Entry
    BY <1>1, <2>1
  <2>3. /\ front \in Seq(Entry) /\ Len(front) = IF 1 <= p - 1 THEN p - 1 - 1 + 1 ELSE 0
        /\ \A i \in 1..(p - 1 - 1 + 1) : front[i] = list[1 + i - 1]
    BY <2>1, <2>2, SubSeqProperties
  <2> QED BY <2>1, <2>3
<1>3. /\ back \in Seq(Entry) /\ Len(back) = n - p
      /\ \A i \in 1..(n - p) : back[i] = list[p + i]
  <2>1. p + 1 \in Int /\ n \in Int /\ \A i \in (p + 1)..n : i \in 1..n
    BY <1>1
  <2>2. \A i \in (p + 1)..n : list[i] \in Entry
    BY <1>1, <2>1
  <2>3. /\ back \in Seq(Entry) /\ Len(back) = IF p + 1 <= n THEN n - (p + 1) + 1 ELSE 0
        /\ \A i \in 1..(n - (p + 1) + 1) : back[i] = list[p + 1 + i - 1]
    BY <2>1, <2>2, SubSeqProperties
  <2> QED BY <1>1, <2>3
<1> HIDE DEF front, back
<1>4. /\ new \in Seq(Entry) /\ Len(new) = n - 1
      /\ \A i \in 1..(n - 1) : new[i] = IF i < p THEN list[i] ELSE list[i + 1]
  <2>1. /\ new \in Seq(Entry) /\ Len(new) = Len(front) + Len(back)
        /\ \A i \in 1..(Len(front) + Len(back)) :
              new[i] = IF i <= Len(front) THEN front[i] ELSE back[i - Len(front)]
    BY <1>2, <1>3, ConcatProperties
  <2>2. p \in Nat /\ Len(front) + Len(back) = n - 1
    BY <1>1, <1>2, <1>3
  <2>3. ASSUME NEW i \in 1..(n - 1) PROVE new[i] = IF i < p THEN list[i] ELSE list[i + 1]
    <3>1. new[i] = IF i <= p - 1 THEN front[i] ELSE back[i - (p - 1)]
      BY <1>2, <2>1, <2>2
    <3>2. CASE i < p
      BY <1>1, <1>2, <3>1, <3>2
    <3>3. CASE ~(i < p)
      <4>1. i - (p - 1) \in 1..(n - p) /\ ~(i <= p - 1) /\ p + (i - (p - 1)) = i + 1
        BY <1>1, <3>3
      <4>2. back[i - (p - 1)] = list[i + 1]
        BY <1>3, <4>1
      <4> QED BY <3>1, <3>3, <4>1, <4>2
    <3> QED BY <3>2, <3>3
  <2> QED BY <2>1, <2>2, <2>3
<1>5. DOMAIN new = 1..(n - 1)
  BY <1>4, LenProperties
<1> HIDE DEF new, n
<1>6. ASSUME NEW i \in 1..(n - 1)
      PROVE  \E k \in 1..n : k # p /\ new[i] = list[k] /\ k = IF i < p THEN i ELSE i + 1
  BY <1>1, <1>4
<1>7. ASSUME NEW k \in 1..n, k # p PROVE \E i \in 1..(n - 1) : new[i] = list[k]
  <2>1. CASE k < p
    BY <1>1, <1>4, <2>1
  <2>2. CASE p < k
    <3>1. k - 1 \in 1..(n - 1) /\ ~(k - 1 < p) /\ (k - 1) + 1 = k
      BY <1>1, <2>2
    <3> QED BY <1>4, <3>1
  <2> QED BY <1>1, <1>7, <2>1, <2>2
<1>8. new \in Lists(j)
  <2>1. \A i \in 1..(n - 1) : Owner[new[i].id] = j
    BY <1>1, <1>6
  <2>2. ASSUME NEW h \in 1..(n - 1), NEW i \in 1..(n - 1), new[h].id = new[i].id PROVE h = i
    <3>1. (IF h < p THEN h ELSE h + 1) = (IF i < p THEN i ELSE i + 1)
      BY <1>1, <1>6, <2>2
    <3> QED BY <1>1, <3>1
  <2> QED BY <1>4, <1>5, <2>1, <2>2 DEF Lists, Once
<1>9. \A x : (\E i \in DOMAIN new : x = new[i]) <=> \E k \in DOMAIN list : k # p /\ x = list[k]
  <2>1. \A i \in DOMAIN new : \E k \in DOMAIN list : k # p /\ new[i] = list[k]
    BY <1>1, <1>5, <1>6
  <2>2. \A k \in DOMAIN list : k # p => \E i \in DOMAIN new : new[i] = list[k]
    BY <1>1, <1>5, <1>7
  <2> QED BY <2>1, <2>2
<1>10. Of(new, list[p].id) = {}
  <2> SUFFICES ASSUME NEW x \in Of(new, list[p].id) PROVE FALSE
    OBVIOUS
  <2>1. x.id = list[p].id /\ \E i \in DOMAIN new : x = new[i]
    BY InOf
  <2>2. PICK k \in DOMAIN list : k # p /\ x = list[k]
    BY <1>9, <2>1
  <2> QED BY <1>1, <2>1, <2>2
<1>11. ASSUME NEW x, x # list[p].id PROVE Of(new, x) = Of(list, x)
  <2>1. ASSUME NEW y \in Of(new, x) PROVE y \in Of(list, x)
    BY <1>9, <2>1, InOf
  <2>2. ASSUME NEW y \in Of(list, x) PROVE y \in Of(new, x)
    <3>1. y.id = x /\ \E i \in DOMAIN list : y = list[i]
      BY <2>2, InOf
    <3>2. \E i \in DOMAIN new : y = new[i]
      BY <1>9, <1>11, <3>1
    <3> QED BY <3>1, <3>2, InOf
  <2> QED BY <2>1, <2>2
<1>12. RemoveAt(list, p) = new
  BY DEF RemoveAt, new, front, back, n
<1> QED BY <1>8, <1>10, <1>11, <1>12

RowsBy(j, rows) == {m \in DOMAIN rows : Owner[m] = j}

Enumerates(mine, S, n) ==
    /\ n \in Nat /\ mine \in [1..n -> S]
    /\ \A i, k \in 1..n : mine[i] = mine[k] => i = k
    /\ \A m \in S : \E i \in 1..n : mine[i] = m

IsListing(list, mine, rows, n) ==
    /\ list \in [1..n -> Entry]
    /\ \A i \in 1..n : list[i] = [id |-> mine[i], code |-> rows[mine[i]]]

HasRows(list, rows, j) ==
    \A m \in Marks : Owner[m] = j =>
        Of(list, m) = IF m \in DOMAIN rows THEN {[id |-> m, code |-> rows[m]]} ELSE {}

\* A list made of the rows of a judge has each of them.
LEMMA RowsAsList ==
    ASSUME NEW j, NEW rows, NEW n, NEW mine, Enumerates(mine, RowsBy(j, rows), n),
           NEW list, IsListing(list, mine, rows, n)
    PROVE  list \in Lists(j) /\ HasRows(list, rows, j)
<1> DEFINE S == RowsBy(j, rows)
<1>0. /\ n \in Nat /\ mine \in [1..n -> S] /\ list \in [1..n -> Entry]
      /\ \A i \in 1..n : list[i] = [id |-> mine[i], code |-> rows[mine[i]]]
      /\ \A i, k \in 1..n : mine[i] = mine[k] => i = k
      /\ \A m \in S : \E i \in 1..n : mine[i] = m
      /\ S = {m \in DOMAIN rows : Owner[m] = j}
  BY DEF Enumerates, IsListing, RowsBy
<1> HIDE DEF S
<1>1. \A i \in 1..n : list[i].id = mine[i] /\ mine[i] \in S
  BY <1>0
<1>2. list \in Lists(j)
  <2>1. \A i \in 1..n : Owner[list[i].id] = j
    BY <1>0, <1>1
  <2>2. \A i, k \in 1..n : list[i].id = list[k].id => i = k
    BY <1>0, <1>1
  <2> QED BY <1>0, <2>1, <2>2, IsAList
<1>3. DOMAIN list = 1..n
  BY <1>0
<1>4. ASSUME NEW m \in Marks, Owner[m] = j
      PROVE  Of(list, m) = IF m \in DOMAIN rows THEN {[id |-> m, code |-> rows[m]]} ELSE {}
  <2>1. ASSUME NEW x, x \in Of(list, m)
        PROVE  m \in DOMAIN rows /\ x = [id |-> m, code |-> rows[m]]
    <3>1. PICK i \in 1..n : x = list[i] /\ x.id = m
      BY <1>3, <2>1 DEF Of
    <3>2. mine[i] = m /\ mine[i] \in S /\ x = [id |-> mine[i], code |-> rows[mine[i]]]
      BY <1>0, <1>1, <3>1
    <3> QED BY <1>0, <3>2
  <2>2. ASSUME m \in DOMAIN rows PROVE [id |-> m, code |-> rows[m]] \in Of(list, m)
    <3>1. PICK i \in 1..n : mine[i] = m
      BY <1>0, <1>4, <2>2
    <3>2. list[i] = [id |-> m, code |-> rows[m]] /\ list[i].id = m
      BY <1>0, <1>1, <3>1
    <3> QED BY <1>3, <3>2, InOf
  <2> QED BY <2>1, <2>2
<1> QED BY <1>2, <1>4 DEF HasRows

\* The rows of a judge, as SetCompetitor caches them.
ListFrom(rows, j) ==
    LET mine == SetToSeq({m \in DOMAIN rows : Owner[m] = j})
    IN [i \in DOMAIN mine |-> [id |-> mine[i], code |-> rows[mine[i]]]]

\* They make a list that has each of them.
LEMMA CachedRows ==
    ASSUME NEW j, NEW rows, IsFiniteSet(DOMAIN rows), DOMAIN rows \subseteq Marks,
           \A m \in DOMAIN rows : rows[m] \in Code
    PROVE  ListFrom(rows, j) \in Lists(j) /\ HasRows(ListFrom(rows, j), rows, j)
<1> DEFINE S == {m \in DOMAIN rows : Owner[m] = j}
           n == Cardinality(S)
           mine == SetToSeq(S)
           new == ListFrom(rows, j)
<1>0. new = [i \in DOMAIN mine |-> [id |-> mine[i], code |-> rows[mine[i]]]]
  BY DEF ListFrom
<1>1. IsFiniteSet(S)
  BY FS_Subset
<1>2. n \in Nat /\ ExistsBijection(1..n, S)
  BY <1>1, FS_CardinalityType
<1>3. mine \in [1..n -> S] /\ (\A i, k \in 1..n : mine[i] = mine[k] => i = k)
  <2>1. PICK f : f \in Bijection(1..n, S)
    BY <1>2 DEF ExistsBijection
  <2>2. f \in [1..n -> S] /\ IsInjective(f)
    BY <2>1 DEF Bijection, Injection
  <2>3. mine = CHOOSE g \in [1..n -> S] : IsInjective(g)
    BY DEF SetToSeq
  <2> HIDE DEF S, n
  <2>4. mine \in [1..n -> S] /\ IsInjective(mine)
    BY <2>2, <2>3
  <2> QED BY <2>4 DEF IsInjective
<1>4. \A m \in S : \E i \in 1..n : mine[i] = m
  <2>1. mine \in Injection(1..n, S)
    BY <1>3 DEF Injection, IsInjective
  <2>2. IsFiniteSet(1..n) /\ Cardinality(1..n) = n
    <3> HIDE DEF n
    <3>1. \A a, b \in Int : IsFiniteSet(a..b) /\ Cardinality(a..b) = IF a > b THEN 0 ELSE b - a + 1
      BY FS_Interval
    <3> QED BY <1>2, <3>1
  <2>3. mine \in Surjection(1..n, S)
    BY <1>1, <2>1, <2>2, FS_Injection
  <2> QED BY <2>3 DEF Surjection
<1> HIDE DEF n, mine, new
<1>5. DOMAIN new = 1..n /\ DOMAIN mine = 1..n
  BY <1>0, <1>3
<1>6. ASSUME NEW i \in 1..n
      PROVE  /\ new[i] = [id |-> mine[i], code |-> rows[mine[i]]] /\ mine[i] \in S
             /\ new[i] \in Entry /\ new[i].id = mine[i]
  BY <1>0, <1>3, <1>5 DEF Entry
<1>7. new \in [1..n -> Entry]
  <2>1. new = [i \in 1..n |-> new[i]]
    BY <1>0, <1>5
  <2>2. \A i \in 1..n : new[i] \in Entry
    BY <1>6
  <2> QED BY <2>1, <2>2
<1>8. Enumerates(mine, RowsBy(j, rows), n)
  BY <1>2, <1>3, <1>4 DEF Enumerates, RowsBy
<1>9. IsListing(new, mine, rows, n)
  BY <1>6, <1>7 DEF IsListing
<1>10. new \in Lists(j) /\ HasRows(new, rows, j)
  BY <1>8, <1>9, RowsAsList
<1> QED BY <1>10 DEF new

\* A mark that a step leaves alone stays as it is in the cache.
LEMMA UntouchedInCache ==
    ASSUME NEW m \in Marks, CacheHolds(m), m \notin raced' => m \notin raced,
           \A r \in requests' : r.about = m => r \in requests,
           \A r \in requests : r.about = m => r \in requests',
           page'[m].at = "unused" <=> page[m].at = "unused", Kept(m)' = Kept(m), Recorded(m)' = Recorded(m)
    PROVE  CacheHolds(m)'
<1>1. NotMade(m)' => NotMade(m)
  BY DEF NotMade
<1>2. \A r : TableIsAhead(m, r)' <=> TableIsAhead(m, r)
  BY DEF TableIsAhead
<1>3. MarkIsCached(m)'
  BY <1>2 DEF CacheHolds, MarkIsCached
<1> QED BY <1>1, <1>3 DEF CacheHolds

\* The loads of a step that changes none of them, nor what the lists have.
LEMMA UntouchedLoads ==
    ASSUME LoadsHold, UNCHANGED <<deductions, loaded, clashed>>, raced \subseteq raced'
    PROVE  LoadsHold'
BY DEF LoadsHold, LoadHolds, Kept

\* A page sends a request about a mark.
LEMMA SendCache ==
    ASSUME MadeOnce, CacheInv, NEW q,
           q = [kind |-> q.kind, judge |-> q.judge, about |-> q.about, value |-> q.value,
                routine |-> seen[q.judge], at |-> "first"],
           Send(q.kind, q.judge, q.about, q.value),
           \A m \in Marks : page'[m].at = "unused" => page[m].at = "unused" /\ m # q.about,
           q.kind = "mark" => q.about \in Marks /\ page[q.about].at = "unused"
    PROVE  MadeOnce' /\ CacheInv'
<1>1. /\ requests' = requests \cup {q} /\ q.at = "first"
      /\ UNCHANGED <<deductions, marked, routine, failed, selecting, loaded, clashed>>
      /\ raced' = IF \E s \in requests : s.about = q.about THEN raced \cup {q.about} ELSE raced
      /\ disturbed' = (disturbed \/ selecting.at # "idle" \/ seen[q.judge] # routine)
  BY DEF Send, cache, tables, inHand
<1>2. MadeOnce'
  <2>1. ASSUME NEW m \in Marks, m \notin raced' PROVE Alone(m)'
    <3>1. m \notin raced /\ (m = q.about => \A s \in requests : s.about # m)
      BY <1>1, <2>1
    <3> QED BY <1>1, <3>1 DEF MadeOnce, Alone
  <2>2. ASSUME NEW r \in requests', NEW s \in requests', r.kind = "mark", s.kind = "mark",
               r.about = s.about
        PROVE  r = s
    <3>1. q.kind = "mark" => \A t \in requests : t.about # q.about
      BY DEF MadeOnce
    <3> QED BY <1>1, <2>2, <3>1 DEF MadeOnce
  <2>3. ASSUME NEW m \in Marks, page'[m].at = "unused"
        PROVE  m \notin DOMAIN marked' /\ \A r \in requests' : r.about # m
    BY <1>1, <2>3 DEF MadeOnce
  <2>4. DOMAIN loaded' = {r \in requests' : r.at = "third"}
    BY <1>1 DEF MadeOnce
  <2> QED BY <1>1, <2>1, <2>2, <2>3, <2>4 DEF MadeOnce
<1>3. ASSUME ~disturbed', deductions' # Nil, "read" \notin failed' PROVE ListsHold'
  <2>1. ListsHold
    BY <1>1, <1>3 DEF CacheInv
  <2>2. \A m \in Marks : Kept(m)' = Kept(m) /\ Recorded(m)' = Recorded(m)
    BY <1>1 DEF Kept, Recorded
  <2>3. ASSUME NEW m \in Marks, Owner[m] \notin clashed PROVE CacheHolds(m)'
    <3>1. NotMade(m)' => NotMade(m)
      BY <1>1 DEF NotMade
    <3>2. m \notin raced' => m \notin raced
      BY <1>1
    <3>3. \A r : TableIsAhead(m, r)' <=> TableIsAhead(m, r)
      BY <2>2 DEF TableIsAhead
    <3>4. MarkIsCached(m)'
      BY <1>1, <2>1, <2>2, <2>3, <3>2, <3>3 DEF ListsHold, CacheHolds, MarkIsCached
    <3> QED BY <2>1, <2>2, <2>3, <3>1, <3>4 DEF ListsHold, CacheHolds
  <2>4. LoadsHold'
    BY <1>1, <2>1, UntouchedLoads DEF ListsHold
  <2> QED BY <1>1, <2>1, <2>3, <2>4 DEF ListsHold, ListsTyped
<1> QED BY <1>1, <1>2, <1>3 DEF CacheInv

\* A step that changes neither lists, rows, loads nor requests keeps what the lists hold.
LEMMA SameLists ==
    ASSUME UNCHANGED <<deductions, routine, marked, loaded, clashed, requests, raced>>,
           \A m \in Marks : page'[m].at = "unused" <=> page[m].at = "unused", ListsHold
    PROVE  ListsHold'
<1>1. \A m \in Marks : Kept(m)' = Kept(m) /\ Recorded(m)' = Recorded(m)
  BY DEF Kept, Recorded
<1>2. \A m \in Marks : Owner[m] \notin clashed => CacheHolds(m)'
  BY <1>1, UntouchedInCache DEF ListsHold
<1>3. LoadsHold'
  BY UntouchedLoads DEF ListsHold
<1> QED BY <1>2, <1>3 DEF ListsHold, ListsTyped

\* The steps of the pages leave the cache alone.
LEMMA PageCache ==
    ASSUME MarksTyped, MadeOnce, CacheInv, PageSteps PROVE MadeOnce' /\ CacheInv'
<1> USE OwnerAssumption, NilAssumption
<1>1. ASSUME NEW m \in Marks, PressMark(m) PROVE MadeOnce' /\ CacheInv'
  <2>1. PICK q : q = [kind |-> "mark", judge |-> Owner[m], about |-> m, value |-> Blank,
                      routine |-> seen[Owner[m]], at |-> "first"]
    OBVIOUS
  <2>2. /\ page' = [page EXCEPT ![m] = Row("shown")]
        /\ page[m].at = "unused" /\ Send("mark", Owner[m], m, Blank)
    BY <1>1 DEF PressMark
  <2>3. \A n \in Marks : page'[n].at = "unused" => page[n].at = "unused" /\ n # m
    BY <2>2 DEF MarksTyped, Row
  <2> QED BY <2>1, <2>2, <2>3, SendCache
<1>2. ASSUME NEW m \in Marks, RemoveMark(m) PROVE MadeOnce' /\ CacheInv'
  <2>1. PICK q : q = [kind |-> "delete", judge |-> Owner[m], about |-> m, value |-> Blank,
                      routine |-> seen[Owner[m]], at |-> "first"]
    OBVIOUS
  <2>2. /\ page' = [page EXCEPT ![m] = Row("removed")]
        /\ Send("delete", Owner[m], m, Blank)
    BY <1>2 DEF RemoveMark
  <2>3. \A n \in Marks : page'[n].at = "unused" => page[n].at = "unused" /\ n # m
    BY <2>2 DEF MarksTyped, Row
  <2> QED BY <2>1, <2>2, <2>3, SendCache
<1>3. ASSUME NEW m \in Marks, KeyUp(m) PROVE MadeOnce' /\ CacheInv'
  <2>1. PICK q : q = [kind |-> "update", judge |-> Owner[m], about |-> m,
                      value |-> page[m].text, routine |-> seen[Owner[m]], at |-> "first"]
    OBVIOUS
  <2>2. /\ UNCHANGED page /\ page[m].at = "shown"
        /\ Send("update", Owner[m], m, page[m].text)
    BY <1>3 DEF KeyUp
  <2>3. \A n \in Marks : page'[n].at = "unused" => page[n].at = "unused" /\ n # m
    BY <2>2
  <2> QED BY <2>1, <2>2, <2>3, SendCache
<1>4. ASSUME UNCHANGED <<cache, tables, selecting, requests, inHand, disturbed, failed, raced>>,
             \A m \in Marks : page'[m].at = "unused" <=> page[m].at = "unused"
      PROVE MadeOnce' /\ CacheInv'
  <2>1. UNCHANGED <<routine, deductions, marked, selecting, requests, loaded, clashed,
                    disturbed, failed, raced>>
    BY <1>4 DEF cache, tables, inHand
  <2>2. ListsHold => ListsHold'
    BY <1>4, <2>1, SameLists
  <2> QED BY <1>4, <2>1, <2>2 DEF MadeOnce, Alone, CacheInv, GetDeductions
<1>5. ASSUME NEW j \in Judges, NEW result \in Results, SubmitResults(j, result)
      PROVE MadeOnce' /\ CacheInv'
  <2>1. PICK q : q = [kind |-> "nandu", judge |-> j, about |-> j, value |-> result,
                      routine |-> seen[j], at |-> "first"]
    OBVIOUS
  <2>2. Send("nandu", j, j, result) /\ UNCHANGED page
    BY <1>5 DEF SubmitResults
  <2> QED BY <2>1, <2>2, SendCache
<1>6. ASSUME NEW m \in Marks, NEW text, Type(m, text) PROVE MadeOnce' /\ CacheInv'
  <2>1. /\ page' = [page EXCEPT ![m].text = text, ![m].check = FALSE]
        /\ page \in [Marks -> PageRow]
    BY <1>6 DEF Type, MarksTyped
  <2>2. \A n \in Marks : page'[n].at = page[n].at
    BY <2>1 DEF PageRow
  <2> QED BY <1>4, <1>6, <2>2 DEF Type
<1>7. ASSUME NEW j \in Judges, UpdateStatus(j) PROVE MadeOnce' /\ CacheInv'
  <2>1. \A m \in Marks : page'[m].at = "unused" <=> page[m].at = "unused"
    BY <1>7 DEF UpdateStatus, Row
  <2> QED BY <1>4, <1>7, <2>1 DEF UpdateStatus
<1> QED BY <1>1, <1>2, <1>3, <1>5, <1>6, <1>7 DEF PageSteps

\* A handler of a mark goes on from the table to the cache.
LEMMA AdvanceCache ==
    ASSUME MarksTyped, NanduInv, MadeOnce, CacheInv, NEW r \in requests, r.kind # "nandu",
           Advance(r), r.at = "first",
           UNCHANGED <<deductions, routine, page, selecting, disturbed, failed, raced, loaded,
                       clashed>>,
           IsFiniteSet(DOMAIN marked'), DOMAIN marked' \subseteq DOMAIN marked \cup {r.about},
           \A m \in Marks \ {r.about} :
               /\ m \in DOMAIN marked' <=> m \in DOMAIN marked
               /\ m \in DOMAIN marked => marked'[m] = marked[m],
           ASSUME NEW q \in Request, q = [r EXCEPT !.at = "second"], r.routine = routine,
                  Kept(r.about) = Recorded(r.about)
           PROVE  TableIsAhead(r.about, q)'
    PROVE  MadeOnce' /\ CacheInv'
<1>1. PICK q : q = [r EXCEPT !.at = "second"]
  OBVIOUS
<1>2. /\ r \in Request /\ q \in Request /\ q.kind = r.kind /\ q.about = r.about
      /\ q.at = "second" /\ r.about \in Marks
  BY <1>1, InHand DEF MarksTyped, Request
<1>3. requests' = (requests \ {r}) \cup {q}
  BY <1>1 DEF Advance
<1>4. MadeOnce'
  <2>1. ASSUME NEW m \in Marks, m \notin raced' PROVE Alone(m)'
    BY <1>2, <1>3, <2>1 DEF MadeOnce, Alone
  <2>2. ASSUME NEW x \in requests', NEW y \in requests', x.kind = "mark", y.kind = "mark",
               x.about = y.about
        PROVE  x = y
    BY <1>2, <1>3, <2>2 DEF MadeOnce
  <2>3. ASSUME NEW m \in Marks, page'[m].at = "unused"
        PROVE  m \notin DOMAIN marked' /\ \A x \in requests' : x.about # m
    BY <1>2, <1>3, <2>3 DEF MadeOnce
  <2>4. DOMAIN loaded' = {x \in requests' : x.at = "third"}
    BY <1>2, <1>3 DEF MadeOnce
  <2> QED BY <2>1, <2>2, <2>3, <2>4 DEF MadeOnce
<1>5. ASSUME ~disturbed' PROVE selecting.at = "idle" /\ r.routine = routine
  BY <1>5 DEF NanduInv
<1>6. ASSUME ~disturbed', deductions' # Nil, "read" \notin failed' PROVE ListsHold'
  <2>1. ListsHold
    BY <1>5, <1>6 DEF CacheInv
  <2>2. \A m \in Marks : Kept(m)' = Kept(m)
    BY DEF Kept
  <2>3. ASSUME NEW m \in Marks, Owner[m] \notin clashed PROVE CacheHolds(m)'
    <3>1. CASE m # r.about
      <4>1. Recorded(m)' = Recorded(m)
        BY <3>1 DEF Recorded
      <4>2. /\ \A x \in requests' : x.about = m => x \in requests
            /\ \A x \in requests : x.about = m => x \in requests'
        BY <1>2, <1>3, <3>1
      <4> QED BY <2>1, <2>2, <2>3, <4>1, <4>2, UntouchedInCache DEF ListsHold
    <3>2. CASE m = r.about
      <4>1. NotMade(m)' => NotMade(m)
        BY <1>2, <1>3 DEF NotMade
      <4>2. ASSUME m \notin raced'
            PROVE  (\A x \in requests' : x.about = m => x = q) /\ TableIsAhead(m, q)'
        <5>1. \A x \in requests : x.about = m => x = r
          BY <3>2, <4>2 DEF MadeOnce, Alone
        <5>2. Kept(m) = Recorded(m)
          BY <2>1, <2>3, <4>2, <5>1 DEF ListsHold, CacheHolds, MarkIsCached
        <5>3. TableIsAhead(r.about, q)'
          BY <1>1, <1>2, <1>5, <1>6, <3>2, <5>2
        <5> QED BY <1>2, <1>3, <3>2, <5>1, <5>3
      <4>3. MarkIsCached(m)'
        <5> SUFFICES ASSUME m \notin raced' PROVE MarkIsCached(m)'
          BY DEF MarkIsCached
        <5>1. q \in requests' /\ q.about = m /\ q.at # "first"
          BY <1>2, <1>3, <3>2
        <5> QED BY <4>2, <5>1 DEF MarkIsCached
      <4> QED BY <2>1, <2>2, <2>3, <4>1, <4>3 DEF ListsHold, CacheHolds
    <3> QED BY <3>1, <3>2
  <2>4. LoadsHold'
    BY <2>1, UntouchedLoads DEF ListsHold
  <2> QED BY <2>1, <2>3, <2>4 DEF ListsHold, ListsTyped
<1> QED BY <1>4, <1>5, <1>6 DEF CacheInv

\* It loads the list.
LEMMA LoadCache ==
    ASSUME MarksTyped, NanduInv, MadeOnce, CacheInv, NEW r \in requests, LoadDeductions(r)
    PROVE  MadeOnce' /\ CacheInv'
<1>1. PICK q : q = [r EXCEPT !.at = "third"]
  OBVIOUS
<1>2. /\ r \in Request /\ q \in Request /\ r.about \in Marks /\ r.judge = Owner[r.about]
      /\ q.kind = r.kind /\ q.about = r.about /\ q.judge = r.judge /\ q.value = r.value
      /\ q.at = "third" /\ r.at = "second" /\ r.kind # "nandu" /\ r.judge \in Judges
  BY <1>1, OwnerAssumption DEF LoadDeductions, MarksTyped, Request, Addressed
<1>3. /\ requests' = (requests \ {r}) \cup {q}
      /\ loaded' = [s \in DOMAIN loaded \cup {q} |->
                       IF s # q THEN loaded[s]
                       ELSE IF deductions = Nil THEN <<>> ELSE deductions[r.judge]]
      /\ clashed' = IF \E s \in DOMAIN loaded : Clash(s, r) THEN clashed \cup {r.judge}
                    ELSE clashed
      /\ UNCHANGED <<deductions, routine, marked, page, selecting, disturbed, failed, raced>>
  BY <1>1 DEF LoadDeductions, cache, tables, clients
<1>4. MadeOnce'
  <2>1. ASSUME NEW m \in Marks, m \notin raced' PROVE Alone(m)'
    BY <1>2, <1>3, <2>1 DEF MadeOnce, Alone
  <2>2. ASSUME NEW x \in requests', NEW y \in requests', x.kind = "mark", y.kind = "mark",
               x.about = y.about
        PROVE  x = y
    BY <1>2, <1>3, <2>2 DEF MadeOnce
  <2>3. ASSUME NEW m \in Marks, page'[m].at = "unused"
        PROVE  m \notin DOMAIN marked' /\ \A x \in requests' : x.about # m
    BY <1>2, <1>3, <2>3 DEF MadeOnce
  <2>4. DOMAIN loaded' = {x \in requests' : x.at = "third"}
    BY <1>2, <1>3 DEF MadeOnce
  <2> QED BY <1>3, <2>1, <2>2, <2>3, <2>4 DEF MadeOnce
<1>5. ASSUME ~disturbed' PROVE selecting.at = "idle"
  BY <1>3, <1>5 DEF NanduInv
<1>6. ASSUME ~disturbed', deductions' # Nil, "read" \notin failed' PROVE ListsHold'
  <2>1. ListsHold /\ deductions # Nil
    BY <1>3, <1>5, <1>6 DEF CacheInv
  <2>2. \A m \in Marks : Kept(m)' = Kept(m) /\ Recorded(m)' = Recorded(m)
    BY <1>3 DEF Kept, Recorded
  <2>3. ASSUME NEW m \in Marks, Owner[m] \notin clashed' PROVE CacheHolds(m)'
    <3>0. CacheHolds(m)
      BY <1>3, <2>1, <2>3 DEF ListsHold
    <3>1. CASE m # r.about
      <4>1. /\ \A x \in requests' : x.about = m => x \in requests
            /\ \A x \in requests : x.about = m => x \in requests'
        BY <1>2, <1>3, <3>1
      <4> QED BY <1>3, <2>2, <3>0, <4>1, UntouchedInCache
    <3>2. CASE m = r.about
      <4>1. NotMade(m)' => NotMade(m)
        BY <1>2, <1>3 DEF NotMade
      <4>2. \A x : TableIsAhead(m, x)' <=> TableIsAhead(m, x)
        BY <2>2 DEF TableIsAhead
      <4>3. TableIsAhead(m, r) => TableIsAhead(m, q)
        BY <1>2 DEF TableIsAhead
      <4>4. MarkIsCached(m)'
        BY <1>2, <1>3, <3>0, <3>2, <4>2, <4>3 DEF CacheHolds, MarkIsCached
      <4> QED BY <2>2, <3>0, <4>1, <4>4 DEF CacheHolds
    <3> QED BY <3>1, <3>2
  <2>4. ASSUME NEW s \in DOMAIN loaded' PROVE LoadHolds(s)'
    <3>1. CASE s = q
      <4>1. loaded'[s] = deductions[s.judge]
        BY <1>2, <1>3, <2>1, <3>1
      <4>2. IsListed(deductions[s.judge], s.about) <=> Kept(s.about) # {}
        BY <1>2, <3>1 DEF IsListed, Kept, Of
      <4>3. s.judge \notin clashed' => \A i \in DOMAIN deductions[s.judge] :
                                          deductions[s.judge][i] \in Entry
        BY <1>2, <1>3, <2>1, <3>1, ListFacts DEF ListsHold, ListsTyped
      <4>4. \A n : IsListed(loaded'[s], n) <=> IsListed(deductions[s.judge], n)
        BY <4>1
      <4>5. s.about \in Marks /\ Kept(s.about)' = Kept(s.about) /\ deductions' = deductions
        BY <1>2, <1>3, <2>2, <3>1
      <4>6. \A n : IsListed(loaded[s], n)' <=> IsListed(loaded'[s], n)
        BY DEF IsListed
      <4> QED BY <4>1, <4>2, <4>3, <4>4, <4>5, <4>6 DEF LoadHolds
    <3>2. CASE s # q
      <4>1. s \in DOMAIN loaded /\ loaded'[s] = loaded[s]
        BY <1>3, <3>2
      <4>2. LoadHolds(s) /\ clashed \subseteq clashed' /\ Kept(s.about)' = Kept(s.about)
        BY <1>3, <2>1, <4>1 DEF ListsHold, LoadsHold, Kept
      <4> QED BY <1>3, <4>1, <4>2 DEF LoadHolds, IsListed
    <3> QED BY <3>1, <3>2
  <2>5. ASSUME NEW s \in DOMAIN loaded', NEW x \in DOMAIN loaded', s # x, Clash(s, x)
        PROVE  x.judge \in clashed'
    <3>1. Clash(x, s) /\ s.judge = x.judge
      BY <2>5 DEF Clash
    <3>2. \A y : Clash(y, q) <=> Clash(y, r)
      BY <1>2 DEF Clash
    <3>3. DOMAIN loaded' = DOMAIN loaded \cup {q}
      BY <1>3
    <3> QED BY <1>2, <1>3, <2>1, <2>5, <3>1, <3>2, <3>3 DEF ListsHold, LoadsHold
  <2>6. ListsTyped'
    BY <1>3, <2>1 DEF ListsHold, ListsTyped
  <2> QED BY <2>3, <2>4, <2>5, <2>6 DEF ListsHold, LoadsHold
<1> QED BY <1>3, <1>4, <1>5, <1>6 DEF CacheInv

\* What the last step of a handler does to the lists and the loads.
ListChanges(r) ==
    /\ deductions' = [j \in Judges |-> deductions'[j]]
    /\ \A j \in Judges \ {r.judge} : deductions'[j] = deductions[j]
    /\ \A s \in DOMAIN loaded' : s.judge # r.judge => loaded'[s] = loaded[s]
    /\ r.judge \notin clashed =>
          /\ deductions'[r.judge] \in Lists(r.judge)
          /\ \A s \in DOMAIN loaded' : s.judge = r.judge => LoadHolds(s)'
          /\ \A m \in Marks \ {r.about} : Owner[m] = r.judge => Kept(m)' = Kept(m)
          /\ NotMade(r.about)' => Kept(r.about)' = {}
          /\ r.about \notin raced => Kept(r.about)' = Recorded(r.about)

\* A handler of a mark ends, with the cache abreast of the table.
LEMMA EndCache ==
    ASSUME MarksTyped, NanduInv, MadeOnce, CacheInv, NEW r \in requests, r.kind # "nandu",
           End(r), UNCHANGED <<marked, routine, selecting, disturbed, raced, clashed>>,
           DOMAIN loaded' = DOMAIN loaded \ {r},
           "read" \in failed => "read" \in failed',
           \A m \in Marks : page'[m].at = page[m].at,
           deductions = Nil => deductions' = Nil,
           ASSUME ~disturbed, deductions # Nil, ListsHold PROVE ListChanges(r)
    PROVE  MadeOnce' /\ CacheInv'
<1>1. requests' = requests \ {r} /\ r.about \in Marks /\ r.judge = Owner[r.about]
  BY InHand DEF End, Addressed
<1>2. MadeOnce'
  <2>1. DOMAIN loaded' = {x \in requests' : x.at = "third"}
    BY <1>1 DEF MadeOnce
  <2> QED BY <1>1, <2>1 DEF MadeOnce, Alone
<1>3. ASSUME ~disturbed' PROVE selecting.at = "idle"
  BY <1>3 DEF NanduInv
<1>4. ASSUME ~disturbed', deductions' # Nil, "read" \notin failed' PROVE ListsHold'
  <2>1. ListsHold /\ deductions # Nil
    BY <1>3, <1>4 DEF CacheInv
  <2>2. ListChanges(r)
    BY <1>4, <2>1
  <2>3. \A m \in Marks : Recorded(m)' = Recorded(m)
    BY DEF Recorded
  <2>4. \A m \in Marks : Owner[m] # r.judge => Kept(m)' = Kept(m)
    BY <2>2, OwnerAssumption DEF ListChanges, Kept
  <2>5. ASSUME NEW m \in Marks, Owner[m] \notin clashed PROVE CacheHolds(m)'
    <3>1. CASE m # r.about
      <4>1. /\ \A x \in requests' : x.about = m => x \in requests
            /\ \A x \in requests : x.about = m => x \in requests'
        BY <1>1, <3>1
      <4>2. Kept(m)' = Kept(m) /\ CacheHolds(m)
        BY <2>1, <2>2, <2>4, <2>5, <3>1 DEF ListsHold, ListChanges
      <4> QED BY <2>3, <4>1, <4>2, UntouchedInCache
    <3>2. CASE m = r.about
      <4>1. ASSUME m \notin raced' PROVE \A x \in requests' : x.about # m
        BY <1>1, <3>2, <4>1 DEF MadeOnce, Alone
      <4>2. (NotMade(m)' => Kept(m)' = {}) /\ (m \notin raced => Kept(m)' = Recorded(m))
        BY <1>1, <2>2, <2>5, <3>2 DEF ListChanges
      <4> QED BY <2>3, <3>2, <4>1, <4>2 DEF CacheHolds, MarkIsCached
    <3> QED BY <3>1, <3>2
  <2>6. ASSUME NEW s \in DOMAIN loaded' PROVE LoadHolds(s)'
    <3>1. s \in requests /\ s \in DOMAIN loaded
      BY DEF MadeOnce
    <3>2. s \in Request /\ Addressed(s)
      BY <3>1 DEF MarksTyped
    <3>3. CASE s.judge = r.judge
      BY <2>2, <3>3 DEF ListChanges, LoadHolds
    <3>4. CASE s.judge # r.judge
      <4>1. loaded'[s] = loaded[s] /\ deductions'[s.judge] = deductions[s.judge] /\ LoadHolds(s)
        BY <2>1, <2>2, <3>1, <3>2, <3>4 DEF ListChanges, ListsHold, LoadsHold, Request
      <4>2. s.kind = "update" => Kept(s.about)' = Kept(s.about)
        BY <2>4, <3>2, <3>4 DEF Addressed
      <4> QED BY <4>1, <4>2 DEF LoadHolds
    <3> QED BY <3>3, <3>4
  <2>7. \A q, s \in DOMAIN loaded' : q # s /\ Clash(q, s) => s.judge \in clashed'
    BY <2>1 DEF ListsHold, LoadsHold
  <2>8. ListsTyped'
    BY <2>1, <2>2 DEF ListsHold, ListsTyped, ListChanges
  <2> QED BY <2>5, <2>6, <2>7, <2>8 DEF ListsHold, LoadsHold
<1> QED BY <1>2, <1>3, <1>4 DEF CacheInv

\* A handler of the C panel leaves the lists alone.
LEMMA NanduHandlerCache ==
    ASSUME MarksTyped, NanduInv, MadeOnce, CacheInv, NEW r \in requests, r.kind = "nandu",
           GoesOn(r, "second") \/ End(r), r.at # "third", "read" \in failed => "read" \in failed',
           UNCHANGED <<deductions, routine, marked, page, selecting, disturbed, raced, loaded,
                       clashed>>
    PROVE  MadeOnce' /\ CacheInv'
<1>1. /\ \A q \in requests' : q.about \in Marks => q \in requests
      /\ \A q \in requests : q.about \in Marks => q \in requests'
      /\ \A q \in requests' : q.kind = "mark" \/ q.at = "third" => q \in requests
      /\ \A q \in requests : q.at = "third" => q \in requests'
  <2>1. /\ r.about \notin Marks /\ [r EXCEPT !.at = "second"].kind = "nandu"
        /\ [r EXCEPT !.at = "second"].at = "second"
    BY InHand DEF Request
  <2>2. /\ \A q \in requests' : q.about # r.about => q \in requests
        /\ \A q \in requests : q.about # r.about => q \in requests'
    BY InHand DEF Moves
  <2>3. /\ \A q \in requests' : q \in requests \/ q = [r EXCEPT !.at = "second"]
        /\ \A q \in requests : q \in requests' \/ q = r
    BY DEF GoesOn, End
  <2> QED BY <2>1, <2>2, <2>3
<1>2. MadeOnce'
  BY <1>1 DEF MadeOnce, Alone
<1>3. ASSUME ~disturbed' PROVE selecting.at = "idle"
  BY <1>3 DEF NanduInv
<1>4. \A m \in Marks : Kept(m)' = Kept(m) /\ Recorded(m)' = Recorded(m)
  BY DEF Kept, Recorded
<1>5. ListsHold => ListsHold'
  <2> SUFFICES ASSUME ListsHold PROVE ListsHold'
    OBVIOUS
  <2>1. LoadsHold'
    BY UntouchedLoads DEF ListsHold
  <2> QED BY <1>1, <1>4, <2>1, UntouchedInCache DEF ListsHold, ListsTyped
<1> QED BY <1>2, <1>3, <1>5 DEF CacheInv

\* What a handler changes in the list of one judge.
LEMMA OneList ==
    ASSUME ListsTyped, NEW j \in Judges, NEW list, deductions' = [deductions EXCEPT ![j] = list]
    PROVE  /\ deductions' = [k \in Judges |-> deductions'[k]] /\ deductions'[j] = list
           /\ \A k \in Judges \ {j} : deductions'[k] = deductions[k]
           /\ \A m \in Marks : Owner[m] = j => Kept(m)' = Of(list, m)
<1>1. deductions = [k \in Judges |-> deductions[k]]
  BY DEF ListsTyped
<1>2. /\ deductions' = [k \in Judges |-> IF k = j THEN list ELSE deductions[k]]
  BY <1>1
<1>3. deductions'[j] = list /\ \A k \in Judges \ {j} : deductions'[k] = deductions[k]
  BY <1>2
<1>4. deductions' = [k \in Judges |-> deductions'[k]]
  BY <1>2
<1> QED BY <1>3, <1>4 DEF Kept

\* A handler that stores nothing, for a mark that is already as the table has it.
LEMMA NothingStored ==
    ASSUME ListsHold, NEW r, r.judge \in Judges, UNCHANGED <<deductions, raced, clashed>>,
           \A q \in DOMAIN loaded' : q \in DOMAIN loaded /\ loaded'[q] = loaded[q],
           r.judge \notin clashed =>
               /\ NotMade(r.about)' => Kept(r.about) = {}
               /\ r.about \notin raced => Kept(r.about) = Recorded(r.about)
    PROVE  ListChanges(r)
<1>1. ASSUME NEW q \in DOMAIN loaded' PROVE LoadHolds(q)'
  <2>1. LoadHolds(q) /\ loaded'[q] = loaded[q] /\ Kept(q.about)' = Kept(q.about)
    BY DEF ListsHold, LoadsHold, Kept
  <2>2. \A n : IsListed(loaded[q], n)' <=> IsListed(loaded[q], n)
    BY <2>1 DEF IsListed
  <2> QED BY <2>1, <2>2 DEF LoadHolds
<1>2. \A m : Kept(m)' = Kept(m)
  BY DEF Kept
<1>3. deductions' = [j \in Judges |-> deductions'[j]]
  BY DEF ListsHold, ListsTyped
<1>4. r.judge \notin clashed => deductions'[r.judge] \in Lists(r.judge)
  BY DEF ListsHold, ListsTyped
<1> QED BY <1>1, <1>2, <1>3, <1>4 DEF ListChanges

\* A handler that stores the judge's list with one entry more or less.
LEMMA ListStored ==
    ASSUME MarksTyped, MadeOnce, ListsHold, deductions # Nil,
           NEW r \in DOMAIN loaded, r.kind \in {"mark", "delete"},
           NEW new, NEW from, Store(r, new, from),
           r.kind = "mark" =>
               new = Append(loaded[r], EntryOf(r)) /\ from = Len(loaded[r]) + 1,
           r.judge \notin clashed =>
               /\ new \in Lists(r.judge)
               /\ \A n \in Marks \ {r.about} : Owner[n] = r.judge => Of(new, n) = Kept(n)
               /\ NotMade(r.about)' => Of(new, r.about) = {}
               /\ r.about \notin raced => Of(new, r.about) = Recorded(r.about)
    PROVE  ListChanges(r)
<1> DEFINE j == r.judge
           old == deductions[j]
<1>1. PICK hit \in SUBSET {q \in DOMAIN loaded : q.judge = j} :
          loaded' = [q \in DOMAIN loaded \ {r} |->
                        IF q \in hit THEN Cells(loaded[q], new, from) ELSE loaded[q]]
  BY DEF Store
<1>2. /\ deductions' = [deductions EXCEPT ![j] = new]
      /\ UNCHANGED <<raced, clashed>>
  BY DEF Store
<1>3. /\ r \in requests /\ r \in Request /\ j \in Judges /\ r.about \in Marks
      /\ Owner[r.about] = j
  BY OwnerAssumption DEF MadeOnce, MarksTyped, Request, Addressed
<1>4. /\ deductions' = [k \in Judges |-> deductions'[k]] /\ deductions'[j] = new
      /\ \A k \in Judges \ {j} : deductions'[k] = deductions[k]
      /\ \A m \in Marks : Owner[m] = j => Kept(m)' = Of(new, m)
  <2> HIDE DEF j
  <2> QED BY <1>2, <1>3, OneList DEF ListsHold
<1>5. \A q \in DOMAIN loaded' : q.judge # j => loaded'[q] = loaded[q]
  BY <1>1
<1>6. ASSUME j \notin clashed, NEW q \in DOMAIN loaded', q.judge = j PROVE LoadHolds(q)'
  <2>1. q \in DOMAIN loaded /\ q # r /\ q \in requests
    BY <1>1 DEF MadeOnce
  <2>2. ~Clash(q, r)
    BY <1>6, <2>1 DEF ListsHold, LoadsHold
  <2>3. q.kind \notin {"mark", "delete"} /\ r.kind = "mark"
    BY <1>6, <2>2 DEF Clash
  <2>4. LoadHolds(q) /\ loaded[r] = old /\ old \in Lists(j)
    BY <1>3, <1>6, <2>1 DEF ListsHold, ListsTyped, LoadsHold, LoadHolds
  <2>5. /\ Len(old) \in Nat /\ DOMAIN old = 1..Len(old) /\ old \in Seq(Entry)
        /\ DOMAIN old \subseteq DOMAIN new
    <3>1. Len(old) \in Nat /\ DOMAIN old = 1..Len(old) /\ old \in Seq(Entry)
      BY <2>4, ListFacts
    <3>2. new = Append(old, EntryOf(r)) /\ EntryOf(r) \in Entry
      BY <1>3, <2>3, <2>4 DEF EntryOf, Entry, MarksTyped, Addressed
    <3> HIDE DEF old
    <3>3. DOMAIN new = 1..(Len(old) + 1)
      BY <3>1, <3>2, AppendProperties
    <3> QED BY <3>1, <3>3
  <2>6. ASSUME q.kind = "update"
        PROVE  /\ DOMAIN loaded'[q] = DOMAIN loaded[q]
               /\ \A k \in DOMAIN loaded[q] : loaded'[q][k] = loaded[q][k]
    <3>1. \A k \in DOMAIN loaded[q] : k \in 1..Len(old)
      BY <1>6, <2>4, <2>5, <2>6 DEF LoadHolds
    <3>2. \A k \in DOMAIN loaded[q] : ~(k >= from)
      BY <2>3, <2>4, <2>5, <3>1
    <3>3. CASE q \in hit
      <4>1. loaded'[q] = Cells(loaded[q], new, from)
        BY <1>1, <2>1, <3>3
      <4> QED BY <3>2, <4>1 DEF Cells
    <3>4. CASE q \notin hit
      BY <1>1, <2>1, <3>4
    <3> QED BY <3>3, <3>4
  <2>7. ASSUME q.kind = "update", q.about \notin raced PROVE Kept(q.about)' = Kept(q.about)
    <3>1. q.about \in Marks /\ Owner[q.about] = j
      BY <1>6, <2>1, <2>7 DEF MarksTyped, Addressed
    <3>2. q.about # r.about
      BY <1>3, <2>1, <2>7, <3>1 DEF MadeOnce, Alone
    <3> QED BY <1>4, <1>6, <3>1, <3>2
  <2> QED BY <1>2, <1>4, <1>6, <2>3, <2>4, <2>5, <2>6, <2>7 DEF LoadHolds, IsListed
<1>7. j \notin clashed => \A m \in Marks \ {r.about} : Owner[m] = j => Kept(m)' = Kept(m)
  BY <1>4
<1> QED BY <1>2, <1>3, <1>4, <1>5, <1>6, <1>7 DEF ListChanges

\* The steps of the handlers keep the lists.
LEMMA HandlerCache ==
    ASSUME MarksTyped, NanduInv, MadeOnce, CacheInv, HandlerSteps
    PROVE  MadeOnce' /\ CacheInv'
<1> USE DEF Awaits, cache, clients, tables, inHand
<1> SUFFICES ASSUME NEW r \in requests,
                    \/ SaveDeductionMark(r) \/ SetDeduction(r)
                    \/ UpdateDeductionMark(r) \/ UpdateDeduction(r)
                    \/ RemoveDeductionMark(r) \/ DeleteDeduction(r)
                    \/ LoadDeductions(r)
                    \/ ParseNanduScores(r) \/ SaveNanduScore(r) \/ DbFails(r)
             PROVE  MadeOnce' /\ CacheInv'
  BY DEF HandlerSteps
<1> DEFINE m == r.about
<1>0. /\ r \in Request /\ Addressed(r) /\ IsFiniteSet(DOMAIN marked)
      /\ page \in [Marks -> PageRow]
      /\ DOMAIN marked \subseteq Marks
      /\ marked \in [DOMAIN marked -> [routine : Routines, code : Code]]
      /\ r.kind # "nandu" => m \in Marks /\ r.judge = Owner[m] /\ r.value \in Code
                             /\ Owner[m] \in Judges
  BY OwnerAssumption DEF MarksTyped, MadeOnce, Addressed
<1>1. CASE SaveDeductionMark(r)
  <2>1. /\ r.kind = "mark" /\ r.at = "first" /\ Advance(r)
        /\ UNCHANGED <<deductions, routine, page, selecting, disturbed, failed, raced, loaded,
                       clashed>>
        /\ marked' = [n \in DOMAIN marked \cup {m} |->
                        IF n = m THEN [routine |-> r.routine, code |-> r.value] ELSE marked[n]]
    BY <1>1 DEF SaveDeductionMark
  <2>2. IsFiniteSet(DOMAIN marked \cup {m})
    BY <1>0, FS_AddElement
  <2>3. DOMAIN marked' = DOMAIN marked \cup {m}
    BY <2>1
  <2>4. ASSUME NEW q \in Request, q = [r EXCEPT !.at = "second"], r.routine = routine
        PROVE  TableIsAhead(m, q)'
    <3>1. q.kind = "mark" /\ q.value = r.value
      BY <1>0, <2>1, <2>4 DEF Request
    <3>2. Recorded(m)' = {[id |-> m, code |-> r.value]}
      BY <2>1, <2>4 DEF Recorded
    <3> QED BY <3>1, <3>2 DEF TableIsAhead
  <2> QED BY <2>1, <2>2, <2>3, <2>4, AdvanceCache
<1>2. CASE UpdateDeductionMark(r)
  <2>1. /\ r.kind = "update" /\ r.at = "first" /\ Advance(r)
        /\ UNCHANGED <<deductions, routine, page, selecting, disturbed, failed, raced, loaded,
                       clashed>>
        /\ marked' = [n \in DOMAIN marked |->
                        IF n = m THEN [marked[n] EXCEPT !.code = r.value] ELSE marked[n]]
    BY <1>2 DEF UpdateDeductionMark
  <2>2. \A n \in DOMAIN marked :
           /\ [marked[n] EXCEPT !.code = r.value].routine = marked[n].routine
           /\ [marked[n] EXCEPT !.code = r.value].code = r.value
    BY <1>0
  <2>3. DOMAIN marked' = DOMAIN marked
    BY <2>1
  <2>4. ASSUME NEW q \in Request, q = [r EXCEPT !.at = "second"], Kept(m) = Recorded(m)
        PROVE  TableIsAhead(m, q)'
    <3>1. q.kind = "update" /\ q.value = r.value
      BY <1>0, <2>1, <2>4 DEF Request
    <3>2. Kept(m)' = Kept(m)
      BY <2>1 DEF Kept
    <3>3. Recorded(m)' = IF Recorded(m) = {} THEN {} ELSE {[id |-> m, code |-> r.value]}
      BY <2>1, <2>2 DEF Recorded
    <3> QED BY <2>4, <3>1, <3>2, <3>3 DEF TableIsAhead
  <2> QED BY <1>0, <2>1, <2>3, <2>4, AdvanceCache
<1>3. CASE RemoveDeductionMark(r)
  <2>1. /\ r.kind = "delete" /\ r.at = "first" /\ Advance(r)
        /\ UNCHANGED <<deductions, routine, page, selecting, disturbed, failed, raced, loaded,
                       clashed>>
        /\ marked' = [n \in DOMAIN marked \ {m} |-> marked[n]]
    BY <1>3 DEF RemoveDeductionMark
  <2>2. DOMAIN marked' = DOMAIN marked \ {m}
    BY <2>1
  <2>3. IsFiniteSet(DOMAIN marked \ {m})
    BY <1>0, FS_Subset
  <2>4. ASSUME NEW q \in Request, q = [r EXCEPT !.at = "second"]
        PROVE  TableIsAhead(m, q)'
    <3>1. q.kind = "delete"
      BY <1>0, <2>1, <2>4 DEF Request
    <3>2. Recorded(m)' = {}
      BY <2>2 DEF Recorded
    <3> QED BY <3>1, <3>2 DEF TableIsAhead
  <2> QED BY <2>1, <2>2, <2>3, <2>4, AdvanceCache
<1>4. CASE SetDeduction(r)
  <2> DEFINE new == Append(loaded[r], EntryOf(r))
  <2>1. /\ r.kind = "mark" /\ r.at = "third" /\ End(r) /\ r \in DOMAIN loaded
        /\ Store(r, new, Len(loaded[r]) + 1)
        /\ UNCHANGED <<marked, routine, page, selecting, disturbed, failed, raced, clashed>>
        /\ DOMAIN loaded' = DOMAIN loaded \ {r}
        /\ deductions = Nil => deductions' = Nil
    BY <1>4 DEF SetDeduction, Store, MadeOnce
  <2>2. ASSUME deductions # Nil, ListsHold PROVE ListChanges(r)
    <3>1. ASSUME r.judge \notin clashed
          PROVE  /\ new \in Lists(r.judge)
                 /\ \A n \in Marks \ {m} : Owner[n] = r.judge => Of(new, n) = Kept(n)
                 /\ m \notin raced => Of(new, m) = Recorded(m)
      <4>1. PICK e : e = EntryOf(r)
        OBVIOUS
      <4>2. PICK old : old = deductions[r.judge]
        OBVIOUS
      <4>3. /\ e \in Entry /\ e.id = m /\ Owner[m] = r.judge /\ r.judge \in Judges
            /\ old \in Lists(r.judge) /\ loaded[r] = old
        BY <1>0, <2>1, <2>2, <3>1, <4>1, <4>2
        DEF EntryOf, Entry, ListsHold, ListsTyped, LoadsHold, LoadHolds
      <4>4. Of(old, e.id) = {} /\ Owner[e.id] = r.judge
        BY <1>0, <2>1, <2>2, <3>1, <4>2, <4>3 DEF ListsHold, CacheHolds, NotMade, Kept
      <4>5. new \in Lists(r.judge) /\ HasEntry(new, old, e)
        BY <4>1, <4>3, <4>4, AppendedList
      <4>6. m \notin raced => Recorded(m) = {e}
        BY <1>0, <2>1, <2>2, <3>1, <4>1
        DEF ListsHold, CacheHolds, MarkIsCached, TableIsAhead, EntryOf
      <4>7. Of(new, m) = {e} /\ \A n : n # m => Of(new, n) = Of(old, n)
        BY <4>3, <4>5 DEF HasEntry
      <4>8. \A n \in Marks : Owner[n] = r.judge => Kept(n) = Of(old, n)
        BY <4>2 DEF Kept
      <4> QED BY <4>5, <4>6, <4>7, <4>8
    <3>2. ~NotMade(m)'
      BY <1>0, <2>1 DEF NotMade, MadeOnce, End
    <3> HIDE DEF new
    <3> QED BY <2>1, <2>2, <3>1, <3>2, ListStored DEF new
  <2> HIDE DEF new
  <2> QED BY <2>1, <2>2, EndCache
<1>5. CASE UpdateDeduction(r)
  <2>1. /\ r.kind = "update" /\ r.at = "third" /\ End(r) /\ r \in DOMAIN loaded
        /\ UNCHANGED <<marked, routine, selecting, disturbed, failed, raced, clashed>>
        /\ page' = IF page[m].at = "shown" THEN [page EXCEPT ![m].check = TRUE] ELSE page
        /\ DOMAIN loaded' = DOMAIN loaded \ {r}
        /\ deductions = Nil => deductions' = Nil
    BY <1>5 DEF UpdateDeduction, MadeOnce
  <2>2. \A n \in Marks : page'[n].at = page[n].at
    BY <1>0, <2>1 DEF PageRow
  <2>3. ASSUME ~disturbed, deductions # Nil, ListsHold PROVE ListChanges(r)
    <3>1. /\ Owner[m] = r.judge /\ r.judge \in Judges /\ r.value \in Code /\ m \in Marks
      BY <1>0, <2>1
    <3>2. r.judge \notin clashed => (NotMade(m)' => Kept(m) = {})
      BY <2>1, <2>2, <2>3, <3>1 DEF NotMade, End, ListsHold, CacheHolds
    <3>3. r.judge \notin clashed /\ m \notin raced =>
              TableIsAhead(m, r) /\ (IsListed(loaded[r], m) <=> Kept(m) # {})
      BY <2>1, <2>3, <3>1
      DEF ListsHold, LoadsHold, LoadHolds, CacheHolds, MarkIsCached
    <3>4. CASE /\ IsListed(loaded[r], m) => disturbed \/ r.judge \in clashed
               /\ loaded' = [q \in DOMAIN loaded \ {r} |-> loaded[q]]
               /\ UNCHANGED deductions
      <4>1. r.judge \notin clashed /\ m \notin raced => Kept(m) = Recorded(m)
        BY <2>1, <2>3, <3>3, <3>4 DEF TableIsAhead
      <4>2. r.judge \in Judges
        BY <1>0, <2>1
      <4> QED BY <2>1, <2>3, <3>2, <3>4, <4>1, <4>2, NothingStored
    <3>5. CASE /\ deductions' = [deductions EXCEPT ![r.judge] = Recoded(@, m, r.value)]
               /\ loaded' = [q \in DOMAIN loaded \ {r} |->
                                IF q.judge = r.judge THEN Recoded(loaded[q], m, r.value)
                                ELSE loaded[q]]
      <4>1. PICK old : old = deductions[r.judge]
        OBVIOUS
      <4>2. PICK list : list = Recoded(old, m, r.value)
        OBVIOUS
      <4>3. /\ deductions' = [k \in Judges |-> deductions'[k]] /\ deductions'[r.judge] = list
            /\ \A k \in Judges \ {r.judge} : deductions'[k] = deductions[k]
            /\ \A n \in Marks : Owner[n] = r.judge => Kept(n)' = Of(list, n)
        <5>1. deductions' = [deductions EXCEPT ![r.judge] = list]
          BY <3>5, <4>1, <4>2
        <5> QED BY <2>3, <3>1, <5>1, OneList DEF ListsHold
      <4>4. ASSUME r.judge \notin clashed
            PROVE  /\ old \in Lists(r.judge) /\ list \in Lists(r.judge)
                   /\ HasCode(list, old, m, r.value)
        <5>1. old \in Lists(r.judge)
          BY <2>3, <3>1, <4>1, <4>4 DEF ListsHold, ListsTyped
        <5> QED BY <3>1, <4>2, <5>1, UpdatedList
      <4>5. ASSUME r.judge \notin clashed
            PROVE  /\ \A n \in Marks \ {m} : Owner[n] = r.judge => Kept(n)' = Kept(n)
                   /\ Kept(m)' = IF Kept(m) = {} THEN {} ELSE {[id |-> m, code |-> r.value]}
        BY <3>1, <4>1, <4>3, <4>4, <4>5 DEF HasCode, Kept
      <4>6. r.judge \notin clashed =>
                /\ NotMade(m)' => Kept(m)' = {}
                /\ m \notin raced => Kept(m)' = Recorded(m)
        BY <2>1, <3>2, <3>3, <4>5 DEF TableIsAhead
      <4>7. ASSUME r.judge \notin clashed, NEW q \in DOMAIN loaded', q.judge = r.judge
            PROVE  LoadHolds(q)'
        <5>1. /\ q \in DOMAIN loaded /\ q # r /\ q \in requests /\ LoadHolds(q)
              /\ loaded'[q] = Recoded(loaded[q], m, r.value)
          BY <2>3, <3>5, <4>7 DEF MadeOnce, ListsHold, LoadsHold
        <5>2. q.kind \in {"mark", "delete"} => loaded'[q] = deductions'[q.judge]
          BY <4>1, <4>2, <4>3, <4>7, <5>1 DEF LoadHolds
        <5>3. ASSUME q.kind = "update"
              PROVE  /\ DOMAIN loaded'[q] = DOMAIN loaded[q]
                     /\ \A i \in DOMAIN loaded[q] : /\ loaded'[q][i] \in Entry
                                                  /\ loaded'[q][i].id = loaded[q][i].id
          <6>1. \A i \in DOMAIN loaded[q] : loaded[q][i] \in Entry
            BY <4>7, <5>1, <5>3 DEF LoadHolds
          <6>2. DOMAIN loaded'[q] = DOMAIN loaded[q]
            BY <5>1 DEF Recoded
          <6>3. \A i \in DOMAIN loaded[q] :
                   loaded'[q][i] = IF loaded[q][i].id = m
                                   THEN [loaded[q][i] EXCEPT !.code = r.value] ELSE loaded[q][i]
            BY <5>1 DEF Recoded
          <6> QED BY <3>1, <6>1, <6>2, <6>3 DEF Entry
        <5>4. DOMAIN deductions'[r.judge] = DOMAIN deductions[r.judge]
          BY <4>1, <4>2, <4>3 DEF Recoded
        <5>5. ASSUME q.kind = "update", q.about \notin raced
              PROVE  Kept(q.about)' = Kept(q.about)
          <6>1. q.about \in Marks /\ Owner[q.about] = r.judge
            BY <4>7, <5>1, <5>5 DEF MarksTyped, Addressed
          <6>2. q.about # m
            BY <3>1, <5>1, <5>5 DEF MadeOnce, Alone
          <6> QED BY <4>5, <4>7, <6>1, <6>2
        <5> QED BY <2>1, <4>7, <5>1, <5>2, <5>3, <5>4, <5>5 DEF LoadHolds, IsListed
      <4>8. \A q \in DOMAIN loaded' : q.judge # r.judge => loaded'[q] = loaded[q]
        BY <3>5
      <4> QED BY <4>3, <4>4, <4>5, <4>6, <4>7, <4>8 DEF ListChanges
    <3> QED BY <1>5, <2>3, <3>4, <3>5 DEF UpdateDeduction
  <2> QED BY <2>1, <2>2, <2>3, EndCache
<1>6. CASE DeleteDeduction(r)
  <2>1. /\ r.kind = "delete" /\ r.at = "third" /\ End(r) /\ r \in DOMAIN loaded
        /\ UNCHANGED <<marked, routine, page, selecting, disturbed, failed, raced, clashed>>
        /\ DOMAIN loaded' = DOMAIN loaded \ {r}
        /\ deductions = Nil => deductions' = Nil
    BY <1>6 DEF DeleteDeduction, Store, MadeOnce
  <2>2. ASSUME deductions # Nil, ListsHold PROVE ListChanges(r)
    <3>1. PICK old : old = loaded[r]
      OBVIOUS
    <3>2. Owner[m] = r.judge /\ r.judge \in Judges /\ m \in Marks
      BY <1>0, <2>1
    <3>3. r.judge \notin clashed =>
              old \in Lists(r.judge) /\ \A n \in Marks : Owner[n] = r.judge => Kept(n) = Of(old, n)
      BY <2>1, <2>2, <3>1, <3>2 DEF ListsHold, ListsTyped, LoadsHold, LoadHolds, Kept
    <3>4. r.judge \notin clashed /\ m \notin raced => Recorded(m) = {}
      BY <2>1, <2>2, <3>2 DEF ListsHold, CacheHolds, MarkIsCached, TableIsAhead
    <3>5. ASSUME NEW i \in DOMAIN old, old[i].id = m, Store(r, RemoveAt(old, i), i)
          PROVE  ListChanges(r)
      <4>1. PICK new : new = RemoveAt(old, i)
        OBVIOUS
      <4>2. r.judge \notin clashed =>
                /\ new \in Lists(r.judge) /\ Of(new, m) = {}
                /\ \A n : n # m => Of(new, n) = Of(old, n)
        BY <3>3, <3>5, <4>1, RemovedList
      <4> QED BY <2>1, <2>2, <3>3, <3>4, <3>5, <4>1, <4>2, ListStored
    <3>6. ASSUME ~IsListed(old, m), Store(r, old, Len(old) + 1) PROVE ListChanges(r)
      <4>1. Of(old, m) = {}
        BY <3>6 DEF IsListed, Of
      <4> QED BY <2>1, <2>2, <3>3, <3>4, <3>6, <4>1, ListStored
    <3>7. ASSUME old = <<>>, UNCHANGED deductions,
                 loaded' = [q \in DOMAIN loaded \ {r} |-> loaded[q]]
          PROVE  ListChanges(r)
      <4>1. Of(old, m) = {}
        BY <3>7 DEF Of
      <4> QED BY <2>1, <2>2, <3>2, <3>3, <3>4, <3>7, <4>1, NothingStored
    <3> QED BY <1>6, <3>1, <3>5, <3>6, <3>7 DEF DeleteDeduction
  <2> QED BY <2>1, <2>2, EndCache
<1>7. CASE DbFails(r) /\ r.kind # "nandu"
  <2>1. /\ r.at = "first" /\ End(r) /\ failed' = failed \cup {m} /\ r \notin DOMAIN loaded
        /\ UNCHANGED <<deductions, marked, routine, page, selecting, disturbed, raced, loaded,
                       clashed>>
    BY <1>7 DEF DbFails, MadeOnce
  <2>2. ASSUME deductions # Nil, ListsHold PROVE ListChanges(r)
    <3>1. m \in Marks /\ Owner[m] = r.judge /\ r.judge \in Judges
      BY <1>0, <1>7
    <3>2. r.judge \notin clashed /\ m \notin raced => Kept(m) = Recorded(m)
      BY <2>1, <2>2, <3>1 DEF ListsHold, CacheHolds, MarkIsCached, MadeOnce, Alone
    <3>3. NotMade(m)' => NotMade(m)
      BY <2>1 DEF NotMade, End
    <3>4. NotMade(m)' /\ r.judge \notin clashed => Kept(m) = {}
      BY <2>2, <3>1, <3>3 DEF ListsHold, CacheHolds
    <3> QED BY <2>1, <2>2, <3>1, <3>2, <3>4, NothingStored
  <2> QED BY <1>7, <2>1, <2>2, EndCache
<1>9. CASE LoadDeductions(r)
  BY <1>9, LoadCache
<1>8. CASE ParseNanduScores(r) \/ SaveNanduScore(r) \/ (DbFails(r) /\ r.kind = "nandu")
  <2>1. "read" # r.judge
    BY <1>0, NilAssumption DEF Request
  <2>2. /\ r.kind = "nandu" /\ r.at # "third" /\ (GoesOn(r, "second") \/ End(r))
        /\ "read" \in failed => "read" \in failed'
        /\ UNCHANGED <<deductions, routine, marked, page, selecting, disturbed, raced, loaded,
                       clashed>>
    BY <1>8, <2>1 DEF ParseNanduScores, SaveNanduScore, DbFails, Advance, GoesOn
  <2> QED BY <2>2, NanduHandlerCache
<1> QED BY <1>1, <1>2, <1>3, <1>4, <1>5, <1>6, <1>7, <1>8, <1>9

\* A step that changes nothing of what the invariant speaks of.
LEMMA SameCache ==
    ASSUME UNCHANGED <<deductions, routine, marked, page, requests, raced, loaded, clashed>>
    PROVE  (MadeOnce => MadeOnce') /\ (ListsHold => ListsHold')
<1>1. MadeOnce => MadeOnce'
  BY DEF MadeOnce, Alone
<1>2. ListsHold => ListsHold'
  BY SameLists
<1> QED BY <1>1, <1>2

\* A selection that no request disturbs fills the lists with the rows of its routine.
LEMMA FilledCache ==
    ASSUME MarksTyped, MadeOnce, FillDeductions, requests = {},
           deductions = NoLists, selecting.rows = GetDeductions
    PROVE  ListsHold'
<1> DEFINE rows == GetDeductions
<1>1. /\ deductions' = [j \in Judges |-> deductions[j] \o ListFrom(selecting.rows, j)]
      /\ UNCHANGED <<routine, marked, page, requests, raced, loaded, clashed>>
  BY DEF FillDeductions, ListFrom, tables, clients, inHand
<1>2. /\ DOMAIN rows = {n \in DOMAIN marked : marked[n].routine = routine}
      /\ \A m \in DOMAIN rows : rows[m] = marked[m].code
  BY DEF GetDeductions
<1>3. /\ IsFiniteSet(DOMAIN rows) /\ DOMAIN rows \subseteq Marks
      /\ \A m \in DOMAIN rows : rows[m] \in Code
  <2> HIDE DEF rows
  <2>1. DOMAIN rows \subseteq DOMAIN marked /\ IsFiniteSet(DOMAIN marked)
    BY <1>2 DEF MadeOnce
  <2>2. IsFiniteSet(DOMAIN rows)
    BY <2>1, FS_Subset
  <2> QED BY <1>2, <2>1, <2>2 DEF MarksTyped
<1> HIDE DEF rows
<1>4. \A j \in Judges : ListFrom(rows, j) \in Lists(j) /\ HasRows(ListFrom(rows, j), rows, j)
  BY <1>3, CachedRows
<1>5. deductions' = [j \in Judges |-> <<>> \o ListFrom(rows, j)]
  BY <1>1 DEF rows, NoLists
<1>6. ASSUME NEW j \in Judges PROVE deductions'[j] = ListFrom(rows, j)
  <2>1. ListFrom(rows, j) \in Seq(Entry)
    BY <1>4 DEF Lists
  <2>2. <<>> \o ListFrom(rows, j) = ListFrom(rows, j)
    BY <2>1, ConcatEmptySeq
  <2> QED BY <1>5, <2>2
<1>7. ListsTyped'
  <2>1. deductions' = [j \in Judges |-> deductions'[j]]
    BY <1>5
  <2>2. \A j \in Judges : deductions'[j] \in Lists(j) /\ deductions'[j] \in Seq(Entry)
    BY <1>4, <1>6 DEF Lists
  <2> QED BY <2>1, <2>2 DEF ListsTyped
<1>8. ASSUME NEW m \in Marks PROVE Kept(m)' = Recorded(m)'
  <2>1. Owner[m] \in Judges
    BY OwnerAssumption
  <2>2. Kept(m)' = IF m \in DOMAIN rows THEN {[id |-> m, code |-> rows[m]]} ELSE {}
    BY <1>4, <1>6, <2>1 DEF Kept, HasRows
  <2>3. Recorded(m)' = IF m \in DOMAIN rows THEN {[id |-> m, code |-> rows[m]]} ELSE {}
    BY <1>1, <1>2 DEF Recorded
  <2> QED BY <2>2, <2>3
<1>9. ASSUME NEW m \in Marks PROVE CacheHolds(m)'
  <2>1. NotMade(m)' => Recorded(m)' = {}
    BY <1>1 DEF NotMade, MadeOnce, Recorded
  <2> QED BY <1>1, <1>8, <2>1 DEF CacheHolds, MarkIsCached
<1>10. LoadsHold'
  BY <1>1 DEF MadeOnce, LoadsHold
<1> QED BY <1>7, <1>9, <1>10 DEF ListsHold

\* The steps of SetCompetitor keep the lists.
LEMMA SelectionCache ==
    ASSUME MarksTyped, NanduInv, MadeOnce, CacheInv, SelectionSteps
    PROVE  MadeOnce' /\ CacheInv'
<1> USE DEF Goto, cache, tables, clients, inHand
<1>1. UNCHANGED <<marked, page, requests, raced, loaded>>
  BY DEF SelectionSteps, ResetState, ReadDeductions, ReadDeductionsFails, FillDeductions,
         ReadNandusheet, ReadNandusheetFails, ReadNandu, ReadNanduFails, ParseRead
<1>2. MadeOnce'
  BY <1>1 DEF MadeOnce, Alone
<1>3. ASSUME NEW rt \in Routines, ResetState(rt) PROVE CacheInv'
  BY <1>3 DEF ResetState, CacheInv
<1>4. CASE ReadDeductions
  <2>1. /\ deductions' = NoLists /\ selecting'.at = "fill" /\ selecting'.rows = GetDeductions
        /\ UNCHANGED routine
    BY <1>4 DEF ReadDeductions, MakeMaps
  <2>2. GetDeductions' = GetDeductions
    BY <1>1, <2>1 DEF GetDeductions
  <2>3. NoLists' = NoLists
    BY DEF NoLists
  <2> QED BY <1>2, <2>1, <2>2, <2>3 DEF CacheInv
<1>5. CASE ReadDeductionsFails
  <2>1. selecting'.at \in {"sheet", "idle"} /\ "read" \in failed'
    BY <1>5 DEF ReadDeductionsFails
  <2> QED BY <1>2, <2>1 DEF CacheInv
<1>6. CASE FillDeductions
  <2>1. /\ selecting.at = "fill" /\ selecting'.at \in {"sheet", "idle"} /\ UNCHANGED disturbed
    BY <1>6 DEF FillDeductions
  <2>2. ASSUME ~disturbed' PROVE ListsHold'
    <3>1. deductions = NoLists /\ selecting.rows = GetDeductions
      BY <2>1, <2>2 DEF CacheInv
    <3>2. requests = {}
      BY <2>1, <2>2 DEF NanduInv
    <3> QED BY <1>6, <3>1, <3>2, FilledCache
  <2> QED BY <1>2, <2>1, <2>2 DEF CacheInv
<1>7. CASE ReadNandusheet \/ ReadNandusheetFails \/ ReadNandu \/ ReadNanduFails \/ ParseRead
  <2>1. /\ UNCHANGED <<deductions, routine, disturbed, clashed>>
        /\ selecting.at \in {"sheet", "nandu", "parse"}
        /\ selecting'.at \in {"nandu", "parse", "idle"}
        /\ "read" \in failed => "read" \in failed'
    BY <1>7 DEF ReadNandusheet, ReadNandusheetFails, ReadNandu, ReadNanduFails, ParseRead
  <2>2. ListsHold => ListsHold'
    BY <1>1, <2>1, SameCache
  <2> QED BY <1>2, <2>1, <2>2 DEF CacheInv
<1> QED BY <1>2, <1>3, <1>4, <1>5, <1>6, <1>7 DEF SelectionSteps

\* A list of a judge has as many entries as marks.
LEMMA ListLength ==
    ASSUME NEW j, NEW list, list \in Lists(j)
    PROVE  Len(list) = Cardinality({x.id : x \in {list[i] : i \in DOMAIN list}})
<1> DEFINE n == Len(list)
           ids == {x.id : x \in {list[i] : i \in DOMAIN list}}
           id == [i \in 1..n |-> list[i].id]
<1>1. /\ n \in Nat /\ DOMAIN list = 1..n
      /\ \A i, k \in 1..n : list[i].id = list[k].id => i = k
  BY ListFacts
<1> HIDE DEF n
<1>2. id \in [1..n -> ids]
  BY <1>1
<1>3. \A i, k \in 1..n : id[i] = id[k] => i = k
  BY <1>1
<1>4. \A m \in ids : \E i \in 1..n : id[i] = m
  BY <1>1
<1>5. IsFiniteSet(1..n) /\ Cardinality(1..n) = n
  <2>1. \A a, b \in Int : IsFiniteSet(a..b) /\ Cardinality(a..b) = IF a > b THEN 0 ELSE b - a + 1
    BY FS_Interval
  <2> QED BY <1>1, <2>1
<1> HIDE DEF ids, id
<1>6. id \in Surjection(1..n, ids) /\ id \in Injection(1..n, ids)
  BY <1>2, <1>3, <1>4 DEF Surjection, Injection, IsInjective
<1>7. IsFiniteSet(ids)
  BY <1>5, <1>6, FS_Surjection
<1>8. Cardinality(ids) = n
  BY <1>5, <1>6, <1>7, FS_Surjection, FS_Injection
<1> QED BY <1>8 DEF n, ids

\* With nothing under way the lists are the rows of the table.
LEMMA CacheAgrees ==
    ASSUME MarksTyped, MadeOnce, CacheInv PROVE CacheIsTheTable
<1> SUFFICES ASSUME Settled, deductions # Nil, NEW j \in Judges \ clashed
             PROVE  /\ Unraced(CachedMarks(j)) = Unraced(RecordedMarks(j))
                    /\ Len(deductions[j]) = Cardinality({x.id : x \in CachedMarks(j)})
  BY DEF CacheIsTheTable
<1>1. ListsHold /\ requests = {}
  BY DEF Settled, CacheInv
<1>2. deductions[j] \in Lists(j)
  BY <1>1 DEF ListsHold, ListsTyped
<1>3. \A m \in Marks \ raced : Owner[m] = j => Kept(m) = Recorded(m)
  BY <1>1 DEF ListsHold, CacheHolds, MarkIsCached
<1>4. ASSUME NEW x \in CachedMarks(j)
      PROVE  x.id \in Marks /\ Owner[x.id] = j /\ x \in Of(deductions[j], x.id)
  <2>1. PICK i \in DOMAIN deductions[j] : x = deductions[j][i]
    BY DEF CachedMarks
  <2>2. x \in Entry /\ Owner[x.id] = j
    BY <1>2, <2>1, ListFacts
  <2> QED BY <2>1, <2>2 DEF Entry, Of
<1>5. ASSUME NEW x \in Unraced(CachedMarks(j)) PROVE x \in Unraced(RecordedMarks(j))
  <2>1. /\ x \in CachedMarks(j) /\ x.id \in Marks \ raced /\ Owner[x.id] = j
        /\ x \in Kept(x.id)
    BY <1>4 DEF Unraced, Kept
  <2>2. x \in Recorded(x.id)
    BY <1>3, <2>1
  <2>3. x.id \in DOMAIN marked /\ marked[x.id].routine = routine
        /\ x = [id |-> x.id, code |-> marked[x.id].code]
    BY <2>2 DEF Recorded
  <2> QED BY <2>1, <2>3 DEF Unraced, RecordedMarks
<1>6. ASSUME NEW x \in Unraced(RecordedMarks(j)) PROVE x \in Unraced(CachedMarks(j))
  <2>1. PICK m \in DOMAIN marked :
            /\ Owner[m] = j /\ marked[m].routine = routine /\ m \notin raced
            /\ x = [id |-> m, code |-> marked[m].code]
    BY DEF Unraced, RecordedMarks
  <2>2. m \in Marks /\ x \in Recorded(m)
    BY <2>1 DEF Recorded, MarksTyped
  <2>3. x \in Of(deductions[j], m)
    BY <1>3, <2>1, <2>2 DEF Kept
  <2>4. x \in CachedMarks(j) /\ x.id = m
    BY <2>3 DEF Of, CachedMarks
  <2> QED BY <2>1, <2>4 DEF Unraced
<1>7. Unraced(CachedMarks(j)) = Unraced(RecordedMarks(j))
  <2>1. \A x : x \in Unraced(CachedMarks(j)) <=> x \in Unraced(RecordedMarks(j))
    BY <1>5, <1>6
  <2> QED BY <2>1
<1> QED BY <1>2, <1>7, ListLength DEF CachedMarks

\* Marks are made, given codes, given others and removed by several judges at once, each
\* request writing the table and then the cache, while selections empty and refill the
\* cache and database calls fail: once the requests are answered, the lists that the
\* score is computed from hold every mark of the table with its code, and no mark twice,
\* but for the marks whose own requests overtook each other and for the lists of judges
\* with two requests that changed the list at once.  Once this happened, a request and a
\* selection overlapped, or a read failed, this is so again after the next selection.
THEOREM CacheIsTheRecord == Spec => []CacheIsTheTable
<1>1. Init => MadeOnce /\ CacheInv
  <2> SUFFICES ASSUME Init PROVE MadeOnce /\ CacheInv
    OBVIOUS
  <2>1. DOMAIN marked = {} /\ DOMAIN loaded = {} /\ requests = {} /\ deductions = Nil /\ selecting.at = "idle"
    BY DEF Init
  <2>2. IsFiniteSet(DOMAIN marked)
    BY <2>1, FS_EmptySet
  <2> QED BY <2>1, <2>2 DEF MadeOnce, Alone, CacheInv
<1>2. MarksTyped /\ NanduInv /\ MadeOnce /\ CacheInv /\ [Next]_vars => (MadeOnce /\ CacheInv)'
  <2> SUFFICES ASSUME MarksTyped, NanduInv, MadeOnce, CacheInv, [Next]_vars
               PROVE  MadeOnce' /\ CacheInv'
    OBVIOUS
  <2>1. CASE UNCHANGED vars
    <3>1. /\ UNCHANGED <<deductions, routine, marked, page, requests, raced, loaded, clashed>>
          /\ UNCHANGED <<selecting, disturbed, failed>>
      BY <2>1 DEF vars, cache, tables, clients, inHand
    <3>2. GetDeductions' = GetDeductions
      BY <3>1 DEF GetDeductions
    <3> QED BY <3>1, <3>2, SameCache DEF CacheInv
  <2> QED BY <2>1, PageCache, HandlerCache, SelectionCache DEF Next
<1> QED BY <1>1, <1>2, NanduInvariant, CacheAgrees, PTL DEF Spec
=============================================================================
