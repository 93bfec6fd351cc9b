--------------------------- MODULE Broadcast_proofs ---------------------------
(* Proofs about Broadcast, for any pages and any number of broadcasts.       *)
EXTENDS Broadcast, TLAPS

(* Types.  A sender to the head judge exists only when there is one, and     *)
(* appends nothing; the others send to members of a list.  That a target is  *)
(* a connection and a list is found by its role needs this.                  *)

Addressed ==
  /\ \A c \in Conns : reg[c] = "lock" => Role[c] \in Lists
  /\ \A b \in Broadcasts :
        /\ snd[b][HeadJudge] # "none" => headJudge # None
        /\ snd[b][HeadJudge] # "append"
        /\ \A t \in Conns : snd[b][t] # "none" => Role[t] \in Lists

Typed == TypeOK /\ Addressed

\* The senders are one for the head judge and one for each connection.
LEMMA HeadIsSender == HeadJudge \in Senders /\ Conns \subseteq Senders
BY DEF Senders

\* The steps of connections and registrations keep the types.
LEMMA PeerTypes ==
    ASSUME Typed, NEW c \in Conns, Peers(c) \/ Registration(c)
    PROVE  Typed'
<1> USE RoleAssumption, NoneAssumption DEF Typed
<1>1. CASE Connect(c)
  BY <1>1 DEF TypeOK, Addressed, Connect, ringVars, lockVars, localVars, sendVars, history
<1>2. CASE PeerLeaves(c)
  BY <1>2 DEF TypeOK, Addressed, PeerLeaves, ringVars, lockVars, localVars, sendVars, history
<1>3. CASE Close(c)
  BY <1>3 DEF TypeOK, Addressed, Close, ringVars, lockVars, localVars, sendVars, history
<1>4. CASE ReceiveRegister(c)
  BY <1>4 DEF TypeOK, Addressed, ReceiveRegister, ringVars, lockVars, localVars, sendVars, history
<1>5. CASE SetHeadJudge(c)
  BY <1>5 DEF TypeOK, Addressed, SetHeadJudge, lockVars, localVars, sendVars, history
<1>6. CASE AwaitLock(c)
  BY <1>6 DEF TypeOK, Addressed, AwaitLock, Writers, Adding, ringVars, localVars, sendVars, history
<1>7. CASE AddMember(c)
  <2>1. /\ members' \in [Lists -> SUBSET Conns]
        /\ \A l \in Lists : \A d \in members'[l] : Role[d] = l /\ reg'[d] = "done"
    <3>1. Role[c] \in Lists
      BY <1>7 DEF TypeOK, Addressed, AddMember
    <3>2. QED BY <1>7, <3>1 DEF TypeOK, AddMember
  <2>2. reg' \in [Conns -> {"none", "handle", "lock", "done"}] /\ writers' \subseteq Writers
    BY <1>7 DEF TypeOK, AddMember
  <2>3. QED
    BY <1>7, <2>1, <2>2 DEF TypeOK, Addressed, AddMember, localVars, sendVars, history
<1>8. QED
  BY <1>1, <1>2, <1>3, <1>4, <1>5, <1>6, <1>7 DEF Peers, Registration

\* The steps of the goroutine of a broadcast keep the types.
LEMMA BroadcastStepTypes ==
    ASSUME Typed, NEW b \in Broadcasts, Spawning(b) \/ Cleaning(b)
    PROVE  Typed'
<1> USE RoleAssumption, NoneAssumption DEF Typed
<1>1. CASE StartBroadcast(b)
  BY <1>1 DEF TypeOK, Addressed, StartBroadcast, Step, Notified, Members, Lists, Senders,
              Booleans, ringVars, lockVars
<1>2. CASE SpawnHead(b)
  <2>1. snd' \in [Broadcasts -> [Senders -> {"none", "send", "check", "append", "done"}]]
    BY <1>2 DEF TypeOK, SpawnHead, Step
  <2>2. Addressed'
    BY <1>2, HeadIsSender DEF TypeOK, Addressed, SpawnHead, Step, ringVars
  <2>3. QED
    BY <1>2, <2>1, <2>2 DEF TypeOK, SpawnHead, Step, ringVars, lockVars, localVars, history
<1>3. ASSUME NEW l \in Lists, ReadList(b, l) PROVE Typed'
  BY <1>3 DEF TypeOK, Addressed, ReadList, ringVars, localVars, sendVars, history
<1>4. ASSUME NEW l \in Lists, SpawnList(b, l) PROVE Typed'
  <2>1. snd' \in [Broadcasts -> [Senders -> {"none", "send", "check", "append", "done"}]]
    BY <1>4 DEF TypeOK, SpawnList, Step
  <2>2. Addressed'
    BY <1>4, HeadIsSender DEF TypeOK, Addressed, SpawnList, Step, ringVars
  <2>3. QED
    BY <1>4, <2>1, <2>2 DEF TypeOK, SpawnList, Step, ringVars, localVars, history
<1>5. CASE HeadFailed(b)
  <2>1. snd' \in [Broadcasts -> [Senders -> {"none", "send", "check", "append", "done"}]]
    BY <1>5, HeadIsSender DEF TypeOK, HeadFailed, SendStep, AddError
  <2>2. Addressed'
    BY <1>5, HeadIsSender DEF TypeOK, Addressed, HeadFailed, SendStep, AddError, ringVars
  <2>3. QED
    BY <1>5, HeadIsSender, <2>1, <2>2 DEF TypeOK, HeadFailed, SendStep, AddError, ringVars, lockVars, history
<1>6. CASE Wait(b)
  BY <1>6 DEF TypeOK, Addressed, Wait, Step, ringVars, lockVars, localVars, sendVars, history
<1>7. CASE AwaitRemoval(b)
  BY <1>7 DEF TypeOK, Addressed, AwaitRemoval, Step, Writers, Removing, ringVars, localVars,
              sendVars, history
<1>8. CASE RemoveStale(b)
  <2>1. PICK c \in Stale(b) :
           /\ members' = [members EXCEPT ![Role[c]] = @ \ {c}]
           /\ stale' = [stale EXCEPT ![b][Role[c]] = @ \ {c}]
    BY <1>8 DEF RemoveStale
  <2>2. /\ members' \in [Lists -> SUBSET Conns]
        /\ \A l \in Lists : members'[l] \subseteq members[l]
    <3>1. \A l \in Lists : members'[l] = IF l = Role[c] THEN members[l] \ {c} ELSE members[l]
      BY <2>1 DEF TypeOK
    <3>2. members' = [l \in Lists |-> members'[l]]
      BY <2>1 DEF TypeOK
    <3>3. \A l \in Lists : members'[l] \subseteq members[l]
      BY <3>1
    <3>4. \A l \in Lists : members[l] \subseteq Conns
      BY DEF TypeOK
    <3>5. \A l \in Lists : members'[l] \in SUBSET Conns
      BY <3>3, <3>4
    <3>6. QED BY <3>2, <3>3, <3>5
  <2>3. stale' \in [Broadcasts -> [Lists -> SUBSET Conns]]
    <3>1. [stale[b] EXCEPT ![Role[c]] = @ \ {c}] \in [Lists -> SUBSET Conns]
      <4>1. stale[b] \in [Lists -> SUBSET Conns]
        BY DEF TypeOK
      <4>2. \A l \in Lists : [stale[b] EXCEPT ![Role[c]] = @ \ {c}][l] \in SUBSET Conns
        BY <4>1
      <4>3. QED BY <4>1, <4>2
    <3>2. stale' = [stale EXCEPT ![b] = [stale[b] EXCEPT ![Role[c]] = @ \ {c}]]
      BY <2>1 DEF TypeOK
    <3>3. QED BY <3>1, <3>2 DEF TypeOK
  <2>4. bpc' \in [Broadcasts -> {"idle", "head", "judges", "listeners", "wait", "clean", "lock"}]
    BY <1>8 DEF TypeOK, RemoveStale, Step
  <2>5. QED
    BY <1>8, <2>2, <2>3, <2>4 DEF TypeOK, Addressed, RemoveStale, sendVars, history
<1>9. CASE Report(b)
  BY <1>9 DEF TypeOK, Addressed, Report, Step, ringVars, lockVars, localVars, sendVars
<1>10. QED
  BY <1>1, <1>2, <1>3, <1>4, <1>5, <1>6, <1>7, <1>8, <1>9 DEF Spawning, Cleaning

\* The steps of a sender keep the types.
LEMMA SenderTypes ==
    ASSUME Typed, NEW b \in Broadcasts, NEW t \in Senders, Sending(b, t)
    PROVE  Typed'
<1> USE RoleAssumption, NoneAssumption DEF Typed
<1>1. CASE Send(b, t)
  <2>1. Target(t) \in Conns
    BY <1>1 DEF TypeOK, Addressed, Send, SendStep, Target, Senders
  <2>2. snd' \in [Broadcasts -> [Senders -> {"none", "send", "check", "append", "done"}]]
    BY <1>1 DEF TypeOK, Send, SendStep
  <2>3. /\ err' \in [Broadcasts -> Booleans]
        /\ got' \in [Broadcasts -> SUBSET Conns]
        /\ failed' \in [Broadcasts -> Booleans]
    <3>1. TRUE \in Booleans /\ FALSE \in Booleans
      BY DEF Booleans
    <3>2. got[b] \cup {Target(t)} \in SUBSET Conns
      BY <2>1 DEF TypeOK
    <3>3. got' = got \/ got' = [got EXCEPT ![b] = got[b] \cup {Target(t)}]
      BY <1>1 DEF Send
    <3>4. got \in [Broadcasts -> SUBSET Conns]
      BY DEF TypeOK
    <3>5. got' \in [Broadcasts -> SUBSET Conns]
      BY <3>2, <3>3, <3>4
    <3>6. err \in [Broadcasts -> Booleans] /\ failed \in [Broadcasts -> Booleans]
      BY DEF TypeOK
    <3>7. err' \in [Broadcasts -> Booleans] /\ failed' \in [Broadcasts -> Booleans]
      BY <1>1, <3>1, <3>6 DEF Send
    <3>8. QED BY <3>5, <3>7
  <2>4. Addressed'
    BY <1>1 DEF TypeOK, Addressed, Send, SendStep, Senders, ringVars
  <2>5. QED
    BY <1>1, <2>2, <2>3, <2>4 DEF TypeOK, Send, ringVars, lockVars
<1>2. CASE NoError(b, t)
  <2>1. snd' \in [Broadcasts -> [Senders -> {"none", "send", "check", "append", "done"}]]
    BY <1>2 DEF TypeOK, NoError, SendStep
  <2>2. Addressed'
    BY <1>2, HeadIsSender DEF TypeOK, Addressed, NoError, SendStep, ringVars
  <2>3. QED
    BY <1>2, <2>1, <2>2 DEF TypeOK, NoError, SendStep, ringVars, lockVars, localVars, history
<1>3. CASE LoadStale(b, t)
  <2>1. t \in Conns /\ Addressed'
    BY <1>3 DEF TypeOK, Addressed, LoadStale, SendStep, Senders, ringVars
  <2>2. Role[t] \in Lists
    BY <1>3, <2>1 DEF TypeOK, Addressed, LoadStale, SendStep
  <2>3. held' \in [Broadcasts -> [Senders -> SUBSET Conns]]
    BY <1>3, <2>2 DEF TypeOK, LoadStale
  <2>4. snd' \in [Broadcasts -> [Senders -> {"none", "send", "check", "append", "done"}]]
    BY <1>3 DEF TypeOK, LoadStale, SendStep
  <2>5. QED
    BY <1>3, <2>1, <2>3, <2>4 DEF TypeOK, LoadStale, ringVars, lockVars, localVars, history
<1>4. CASE StoreStale(b, t)
  <2>1. t \in Conns /\ Addressed'
    BY <1>4 DEF TypeOK, Addressed, StoreStale, SendStep, Senders, ringVars
  <2>2. stale' \in [Broadcasts -> [Lists -> SUBSET Conns]]
    <3>1. held[b][t] \cup {t} \in SUBSET Conns
      BY <2>1 DEF TypeOK
    <3>2. [stale[b] EXCEPT ![Role[t]] = held[b][t] \cup {t}] \in [Lists -> SUBSET Conns]
      BY <3>1 DEF TypeOK
    <3>3. stale' = [stale EXCEPT ![b] = [stale[b] EXCEPT ![Role[t]] = held[b][t] \cup {t}]]
      BY <1>4 DEF TypeOK, StoreStale
    <3>4. QED BY <3>2, <3>3 DEF TypeOK
  <2>3. held' \in [Broadcasts -> [Senders -> SUBSET Conns]]
    BY <1>4 DEF TypeOK, StoreStale
  <2>4. snd' \in [Broadcasts -> [Senders -> {"none", "send", "check", "append", "done"}]]
    BY <1>4 DEF TypeOK, StoreStale, SendStep
  <2>5. errs' \in [Broadcasts -> Nat]
    BY <1>4 DEF TypeOK, StoreStale, AddError
  <2>6. QED
    BY <1>4, <2>1, <2>2, <2>3, <2>4, <2>5 DEF TypeOK, StoreStale, ringVars, lockVars, history
<1>5. QED BY <1>1, <1>2, <1>3, <1>4 DEF Sending

\* Typed is an invariant.
LEMMA TypedInvariant == Spec => []Typed
<1>1. Init => Typed
  BY RoleAssumption, NoneAssumption
  DEF Init, Typed, TypeOK, Addressed, Booleans, Senders, Lists
<1>2. ASSUME Typed, [Next]_vars PROVE Typed'
  <2>1. CASE UNCHANGED vars
    BY <1>2, <2>1
    DEF Typed, TypeOK, Addressed, vars, ringVars, lockVars, localVars, sendVars, history
  <2>2. CASE Next
    BY <1>2, <2>2, PeerTypes, BroadcastStepTypes, SenderTypes DEF Next
  <2>3. QED BY <1>2, <2>1, <2>2
<1>3. QED BY <1>1, <1>2, PTL DEF Spec

\* The connections, the lists, the lock and the senders keep their types; each
\* list holds only pages that registered for it.
THEOREM BroadcastTypes == Spec => []TypeOK
<1>1. Typed => TypeOK
  BY DEF Typed
<1>2. QED BY <1>1, TypedInvariant, PTL

-----------------------------------------------------------------------------
(* Delivery.  Once a broadcast has spawned the senders to a list, a          *)
(* connection of the list that was there from the start has its sender       *)
(* before it, or the message.  One that registers later is not due; one      *)
(* whose send failed is not open, and never opens again.                     *)

After(l) == IF l = "judges" THEN {"listeners", "wait", "clean", "lock"}
            ELSE {"wait", "clean", "lock"}

Sent(b, t, c) == conn[c] = "open" => snd[b][t] = "send" \/ c \in got[b]

Connected ==
  /\ \A c \in Conns : reg[c] # "none" => conn[c] # "none"
  /\ headJudge # None => reg[headJudge] = "done"
  /\ \A b \in Broadcasts : \A c \in due[b] : reg[c] = "done"

HeadSent(b) ==
  bpc[b] \notin {"idle", "head"} /\ headJudge \in due[b] =>
      Sent(b, HeadJudge, headJudge)

ListsSent(b) ==
  \A l \in Lists : bpc[b] \in After(l) =>
      \A c \in members[l] : c \in due[b] => Sent(b, c, c)

NobodySends(b) ==
  bpc[b] \in {"clean", "lock"} => \A t \in Senders : snd[b][t] \in {"none", "done"}

Delivering ==
  /\ Connected
  /\ \A b \in Broadcasts : HeadSent(b) /\ ListsSent(b) /\ NobodySends(b)

\* The steps of connections and registrations keep what is sent.
LEMMA PeerDelivers ==
    ASSUME Typed, Delivering, NEW c \in Conns, Peers(c) \/ Registration(c)
    PROVE  Delivering'
<1> USE RoleAssumption, NoneAssumption
    DEF Typed, TypeOK, Delivering, Connected, HeadSent, ListsSent, NobodySends, Sent, After
<1>1. CASE Connect(c)
  BY <1>1 DEF Connect, ringVars, lockVars, localVars, sendVars, history
<1>2. CASE PeerLeaves(c)
  BY <1>2 DEF PeerLeaves, ringVars, lockVars, localVars, sendVars, history
<1>3. CASE Close(c)
  BY <1>3 DEF Close, ringVars, lockVars, localVars, sendVars, history
<1>4. CASE ReceiveRegister(c)
  BY <1>4 DEF ReceiveRegister, ringVars, lockVars, localVars, sendVars, history
<1>5. CASE SetHeadJudge(c)
  BY <1>5 DEF SetHeadJudge, lockVars, localVars, sendVars, history
<1>6. CASE AwaitLock(c)
  BY <1>6 DEF AwaitLock, ringVars, localVars, sendVars, history
<1>7. CASE AddMember(c)
  BY <1>7 DEF AddMember, localVars, sendVars, history
<1>8. QED
  BY <1>1, <1>2, <1>3, <1>4, <1>5, <1>6, <1>7 DEF Peers, Registration

\* The steps of the goroutine of a broadcast keep what is sent.
LEMMA BroadcastStepDelivers ==
    ASSUME Typed, Delivering, NEW b \in Broadcasts, Spawning(b) \/ Cleaning(b)
    PROVE  Delivering'
<1> USE RoleAssumption, NoneAssumption, HeadIsSender
    DEF Typed, TypeOK, Delivering, Connected, HeadSent, ListsSent, NobodySends, Sent, After
<1>1. CASE StartBroadcast(b)
  BY <1>1 DEF StartBroadcast, Step, Notified, Members, Lists, ringVars, lockVars
<1>2. CASE SpawnHead(b)
  BY <1>2 DEF SpawnHead, Step, Lists, ringVars, lockVars, localVars, history
<1>3. ASSUME NEW l \in Lists, ReadList(b, l) PROVE Delivering'
  BY <1>3 DEF ReadList, ringVars, localVars, sendVars, history
<1>4. ASSUME NEW l \in Lists, SpawnList(b, l) PROVE Delivering'
  BY <1>4 DEF SpawnList, Step, Lists, ringVars, localVars, history
<1>5. CASE HeadFailed(b)
  BY <1>5 DEF HeadFailed, SendStep, ringVars, lockVars, history
<1>6. CASE Wait(b)
  <2>1. bpc' = [bpc EXCEPT ![b] = "clean"] /\ bpc[b] = "wait"
    BY <1>6 DEF Wait, Step
  <2>2. ASSUME NEW d \in Broadcasts PROVE HeadSent(d)' /\ ListsSent(d)'
    BY <1>6, <2>1, <2>2 DEF Wait, ringVars, sendVars, history
  <2>3. ASSUME NEW d \in Broadcasts PROVE NobodySends(d)'
    BY <1>6, <2>1, <2>3 DEF Wait, sendVars
  <2>4. QED BY <1>6, <2>2, <2>3 DEF Wait, ringVars, history
<1>7. CASE AwaitRemoval(b)
  BY <1>7 DEF AwaitRemoval, Step, ringVars, localVars, sendVars, history
<1>8. CASE RemoveStale(b)
  <2>1. \A l \in Lists : members'[l] \subseteq members[l]
    BY <1>8 DEF RemoveStale
  <2>2. bpc' = [bpc EXCEPT ![b] = "clean"] /\ bpc[b] = "lock"
    BY <1>8 DEF RemoveStale, Step
  <2>3. ASSUME NEW d \in Broadcasts PROVE HeadSent(d)' /\ ListsSent(d)'
    BY <1>8, <2>1, <2>2, <2>3 DEF RemoveStale, sendVars, history
  <2>4. ASSUME NEW d \in Broadcasts PROVE NobodySends(d)'
    BY <1>8, <2>2, <2>4 DEF RemoveStale, sendVars
  <2>5. QED BY <1>8, <2>3, <2>4 DEF RemoveStale, history
<1>9. CASE Report(b)
  <2>1. bpc' = [bpc EXCEPT ![b] = "idle"]
    BY <1>9 DEF Report, Step
  <2>2. ASSUME NEW d \in Broadcasts
        PROVE HeadSent(d)' /\ ListsSent(d)' /\ NobodySends(d)'
    <3>1. bpc'[d] = "idle" \/ bpc'[d] = bpc[d]
      BY <2>1
    <3>2. HeadSent(d)' /\ NobodySends(d)'
      BY <1>9, <2>2, <3>1 DEF Report, ringVars, sendVars
    <3>3. ListsSent(d)'
      BY <1>9, <2>2, <3>1 DEF Report, ringVars, sendVars
    <3>4. QED BY <3>2, <3>3
  <2>3. QED BY <1>9, <2>2 DEF Report, ringVars
<1>10. QED
  BY <1>1, <1>2, <1>3, <1>4, <1>5, <1>6, <1>7, <1>8, <1>9 DEF Spawning, Cleaning

\* The steps of a sender keep what is sent.
LEMMA SenderDelivers ==
    ASSUME Typed, Delivering, NEW b \in Broadcasts, NEW t \in Senders, Sending(b, t)
    PROVE  Delivering'
<1> USE RoleAssumption, NoneAssumption, HeadIsSender
    DEF Typed, TypeOK, Delivering, Connected, HeadSent, ListsSent, NobodySends, Sent, After
<1>1. CASE Send(b, t)
  BY <1>1 DEF Send, SendStep, Target, Senders, ringVars, lockVars
<1>2. CASE NoError(b, t)
  BY <1>2 DEF NoError, SendStep, ringVars, lockVars, localVars, history
<1>3. CASE LoadStale(b, t)
  BY <1>3 DEF LoadStale, SendStep, ringVars, lockVars, localVars, history
<1>4. CASE StoreStale(b, t)
  BY <1>4 DEF StoreStale, SendStep, ringVars, lockVars, history
<1>5. QED BY <1>1, <1>2, <1>3, <1>4 DEF Sending

\* Delivering is an invariant.
LEMMA DeliveringInvariant == Spec => []Delivering
<1>1. Init => Delivering
  BY DEF Init, Delivering, Connected, HeadSent, ListsSent, NobodySends, After, Senders
<1>2. ASSUME Typed, Delivering, [Next]_vars PROVE Delivering'
  <2>1. CASE UNCHANGED vars
    BY <1>2, <2>1 DEF Delivering, Connected, HeadSent, ListsSent, NobodySends, Sent, After,
                      vars, ringVars, lockVars, localVars, sendVars, history
  <2>2. CASE Next
    BY <1>2, <2>2, PeerDelivers, BroadcastStepDelivers, SenderDelivers DEF Next
  <2>3. QED BY <1>2, <2>1, <2>2
<1>3. QED BY <1>1, <1>2, TypedInvariant, PTL DEF Spec

\* A broadcast that has waited for its senders has sent the message to every
\* connection that was registered when it began, is still, and is open.
THEOREM BroadcastDelivers == Spec => []Delivered
<1>1. ASSUME Typed, Delivering PROVE Delivered
  <2> SUFFICES ASSUME NEW b \in Broadcasts, bpc[b] \in {"clean", "lock"},
                      NEW c \in due[b], c \in Notified, conn[c] = "open"
               PROVE  c \in got[b]
    BY DEF Delivered
  <2>1. CASE c = headJudge
    BY <1>1, <2>1, HeadIsSender DEF Delivering, HeadSent, NobodySends, Sent
  <2>2. ASSUME NEW l \in Lists, c \in members[l] PROVE c \in got[b]
    BY <1>1, <2>2, HeadIsSender
    DEF Typed, TypeOK, Delivering, ListsSent, NobodySends, Sent, After
  <2>3. QED BY <2>1, <2>2 DEF Notified, Members, Lists
<1>2. QED BY <1>1, TypedInvariant, DeliveringInvariant, PTL

-----------------------------------------------------------------------------
(* Removal.  An error or a stale connection exists only in a broadcast one   *)
(* of whose sends has failed, and a broadcast ends without either: the next  *)
(* one does not find what this one left.                                     *)

Failing(b) ==
  /\ err[b] => failed[b]
  /\ Stale(b) # {} => failed[b] /\ bpc[b] # "idle"
  /\ \A t \in Senders : snd[b][t] = "append" => failed[b]
  /\ bpc[b] = "idle" => \A t \in Senders : snd[b][t] \in {"none", "done"}

\* What a step does not touch stays as it was.
LEMMA FailingUnchanged ==
    ASSUME NEW b \in Broadcasts, Failing(b),
           UNCHANGED <<err[b], stale[b], failed[b], snd[b], bpc[b]>>
    PROVE  Failing(b)'
BY DEF Failing, Stale

\* The steps of the goroutine of a broadcast keep it,
LEMMA BroadcastStepFails ==
    ASSUME Typed, Delivering, NEW b \in Broadcasts, Spawning(b) \/ Cleaning(b),
           \A d \in Broadcasts : Failing(d)
    PROVE  \A d \in Broadcasts : Failing(d)'
<1> SUFFICES ASSUME NEW d \in Broadcasts PROVE Failing(d)'
  OBVIOUS
<1> USE HeadIsSender DEF Typed, TypeOK
<1>1. CASE StartBroadcast(b)
  BY <1>1 DEF StartBroadcast, Step, Failing, Stale
<1>2. CASE SpawnHead(b)
  BY <1>2 DEF SpawnHead, Step, localVars, history, Failing, Stale
<1>3. ASSUME NEW l \in Lists, ReadList(b, l) PROVE Failing(d)'
  BY <1>3, FailingUnchanged DEF ReadList, localVars, sendVars, history
<1>4. ASSUME NEW l \in Lists, SpawnList(b, l) PROVE Failing(d)'
  BY <1>4 DEF SpawnList, Step, localVars, history, Lists, Failing, Stale
<1>5. CASE HeadFailed(b)
  BY <1>5 DEF HeadFailed, SendStep, history, Failing, Stale
<1>6. CASE Wait(b)
  BY <1>6 DEF Wait, Step, localVars, sendVars, history, Failing, Stale
<1>7. CASE AwaitRemoval(b)
  BY <1>7 DEF AwaitRemoval, Step, localVars, sendVars, history, Failing, Stale
<1>8. CASE RemoveStale(b)
  <2>1. Failing(b) /\ failed[b]
    BY <1>8 DEF RemoveStale, Failing
  <2>2. /\ bpc' = [bpc EXCEPT ![b] = "clean"]
        /\ UNCHANGED <<err, snd, failed>>
        /\ d # b => stale'[d] = stale[d]
    BY <1>8 DEF RemoveStale, Step, sendVars, history
  <2> QED BY <2>1, <2>2 DEF Failing, Stale
<1>9. CASE Report(b)
  BY <1>9 DEF Report, Step, localVars, sendVars, Failing, Stale, Delivering, NobodySends
<1> QED
  BY <1>1, <1>2, <1>3, <1>4, <1>5, <1>6, <1>7, <1>8, <1>9 DEF Spawning, Cleaning

\* ... and those of a sender.
LEMMA SenderFails ==
    ASSUME Typed, NEW b \in Broadcasts, NEW t \in Senders, Sending(b, t),
           \A d \in Broadcasts : Failing(d)
    PROVE  \A d \in Broadcasts : Failing(d)'
<1> SUFFICES ASSUME NEW d \in Broadcasts PROVE Failing(d)'
  OBVIOUS
<1> USE DEF Typed, TypeOK
<1>1. CASE Send(b, t)
  BY <1>1 DEF Send, SendStep, Failing, Stale
<1>2. CASE NoError(b, t)
  BY <1>2 DEF NoError, SendStep, localVars, history, Failing, Stale
<1>3. CASE LoadStale(b, t)
  BY <1>3 DEF LoadStale, SendStep, localVars, history, Failing, Stale
<1>4. CASE StoreStale(b, t)
  BY <1>4 DEF StoreStale, SendStep, history, Failing, Stale
<1> QED BY <1>1, <1>2, <1>3, <1>4 DEF Sending

\* Only RemoveStale takes a connection off a list.
LEMMA OnlyRemovalRemoves ==
    ASSUME Typed, Next, NEW c \in Members, c \notin Members'
    PROVE  \E b \in Broadcasts : RemoveStale(b) /\ c \in Stale(b)
<1>1. members' # members
  BY DEF Members
<1>2. ASSUME NEW d \in Conns, AddMember(d) PROVE FALSE
  BY <1>2 DEF AddMember, Members, Typed, TypeOK
<1>3. PICK b \in Broadcasts : RemoveStale(b)
  <2>1. ASSUME NEW d \in Conns, Peers(d) PROVE FALSE
    BY <1>1, <2>1 DEF Peers, Connect, PeerLeaves, Close, ReceiveRegister, ringVars
  <2>2. ASSUME NEW d \in Conns, Registration(d) PROVE FALSE
    BY <1>1, <1>2, <2>2 DEF Registration, SetHeadJudge, AwaitLock, ringVars
  <2>3. ASSUME NEW b \in Broadcasts, Spawning(b) PROVE FALSE
    BY <1>1, <2>3 DEF Spawning, StartBroadcast, SpawnHead, ReadList, SpawnList, ringVars
  <2>4. ASSUME NEW b \in Broadcasts, NEW t \in Senders, Sending(b, t) PROVE FALSE
    BY <1>1, <2>4 DEF Sending, Send, NoError, LoadStale, StoreStale, ringVars
  <2>5. ASSUME NEW b \in Broadcasts, Cleaning(b) PROVE RemoveStale(b)
    BY <1>1, <2>5 DEF Cleaning, HeadFailed, Wait, AwaitRemoval, Report, ringVars
  <2> QED BY <2>1, <2>2, <2>3, <2>4, <2>5 DEF Next
<1>4. PICK d \in Stale(b) : members' = [members EXCEPT ![Role[d]] = @ \ {d}]
  BY <1>3 DEF RemoveStale
<1>5. c = d
  BY <1>4 DEF Members, Typed, TypeOK, Lists
<1> QED BY <1>3, <1>4, <1>5

\* However the senders of a broadcast race on its err and its lists, and whatever
\* its neighbours do: a connection leaves a list only at the hands of a broadcast
\* that has it among its stale ones and one of whose own sends has failed.
THEOREM RemovalFollowsFailure == Spec => RemovedAfterFailure
<1> DEFINE FailingInv == \A b \in Broadcasts : Failing(b)
           Removal == \A c \in Members : c \notin Members' =>
                         \E b \in Broadcasts : bpc[b] = "lock" /\ c \in Stale(b) /\ failed[b]
<1>1. Init => FailingInv
  BY DEF Init, Failing, Stale, Lists
<1>2. Typed /\ Delivering /\ FailingInv /\ [Next]_vars => FailingInv'
  <2> SUFFICES ASSUME Typed, Delivering, FailingInv, [Next]_vars PROVE FailingInv'
    OBVIOUS
  <2>1. CASE UNCHANGED vars
    BY <2>1, FailingUnchanged DEF vars, localVars, sendVars, history
  <2>2. ASSUME NEW c \in Conns, Peers(c) \/ Registration(c) PROVE FailingInv'
    BY <2>2, FailingUnchanged
    DEF Peers, Registration, Connect, PeerLeaves, Close, ReceiveRegister, SetHeadJudge,
        AwaitLock, AddMember, localVars, sendVars, history
  <2> QED BY <2>1, <2>2, BroadcastStepFails, SenderFails DEF Next
<1>3. Typed /\ FailingInv /\ [Next]_vars => [Removal]_vars
  <2> SUFFICES ASSUME Typed, FailingInv, Next, NEW c \in Members, c \notin Members'
               PROVE  \E b \in Broadcasts : bpc[b] = "lock" /\ c \in Stale(b) /\ failed[b]
    OBVIOUS
  <2>1. PICK b \in Broadcasts : RemoveStale(b) /\ c \in Stale(b)
    BY OnlyRemovalRemoves
  <2> QED BY <2>1 DEF RemoveStale, Step, Failing
<1> QED BY <1>1, <1>2, <1>3, TypedInvariant, DeliveringInvariant, PTL
        DEF Spec, RemovedAfterFailure
=============================================================================
