------------------------------ MODULE Broadcast ------------------------------
(***************************************************************************)
(* The websocket side of one ring: connections that come and go            *)
(* (server/sockets/sock_server.go), their registration as head judge,      *)
(* judge or listener (data/state.go), and broadcasts to all of them        *)
(* (server/sockets/sockets.go).  Every message received, every broadcast   *)
(* and every send of a broadcast is a goroutine of its own.                *)
(*                                                                         *)
(* The senders of a broadcast share its local variables err, staleJudges   *)
(* and staleListeners and use them without a lock: an assignment and a     *)
(* later read are separate steps, and so are the load and the store of an  *)
(* append.  websocket.Manager is external: a send to a connection it has   *)
(* closed fails, a send to one whose peer has left may fail or not.        *)
(***************************************************************************)
EXTENDS Naturals

CONSTANTS Conns,         \* connections over the life of the server
          Role,          \* what each registers as
          Broadcasts,    \* bound: broadcasts under way at a time
          HeadJudge,     \* the sender to the head judge, beside those to Conns
          None

Lists == {"judges", "listeners"}

ASSUME RoleAssumption == Role \in [Conns -> Lists \cup {"head"}]
ASSUME NoneAssumption == None \notin Conns /\ HeadJudge \notin Conns

VARIABLES
    conn,       \* the connection: peer gone and not noticed yet, or closed
    reg,        \* the goroutine that handles its register message
    headJudge, members,       \* RingState.headJudge; judges and listeners
    readers, writers,         \* RingState.mu: its holders, its waiting writers
    bpc,        \* where each broadcast stands
    err, stale, errs,         \* its shared locals (stale: both lists)
    snd, held,  \* its senders: where they stand, the slice they have loaded
    due, got, failed, report  \* history of the broadcast

ringVars == <<headJudge, members>>
lockVars == <<readers, writers>>
localVars == <<err, stale, errs>>
sendVars == <<snd, held>>
history == <<due, got, failed, report>>
vars == <<conn, reg, ringVars, lockVars, bpc, localVars, sendVars, history>>

-----------------------------------------------------------------------------
Senders == Conns \cup {HeadJudge}

Members == members["judges"] \cup members["listeners"]
Notified == Members \cup ({headJudge} \ {None})

\* r.mu.Lock() of AddJudge or RemoveJudge: registrations and broadcasts
Writers == [kind : {"register"}, who : Conns] \cup [kind : {"remove"}, who : Broadcasts]
Adding(c) == [kind |-> "register", who |-> c]
Removing(b) == [kind |-> "remove", who |-> b]

Step(b, here, there) == bpc[b] = here /\ bpc' = [bpc EXCEPT ![b] = there]
SendStep(b, t, here, there) ==
    snd[b][t] = here /\ snd' = [snd EXCEPT ![b][t] = there]

Init ==
    /\ conn = [c \in Conns |-> "none"]
    /\ reg = [c \in Conns |-> "none"]
    /\ headJudge = None
    /\ members = [l \in Lists |-> {}]
    /\ readers = {} /\ writers = {}
    /\ bpc = [b \in Broadcasts |-> "idle"]
    /\ err = [b \in Broadcasts |-> FALSE]
    /\ stale = [b \in Broadcasts |-> [l \in Lists |-> {}]]
    /\ errs = [b \in Broadcasts |-> 0]
    /\ snd = [b \in Broadcasts |-> [t \in Senders |-> "none"]]
    /\ held = [b \in Broadcasts |-> [t \in Senders |-> {}]]
    /\ due = [b \in Broadcasts |-> {}]
    /\ got = [b \in Broadcasts |-> {}]
    /\ failed = [b \in Broadcasts |-> FALSE]
    /\ report = [b \in Broadcasts |-> "none"]

-----------------------------------------------------------------------------
(* Connections: WSServer, ping, handleMessage.                              *)

Connect(c) ==
    /\ conn[c] = "none"
    /\ conn' = [conn EXCEPT ![c] = "open"]
    /\ UNCHANGED <<reg, ringVars, lockVars, bpc, localVars, sendVars, history>>

PeerLeaves(c) ==
    /\ conn[c] = "open"
    /\ conn' = [conn EXCEPT ![c] = "gone"]
    /\ UNCHANGED <<reg, ringVars, lockVars, bpc, localVars, sendVars, history>>

\* the read loop or the ping fails: CloseConnection.  The ring is not told.
Close(c) ==
    /\ conn[c] = "gone"
    /\ conn' = [conn EXCEPT ![c] = "closed"]
    /\ UNCHANGED <<reg, ringVars, lockVars, bpc, localVars, sendVars, history>>

\* the page sends one register message when its socket opens
ReceiveRegister(c) ==
    /\ conn[c] = "open"
    /\ reg[c] = "none"
    /\ reg' = [reg EXCEPT ![c] = "handle"]
    /\ UNCHANGED <<conn, ringVars, lockVars, bpc, localVars, sendVars, history>>

-----------------------------------------------------------------------------
(* Registration: handleRegisterJudge, handleRegisterDisplay.  The           *)
(* connection may be gone by now.                                           *)

SetHeadJudge(c) ==
    /\ Role[c] = "head"
    /\ reg[c] = "handle"
    /\ reg' = [reg EXCEPT ![c] = "done"]
    /\ headJudge' = c
    /\ UNCHANGED <<conn, members, lockVars, bpc, localVars, sendVars, history>>

\* Lock: a waiting writer keeps new readers out
AwaitLock(c) ==
    /\ Role[c] \in Lists
    /\ reg[c] = "handle"
    /\ reg' = [reg EXCEPT ![c] = "lock"]
    /\ writers' = writers \cup {Adding(c)}
    /\ UNCHANGED <<conn, ringVars, readers, bpc, localVars, sendVars, history>>

\* AddJudge, AddListener
AddMember(c) ==
    /\ reg[c] = "lock"
    /\ readers = {}
    /\ reg' = [reg EXCEPT ![c] = "done"]
    /\ writers' = writers \ {Adding(c)}
    /\ members' = [members EXCEPT ![Role[c]] = @ \cup {c}]
    /\ UNCHANGED <<conn, headJudge, readers, bpc, localVars, sendVars, history>>

-----------------------------------------------------------------------------
(* Broadcast.                                                               *)

StartBroadcast(b) ==
    /\ Step(b, "idle", "head")
    /\ err' = [err EXCEPT ![b] = FALSE]
    /\ errs' = [errs EXCEPT ![b] = 0]
    /\ snd' = [snd EXCEPT ![b] = [t \in Senders |-> "none"]]
    /\ due' = [due EXCEPT ![b] = Notified]
    /\ got' = [got EXCEPT ![b] = {}]
    /\ failed' = [failed EXCEPT ![b] = FALSE]
    /\ report' = [report EXCEPT ![b] = "none"]
    /\ UNCHANGED <<conn, reg, ringVars, lockVars, stale, held>>

\* if ring.HeadJudge() != nil
SpawnHead(b) ==
    /\ Step(b, "head", "judges")
    /\ snd' = IF headJudge = None THEN snd
              ELSE [snd EXCEPT ![b][HeadJudge] = "send"]
    /\ UNCHANGED <<conn, reg, ringVars, lockVars, localVars, held, history>>

\* ring.Judges(), ring.Listeners(): RLock
ReadList(b, l) ==
    /\ bpc[b] = l /\ b \notin readers
    /\ writers = {}
    /\ readers' = readers \cup {b}
    /\ UNCHANGED <<conn, reg, ringVars, writers, bpc, localVars, sendVars, history>>

\* mutant: ring.ReadDone() is forgotten
SpawnListAndKeepLock(b, l) ==
    /\ b \in readers
    /\ Step(b, l, IF l = "judges" THEN "listeners" ELSE "wait")
    /\ snd' = [snd EXCEPT ![b] = [t \in Senders |->
                   IF t \in members[l] THEN "send" ELSE @[t]]]
    /\ UNCHANGED <<conn, reg, ringVars, lockVars, localVars, held, history>>

\* one sender for each connection of the list, then ring.ReadDone()
SpawnList(b, l) ==
    /\ b \in readers
    /\ Step(b, l, IF l = "judges" THEN "listeners" ELSE "wait")
    /\ snd' = [snd EXCEPT ![b] = [t \in Senders |->
                   IF t \in members[l] THEN "send" ELSE @[t]]]
    /\ readers' = readers \ {b}
    /\ UNCHANGED <<conn, reg, ringVars, writers, localVars, held, history>>

-----------------------------------------------------------------------------
(* One sender.                                                              *)

\* the sender to the head judge reads ring.HeadJudge() again
Target(t) == IF t = HeadJudge THEN headJudge ELSE t

\* err = Manager.Send(msg, id)
Send(b, t) ==
    /\ SendStep(b, t, "send", "check")
    /\ \/ /\ conn[Target(t)] \in {"open", "gone"}
          /\ err' = [err EXCEPT ![b] = FALSE]
          /\ got' = [got EXCEPT ![b] = @ \cup {Target(t)}]
          /\ UNCHANGED failed
       \/ /\ conn[Target(t)] \in {"gone", "closed"}
          /\ err' = [err EXCEPT ![b] = TRUE]
          /\ failed' = [failed EXCEPT ![b] = TRUE]
          /\ UNCHANGED got
    /\ UNCHANGED <<conn, reg, ringVars, lockVars, bpc, stale, errs, held, due, report>>

\* BroadcastError.AddError has a value receiver: the caller's copy is unchanged
AddError(n) == n

\* if err != nil: whatever sender assigned err last
NoError(b, t) ==
    /\ ~err[b]
    /\ SendStep(b, t, "check", "done")
    /\ UNCHANGED <<conn, reg, ringVars, lockVars, bpc, localVars, held, history>>

\* mutant: every sender's connection is appended, whatever the error
LoadAnyway(b, t) ==
    /\ t # HeadJudge
    /\ SendStep(b, t, "check", "append")
    /\ held' = [held EXCEPT ![b][t] = stale[b][Role[t]]]
    /\ UNCHANGED <<conn, reg, ringVars, lockVars, bpc, localVars, history>>

\* append(staleJudges, id): the load
LoadStale(b, t) ==
    /\ t # HeadJudge
    /\ err[b]
    /\ SendStep(b, t, "check", "append")
    /\ held' = [held EXCEPT ![b][t] = stale[b][Role[t]]]
    /\ UNCHANGED <<conn, reg, ringVars, lockVars, bpc, localVars, history>>

\* mutant: no allSent.Done() on the error path
StoreNotDone(b, t) ==
    /\ SendStep(b, t, "append", "check")
    /\ stale' = [stale EXCEPT ![b][Role[t]] = held[b][t] \cup {t}]
    /\ held' = [held EXCEPT ![b][t] = {}]
    /\ errs' = [errs EXCEPT ![b] = AddError(@)]
    /\ UNCHANGED <<conn, reg, ringVars, lockVars, bpc, err, history>>

\* ... and the store; errs.AddError(err); allSent.Done()
StoreStale(b, t) ==
    /\ SendStep(b, t, "append", "done")
    /\ stale' = [stale EXCEPT ![b][Role[t]] = held[b][t] \cup {t}]
    /\ held' = [held EXCEPT ![b][t] = {}]
    /\ errs' = [errs EXCEPT ![b] = AddError(@)]
    /\ UNCHANGED <<conn, reg, ringVars, lockVars, bpc, err, history>>

HeadFailed(b) ==
    /\ err[b]
    /\ SendStep(b, HeadJudge, "check", "done")
    /\ errs' = [errs EXCEPT ![b] = AddError(@)]
    /\ UNCHANGED <<conn, reg, ringVars, lockVars, bpc, err, stale, held, history>>

-----------------------------------------------------------------------------
(* The end of a broadcast.                                                  *)

\* mutant: the broadcast does not wait for its senders
NotWait(b) ==
    /\ Step(b, "wait", "clean")
    /\ UNCHANGED <<conn, reg, ringVars, lockVars, localVars, sendVars, history>>

\* allSent.Wait()
Wait(b) ==
    /\ \A t \in Senders : snd[b][t] \in {"none", "done"}
    /\ Step(b, "wait", "clean")
    /\ UNCHANGED <<conn, reg, ringVars, lockVars, localVars, sendVars, history>>

Stale(b) == stale[b]["judges"] \cup stale[b]["listeners"]

AwaitRemoval(b) ==
    /\ Stale(b) # {}
    /\ Step(b, "clean", "lock")
    /\ writers' = writers \cup {Removing(b)}
    /\ UNCHANGED <<conn, reg, ringVars, readers, localVars, sendVars, history>>

\* mutant: RemoveJudge finds nobody
RemoveNobody(b) ==
    /\ readers = {}
    /\ Step(b, "lock", "clean")
    /\ writers' = writers \ {Removing(b)}
    /\ \E c \in Stale(b) : stale' = [stale EXCEPT ![b][Role[c]] = @ \ {c}]
    /\ UNCHANGED <<conn, reg, ringVars, readers, err, errs, sendVars, history>>

\* RemoveJudge, RemoveListener
RemoveStale(b) ==
    /\ readers = {}
    /\ Step(b, "lock", "clean")
    /\ writers' = writers \ {Removing(b)}
    /\ \E c \in Stale(b) :
          /\ members' = [members EXCEPT ![Role[c]] = @ \ {c}]
          /\ stale' = [stale EXCEPT ![b][Role[c]] = @ \ {c}]
    /\ UNCHANGED <<conn, reg, headJudge, readers, err, errs, sendVars, history>>

\* if errs.Errors() > 0
Report(b) ==
    /\ Stale(b) = {}
    /\ Step(b, "clean", "idle")
    /\ report' = [report EXCEPT ![b] = IF errs[b] # 0 THEN "errors" ELSE "complete"]
    /\ UNCHANGED <<conn, reg, ringVars, lockVars, localVars, sendVars, due, got, failed>>

-----------------------------------------------------------------------------
Peers(c) == Connect(c) \/ PeerLeaves(c) \/ Close(c) \/ ReceiveRegister(c)

Registration(c) == SetHeadJudge(c) \/ AwaitLock(c) \/ AddMember(c)

Spawning(b) ==
    \/ StartBroadcast(b) \/ SpawnHead(b)
    \/ \E l \in Lists : ReadList(b, l) \/ SpawnList(b, l)

Sending(b, t) ==
    \/ Send(b, t) \/ NoError(b, t) \/ LoadStale(b, t) \/ StoreStale(b, t)

Cleaning(b) ==
    \/ HeadFailed(b) \/ Wait(b) \/ AwaitRemoval(b) \/ RemoveStale(b) \/ Report(b)

Next ==
    \/ \E c \in Conns : Peers(c) \/ Registration(c)
    \/ \E b \in Broadcasts :
          \/ Spawning(b) \/ Cleaning(b)
          \/ \E t \in Senders : Sending(b, t)

Spec == Init /\ [][Next]_vars

\* The scheduler runs a goroutine that can run.  RWMutex lets the readers
\* that wait in before the next writer: strong fairness of RLock.
LockFairness ==
    /\ \A c \in Conns : WF_vars(Registration(c))
    /\ \A b \in Broadcasts, l \in Lists : SF_vars(ReadList(b, l)) /\ WF_vars(SpawnList(b, l))
    /\ \A b \in Broadcasts : WF_vars(SpawnHead(b)) /\ WF_vars(AwaitRemoval(b) \/ RemoveStale(b))

\* ... and every write to a socket returns
SendFairness ==
    /\ \A b \in Broadcasts, t \in Senders : WF_vars(Sending(b, t))
    /\ \A b \in Broadcasts : WF_vars(HeadFailed(b) \/ Wait(b) \/ Report(b))

\* A write to a socket may block for ever.
BlockingSpec == Spec /\ LockFairness

-----------------------------------------------------------------------------
(* Properties.                                                              *)

Booleans == {TRUE, FALSE}

\* Types of all the variables; each list holds registered pages of its kind.
TypeOK ==
    /\ conn \in [Conns -> {"none", "open", "gone", "closed"}]
    /\ reg \in [Conns -> {"none", "handle", "lock", "done"}]
    /\ headJudge \in Conns \cup {None}
    /\ members \in [Lists -> SUBSET Conns]
    /\ \A l \in Lists : \A c \in members[l] : Role[c] = l /\ reg[c] = "done"
    /\ readers \subseteq Broadcasts
    /\ writers \subseteq Writers
    /\ bpc \in [Broadcasts -> {"idle", "head", "judges", "listeners", "wait",
                               "clean", "lock"}]
    /\ err \in [Broadcasts -> Booleans]
    /\ stale \in [Broadcasts -> [Lists -> SUBSET Conns]]
    /\ errs \in [Broadcasts -> Nat]
    /\ snd \in [Broadcasts -> [Senders -> {"none", "send", "check", "append", "done"}]]
    /\ held \in [Broadcasts -> [Senders -> SUBSET Conns]]
    /\ due \in [Broadcasts -> SUBSET Conns]
    /\ got \in [Broadcasts -> SUBSET Conns]
    /\ failed \in [Broadcasts -> Booleans]
    /\ report \in [Broadcasts -> {"none", "complete", "errors"}]

\* When a broadcast has waited for its senders, every connection that was
\* registered before it began, is registered still and whose peer is there has
\* been sent the message: none falls between the two lists, the lock and the
\* WaitGroup.
Delivered ==
    \A b \in Broadcasts : bpc[b] \in {"clean", "lock"} =>
        \A c \in due[b] \cap Notified : conn[c] = "open" => c \in got[b]

\* A connection leaves a list only through a broadcast one of whose sends
\* failed; however the senders race, no failure, no removal.
RemovedAfterFailure ==
    [][\A c \in Members : c \notin Members' =>
           \E b \in Broadcasts : bpc[b] = "lock" /\ c \in Stale(b) /\ failed[b]]_vars

\* A page that registers gets on its list, even if every socket write of every
\* broadcast blocks for ever: Broadcast gives the lock back before it sends.
RegistrationEnds == \A c \in Conns : reg[c] = "handle" ~> reg[c] = "done"

\* A broadcast whose socket writes return comes to its end and reports.
BroadcastEnds ==
    SendFairness => \A b \in Broadcasts : bpc[b] # "idle" ~> bpc[b] = "idle"

\* If socket writes return, all connections are closed for good and broadcasts
\* keep coming, the lists become and stay empty: although concurrent appends lose stale
\* connections, each broadcast removes at least one.
StaleListsDrain ==
    /\ SendFairness
    /\ <>[](\A c \in Conns : conn[c] \in {"none", "closed"})
    /\ []<>(\E b \in Broadcasts : bpc[b] = "head")
    => <>[](Members = {})

\* "Judges returns a list of connected judges": a registered connection that
\* is open stays on its list.
ConnectedIsListed ==
    \A c \in Conns : Role[c] \in Lists /\ conn[c] = "open" /\ reg[c] = "done" =>
        c \in members[Role[c]]
=============================================================================
