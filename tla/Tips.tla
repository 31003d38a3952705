-------------------------------- MODULE Tips --------------------------------
(***************************************************************************)
(* How a new tip reaches the user of a client: the header queues of        *)
(* successive leaders hand it over on one unbuffered channel that lives as *)
(* long as the network (electrumx/network.go), the client's tipChange      *)
(* goroutine receives it (client/btc/blockchain.go), tells the wallet and  *)
(* sends it on the channel a user has registered, if any, while it holds   *)
(* sendTipChangeNotifyMtx for reading.  Register and Unregister take the   *)
(* mutex for writing.                                                      *)
(*                                                                         *)
(* Tips are numbered, modulo Turn, as tipChange receives them.             *)
(***************************************************************************)
EXTENDS Integers, Sequences

CONSTANTS
    Nodes,      \* slots for the header queues of successive leaders
    Users,      \* goroutines that register and unregister
    Turn        \* tips are numbered modulo Turn

None == -1

ASSUME ConstantsAssumption == Turn \in Nat /\ Turn > 2

VARIABLES
    client,     \* "new", "listening" (X.Start has returned), "up" or "failed"
    stopped,    \* goeleCtx is cancelled
    live,       \* per slot: the leader's context is not cancelled
    qpc,        \* per slot: the header queue is off, idle or sends a tip
    tpc, held,  \* where tipChange is, the number of the tip it has
    rcv,        \* history: number of the last tip tipChange received
    reg,        \* ec.sendTipChangeNotify is not nil
    buf,        \* what is in the channel registered last
    seen,       \* history: last tip the user took from it
    upc         \* per user: idle, or waiting for the mutex in a call

vars == <<client, stopped, live, qpc, tpc, held, rcv, reg, buf, seen, upc>>

-----------------------------------------------------------------------------
Capacity == 1               \* make(chan int64, 1)
Following(k) == (k + 1) % Turn

\* Without the RUnlock, the mutex would be held from the first tip on.
NeverUnlocked == tpc # "ended" /\ rcv # None

\* tipChange holds the mutex for reading; Register and Unregister hold it for
\* writing in one step.
ReadLocked == tpc = "send"

Init ==
    /\ client = "new" /\ stopped = FALSE
    /\ live = [n \in Nodes |-> FALSE] /\ qpc = [n \in Nodes |-> "off"]
    /\ tpc = "off" /\ held = None /\ rcv = None
    /\ reg = FALSE /\ buf = <<>> /\ seen = None
    /\ upc = [u \in Users |-> "idle"]

-----------------------------------------------------------------------------
(* The client. *)

\* The interface is created and starts its network, whose first leader is up and
\* has its header queue running when X.Start returns.
StartNetwork(n) ==
    /\ client = "new" /\ ~stopped
    /\ client' = "listening"
    /\ live' = [live EXCEPT ![n] = TRUE]
    /\ qpc' = [qpc EXCEPT ![n] = "idle"]
    /\ UNCHANGED <<stopped, tpc, held, rcv, reg, buf, seen, upc>>

\* No interface for the net type, or the network does not start: x.network stays
\* nil and every call of the interface is answered with ErrNoNetwork.
StartFails ==
    /\ client = "new"
    /\ client' = "failed"
    /\ UNCHANGED <<stopped, live, qpc, tpc, held, rcv, reg, buf, seen, upc>>

\* GetTipChangeNotify finds a network, and tipChange starts.
StartTipChange ==
    /\ client = "listening"
    /\ client' = "up"
    /\ tpc' = "select"
    /\ UNCHANGED <<stopped, live, qpc, held, rcv, reg, buf, seen, upc>>

\* Stop cancels the context of the client, and with it that of every node.
Stop ==
    /\ client = "up" /\ ~stopped
    /\ stopped' = TRUE
    /\ live' = [n \in Nodes |-> FALSE]
    /\ UNCHANGED <<client, qpc, tpc, held, rcv, reg, buf, seen, upc>>

-----------------------------------------------------------------------------
(* Leaders. *)

\* The leader's node is cancelled; its header queue may have a tip to send.
LeaderFails(n) ==
    /\ live[n]
    /\ live' = [live EXCEPT ![n] = FALSE]
    /\ UNCHANGED <<client, stopped, qpc, tpc, held, rcv, reg, buf, seen, upc>>

\* peersMonitor starts or promotes another leader, which is given the same channel.
NewLeader(n) ==
    /\ client \in {"listening", "up"} /\ ~stopped
    /\ \A m \in Nodes : ~live[m]
    /\ qpc[n] = "off"
    /\ live' = [live EXCEPT ![n] = TRUE]
    /\ qpc' = [qpc EXCEPT ![n] = "idle"]
    /\ UNCHANGED <<client, stopped, tpc, held, rcv, reg, buf, seen, upc>>

\* headerQueue has connected headers and sends the new tip.
TipChanged(n) ==
    /\ qpc[n] = "idle"
    /\ qpc' = [qpc EXCEPT ![n] = "send"]
    /\ UNCHANGED <<client, stopped, live, tpc, held, rcv, reg, buf, seen, upc>>

\* headerQueue returns once its context is cancelled and its queue is drained.
QueueEnds(n) ==
    /\ qpc[n] = "idle" /\ ~live[n]
    /\ qpc' = [qpc EXCEPT ![n] = "off"]
    /\ UNCHANGED <<client, stopped, live, tpc, held, rcv, reg, buf, seen, upc>>

-----------------------------------------------------------------------------
(* tipChange. *)

\* The select takes a tip from the header queue of any leader ...
Receive(n) ==
    /\ tpc = "select" /\ qpc[n] = "send"
    /\ qpc' = [qpc EXCEPT ![n] = "idle"]
    /\ rcv' = Following(rcv) /\ held' = Following(rcv)
    /\ tpc' = "lock"
    /\ UNCHANGED <<client, stopped, live, reg, buf, seen, upc>>

\* Without the case for it, the context is looked at when a tip wakes the loop.
EndsOnTip ==
    /\ tpc = "select" /\ stopped /\ \E n \in Nodes : qpc[n] = "send"
    /\ tpc' = "ended"
    /\ UNCHANGED <<client, stopped, live, qpc, held, rcv, reg, buf, seen, upc>>

\* ... or, in no particular order, finds the context cancelled.
TipChangeEnds ==
    /\ tpc = "select" /\ stopped
    /\ tpc' = "ended"
    /\ UNCHANGED <<client, stopped, live, qpc, held, rcv, reg, buf, seen, upc>>

\* Without the test for nil, a send on no channel waits until one is registered.
WaitsForUser ==
    /\ tpc = "lock" /\ reg
    /\ tpc' = "send"
    /\ UNCHANGED <<client, stopped, live, qpc, held, rcv, reg, buf, seen, upc>>

\* The wallet has been told by now; without a registered channel that is all.
RLock ==
    /\ tpc = "lock"
    /\ tpc' = IF reg THEN "send" ELSE "select"
    /\ held' = IF reg THEN held ELSE None
    /\ UNCHANGED <<client, stopped, live, qpc, rcv, reg, buf, seen, upc>>

\* The send waits for room in the user's channel, with the mutex held.
HasRoom == Len(buf) < Capacity

\* A send in a select with a default drops the tip instead.
ForwardOrDrop ==
    /\ tpc = "send"
    /\ buf' = IF HasRoom THEN Append(buf, held) ELSE buf
    /\ tpc' = "select" /\ held' = None
    /\ UNCHANGED <<client, stopped, live, qpc, rcv, reg, seen, upc>>

Forward ==
    /\ tpc = "send" /\ HasRoom
    /\ buf' = Append(buf, held)
    /\ tpc' = "select" /\ held' = None
    /\ UNCHANGED <<client, stopped, live, qpc, rcv, reg, seen, upc>>

-----------------------------------------------------------------------------
(* The user. *)

Calls(u, what) ==
    /\ upc[u] = "idle"
    /\ upc' = [upc EXCEPT ![u] = what]
    /\ UNCHANGED <<client, stopped, live, qpc, tpc, held, rcv, reg, buf, seen>>

CallsRegister(u) == Calls(u, "register")
CallsUnregister(u) == Calls(u, "unregister")

AnyLock(u) == upc[u] # "idle"

\* The mutex is free: tipChange does not hold it for reading.
Lock(u) == upc[u] # "idle" /\ ~ReadLocked

Returns(u) == upc' = [upc EXCEPT ![u] = "idle"]

\* A new channel, unless one is registered.
Register(u) ==
    /\ Lock(u) /\ upc[u] = "register"
    /\ IF reg
       THEN UNCHANGED <<reg, buf, seen>>
       ELSE reg' = TRUE /\ buf' = <<>> /\ seen' = None
    /\ Returns(u)
    /\ UNCHANGED <<client, stopped, live, qpc, tpc, held, rcv>>

\* The channel is closed; what is in it can still be taken.
Unregister(u) ==
    /\ Lock(u) /\ upc[u] = "unregister"
    /\ reg' = FALSE
    /\ Returns(u)
    /\ UNCHANGED <<client, stopped, live, qpc, tpc, held, rcv, buf, seen>>

Take ==
    /\ buf # <<>>
    /\ seen' = Head(buf) /\ buf' = Tail(buf)
    /\ UNCHANGED <<client, stopped, live, qpc, tpc, held, rcv, reg, upc>>

-----------------------------------------------------------------------------
Next ==
    \/ \E n \in Nodes : \/ StartNetwork(n) \/ LeaderFails(n) \/ NewLeader(n)
                        \/ TipChanged(n) \/ QueueEnds(n) \/ Receive(n)
    \/ StartFails \/ StartTipChange \/ Stop
    \/ TipChangeEnds \/ RLock \/ Forward
    \/ \E u \in Users : \/ CallsRegister(u) \/ CallsUnregister(u)
                        \/ Register(u) \/ Unregister(u)
    \/ Take

Spec == Init /\ [][Next]_vars

\* Goroutines run, a select picks at random among what is ready, senders on a
\* channel are served in turn, and a reader cannot keep a waiting writer from the
\* mutex.  Nothing is assumed of servers, of leaders or of the user.
Fairness ==
    /\ WF_vars(StartTipChange)
    /\ WF_vars(RLock) /\ WF_vars(Forward) /\ SF_vars(TipChangeEnds)
    /\ \A n \in Nodes : SF_vars(Receive(n)) /\ WF_vars(QueueEnds(n))
    /\ \A u \in Users : SF_vars(Register(u)) /\ SF_vars(Unregister(u))

FairSpec == Spec /\ Fairness

-----------------------------------------------------------------------------
(* Properties. *)

Number == 0 .. (Turn - 1)

\* Where the goroutines are; tipChange has a tip exactly between its receive and
\* the end of its send, and the user's channel keeps to its capacity.
TypeOK ==
    /\ client \in {"new", "listening", "up", "failed"} /\ stopped \in BOOLEAN
    /\ live \in [Nodes -> BOOLEAN] /\ qpc \in [Nodes -> {"off", "idle", "send"}]
    /\ tpc \in {"off", "select", "lock", "send", "ended"}
    /\ held \in Number \cup {None} /\ (held # None <=> tpc \in {"lock", "send"})
    /\ rcv \in Number \cup {None} /\ seen \in Number \cup {None}
    /\ reg \in BOOLEAN
    /\ buf \in Seq(Number) /\ Len(buf) <= Capacity
    /\ upc \in [Users -> {"idle", "register", "unregister"}]

\* tipChange never sends on a channel that Unregister has closed, which would
\* panic, however calls, failovers and tips interleave.
NoSendOnClosed == tpc = "send" => reg

\* The tips of a registration, oldest first: taken last, in the channel, under way.
Taken == IF seen = None THEN <<>> ELSE <<seen>>
UnderWay == IF reg /\ held # None THEN <<held>> ELSE <<>>
Tips == Taken \o buf \o UnderWay

\* From the first tip after Register on, the user gets every tip the leaders hand
\* over, in that order, and the last one is in its channel when tipChange waits
\* for the next: nothing is dropped or repeated, whichever leader it comes from.
EveryTip ==
    /\ \A i \in 1 .. (Len(Tips) - 1) : Tips[i + 1] = Following(Tips[i])
    /\ reg /\ Tips # <<>> => Tips[Len(Tips)] = rcv

\* As long as the user empties its channel again and again, a leader's header queue
\* gets rid of its tip, unless the client is stopped: no registration, failover or
\* other leader keeps it waiting for good.
Takes == []<>(buf = <<>>)

QueueNotHeldUp ==
    Takes => \A n \in Nodes : (qpc[n] = "send" ~> (qpc[n] # "send" \/ stopped))

\* Under the same condition Register and Unregister come back, and tipChange ends
\* after Stop; with a full channel nobody reads, Unregister never gets the mutex.
CallsReturn ==
    Takes => \A u \in Users : (upc[u] # "idle" ~> upc[u] = "idle")

TipChangeStops == Takes => (stopped ~> tpc = "ended")
=============================================================================
