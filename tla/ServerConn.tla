----------------------------- MODULE ServerConn -----------------------------
(***************************************************************************)
(* One connection to an ElectrumX server (electrumx/server_connection.go)  *)
(* and the goroutines that hang on it: listen, keepAlive and the closer of *)
(* connectServer, the callers of request, the pipelines that carry header  *)
(* and scripthash notifications to the client (node_headers.go,            *)
(* node_scripthash.go), and the peers monitor, which needs peersMtx to     *)
(* replace the node once its context is cancelled (network.go).            *)
(*                                                                         *)
(* Goroutines stop at channel operations, at the mutex and at the socket;  *)
(* what they do between two of those is one step.                          *)
(***************************************************************************)
EXTENDS Integers, Sequences, FiniteSets

CONSTANTS
    Kinds,          \* notification pipelines that run: none unless the node leads
    QDepth,         \* capacity of qchan
    Users,          \* goroutines of the client that make requests
    Ids,            \* request ids
    MaxStream,      \* bound on messages under way from the server
    Turn,           \* notifications are numbered modulo Turn
    Duplicates      \* the server may answer a request twice

NoOne == "noone"
NoId == 0

ASSUME ConstantsAssumption ==
    /\ Kinds \subseteq {"headers", "scripthash"}
    /\ {QDepth, MaxStream, Turn} \subseteq Nat \ {0}
    /\ Ids \subseteq Nat \ {NoId}
    /\ Users \cap {"ping", "headers", "scripthash", "monitor", NoOne} = {}
    /\ Duplicates \in BOOLEAN

VARIABLES
    ctx,            \* the node's context is cancelled
    open,           \* the closer has not closed conn (and done) yet
    up,             \* the server is there
    stream,         \* messages on their way to the client
    asked,          \* server: requests to be answered
    handlers,       \* sc.respHandlers: ids
    chan,           \* response channel of an id: Empty, Closed or who is answered
    pc, id,         \* callers: where they are, the id of their request
    mtx,            \* net.peersMtx
    listen, note,   \* where listen is, the notification it is about to hand on
    notifyClosed,   \* the notification channels are closed
    fwd, held,      \* per kind: the goroutine that fills qchan, what it holds
    q, qClosed,     \* per kind: qchan
    qpc, item,      \* per kind: the goroutine that empties it, what it holds
    last,           \* history, per kind: last notification that came through
    sent,           \* history, per kind: last notification the server sent
    over            \* the monitor has replaced the node

conn == <<ctx, open>>
srv == <<up, stream, asked, sent>>
reqs == <<handlers, chan, pc, id, mtx>>
lst == <<listen, note, notifyClosed>>
pipe == <<fwd, held, q, qClosed, qpc, item, last>>
vars == <<conn, srv, reqs, lst, pipe, over>>

-----------------------------------------------------------------------------
\* Requests of the node itself use the node's context; the client's use the
\* context of the program, and peersMtx is held while they last.
NodeCallers == {"ping"} \cup (Kinds \cap {"headers"})
ClientCallers == Users \cup (Kinds \cap {"scripthash"})
Callers == NodeCallers \cup ClientCallers

Empty == "empty"
Closed == "closed"
Nil == -1
Response(i, c) == [is |-> "response", id |-> i, to |-> c]
Notification(k, n) == [is |-> "notification", kind |-> k, n |-> n]
NoNote == [is |-> "none"]

\* nextID is a counter, so an id is never that of an earlier request.  Here ids
\* come round again once no answer to them can come.
AnyId(i) == \A c \in Callers : id[c] # i
Fresh(i) ==
    /\ \A c \in Callers : id[c] # i
    /\ \A r \in asked : r.id # i
    /\ \A j \in 1..Len(stream) : stream[j].is = "response" => stream[j].id # i

-----------------------------------------------------------------------------
(* The server. *)

\* Requests are answered in any order.
Answer(r) ==
    /\ up /\ open /\ Len(stream) < MaxStream
    /\ r \in asked
    /\ stream' = Append(stream, Response(r.id, r.by))
    /\ asked' = IF Duplicates THEN asked ELSE asked \ {r}
    /\ UNCHANGED <<up, sent, conn, reqs, lst, pipe, over>>

Forget(r) ==
    /\ Duplicates /\ r \in asked
    /\ asked' = asked \ {r}
    /\ UNCHANGED <<up, stream, sent, conn, reqs, lst, pipe, over>>

\* A notification of a kind the node has subscribed to, which a leader does when it
\* starts and a peer does not (sent is Nil).
Notify(k) ==
    /\ up /\ open /\ Len(stream) < MaxStream
    /\ sent[k] # Nil
    /\ sent' = [sent EXCEPT ![k] = (@ + 1) % Turn]
    /\ stream' = Append(stream, Notification(k, sent'[k]))
    /\ UNCHANGED <<up, asked, conn, reqs, lst, pipe, over>>

\* The server goes away; nothing more is heard of it.
Fail ==
    /\ up
    /\ up' = FALSE /\ asked' = {}
    /\ UNCHANGED <<stream, sent, conn, reqs, lst, pipe, over>>

-----------------------------------------------------------------------------
(* request. *)

Idle(c) == pc[c] = "idle"

\* registerRequest, under peersMtx for the client's requests.
Register(c, i) ==
    /\ pc[c] = "begin"
    /\ Fresh(i) /\ \A j \in Ids : j < i => ~Fresh(j)
    /\ c \in ClientCallers => mtx = NoOne /\ ~over
    /\ mtx' = IF c \in ClientCallers THEN c ELSE mtx
    /\ id' = [id EXCEPT ![c] = i]
    /\ handlers' = handlers \cup {i}
    /\ chan' = [chan EXCEPT ![i] = Empty]
    /\ pc' = [pc EXCEPT ![c] = "send"]
    /\ UNCHANGED <<conn, srv, lst, pipe, over>>

\* What comes after a request of c: keepAlive ends when its ping fails.
After(c, ok) == IF c = "ping" /\ ~ok THEN "ended" ELSE "idle"
Return(c, ok) ==
    /\ pc' = [pc EXCEPT ![c] = After(c, ok)]
    /\ id' = [id EXCEPT ![c] = NoId]
    /\ chan' = [chan EXCEPT ![id[c]] = Empty]
    /\ mtx' = IF mtx = c THEN NoOne ELSE mtx

Send(c) ==
    /\ pc[c] = "send" /\ open
    /\ asked' = IF up THEN asked \cup {[id |-> id[c], by |-> c]} ELSE asked
    /\ pc' = [pc EXCEPT ![c] = "wait"]
    /\ UNCHANGED <<conn, up, stream, sent, handlers, chan, id, mtx, lst, pipe, over>>

\* conn is closed, or reset by the server.
SendFails(c) ==
    /\ pc[c] = "send" /\ (~open \/ ~up)
    /\ ctx' = TRUE
    /\ Return(c, FALSE)
    /\ UNCHANGED <<open, srv, handlers, lst, pipe, over>>

Responded(c) ==
    /\ pc[c] = "wait" /\ chan[id[c]] # Empty
    /\ Return(c, chan[id[c]] # Closed)
    /\ UNCHANGED <<conn, srv, handlers, lst, pipe, over>>

WaitsForAnswer(c) == FALSE
GivesUp(c) == c \in NodeCallers
CtxDone(c) ==
    /\ pc[c] = "wait" /\ GivesUp(c) /\ ctx
    /\ Return(c, FALSE)
    /\ UNCHANGED <<conn, srv, handlers, lst, pipe, over>>

\* keepAlive's ticker; a goroutine of the client wants something.
Start(c) ==
    /\ c \in {"ping"} \cup Users /\ Idle(c)
    /\ c = "ping" => open
    /\ c \in Users => ~over
    /\ pc' = [pc EXCEPT ![c] = "begin"]
    /\ UNCHANGED <<conn, srv, handlers, chan, id, mtx, lst, pipe, over>>

\* SetReadDeadline fails, or the context is done.
KeepAliveEnds ==
    /\ Idle("ping") /\ (ctx \/ ~open)
    /\ pc' = [pc EXCEPT !["ping"] = "ended"]
    /\ UNCHANGED <<conn, srv, handlers, chan, id, mtx, lst, pipe, over>>

-----------------------------------------------------------------------------
(* listen, and the end of the connection. *)

Check ==
    /\ listen = "check"
    /\ listen' = IF ctx THEN "close" ELSE "read"
    /\ UNCHANGED <<note, notifyClosed, conn, srv, reqs, pipe, over>>

\* responseChan takes the handler out, so the channel has room for the answer.
KeepsHandler(i) == handlers
WithoutHandler(i) == handlers \ {i}

ReadResponse ==
    /\ listen = "read" /\ open /\ stream # <<>> /\ Head(stream).is = "response"
    /\ LET m == Head(stream) IN
       /\ handlers' = WithoutHandler(m.id)
       /\ chan' = IF m.id \in handlers THEN [chan EXCEPT ![m.id] = m.to] ELSE chan
    /\ stream' = Tail(stream)
    /\ listen' = "check"
    /\ UNCHANGED <<note, notifyClosed, conn, up, asked, sent, pc, id, mtx, pipe, over>>

ReadNotification ==
    /\ listen = "read" /\ open /\ stream # <<>> /\ Head(stream).is = "notification"
    /\ note' = Head(stream)
    /\ stream' = Tail(stream)
    /\ listen' = "push"
    /\ UNCHANGED <<notifyClosed, conn, up, asked, sent, reqs, pipe, over>>

\* The deadline keepAlive set passes while its ping is not answered, or conn is
\* closed.  A server that goes away may also reset the connection.
NoDeadline == FALSE
DeadlinePassed == pc["ping"] \in {"wait", "ended"}
ReadFails ==
    /\ listen = "read"
    /\ ~open \/ (stream = <<>> /\ DeadlinePassed)
    /\ ctx' = TRUE
    /\ listen' = "close"
    /\ UNCHANGED <<note, notifyClosed, open, srv, reqs, pipe, over>>

ReadReset ==
    /\ listen = "read" /\ stream = <<>> /\ ~up
    /\ ctx' = TRUE
    /\ listen' = "close"
    /\ UNCHANGED <<note, notifyClosed, open, srv, reqs, pipe, over>>

CloseNotify ==
    /\ listen = "close"
    /\ notifyClosed' = TRUE
    /\ listen' = "cancel"
    /\ UNCHANGED <<note, conn, srv, reqs, pipe, over>>

LeavesChannels == chan
ClosedChannels == [i \in Ids |-> IF i \in handlers THEN Closed ELSE chan[i]]
CancelRequests ==
    /\ listen = "cancel"
    /\ chan' = ClosedChannels
    /\ handlers' = {}
    /\ listen' = "ended"
    /\ UNCHANGED <<note, notifyClosed, conn, srv, pc, id, mtx, pipe, over>>

\* The goroutine of connectServer that waits for the context.
Closer ==
    /\ ctx /\ open
    /\ open' = FALSE
    /\ stream' = <<>> /\ asked' = {}
    /\ UNCHANGED <<ctx, up, sent, reqs, lst, pipe, over>>

\* The network, or the node on a header below the checkpoint, cancels.
Cancel ==
    /\ ~ctx
    /\ ctx' = TRUE
    /\ UNCHANGED <<open, srv, reqs, lst, pipe, over>>

\* checkLeader
Failover ==
    /\ ctx /\ mtx = NoOne /\ ~over
    /\ over' = TRUE
    /\ UNCHANGED <<conn, srv, reqs, lst, pipe>>

-----------------------------------------------------------------------------
(* The pipeline of a kind of notification. *)

\* At the top of its loop the goroutine leaves when the context is done, after
\* the closer.
FwdCheck(k) ==
    /\ fwd[k] = "check"
    /\ fwd' = [fwd EXCEPT ![k] = IF ctx THEN "leave" ELSE "recv"]
    /\ UNCHANGED <<held, q, qClosed, qpc, item, last, conn, srv, reqs, lst, over>>

FwdLeave(k) ==
    /\ fwd[k] = "leave" /\ ~open
    /\ fwd' = [fwd EXCEPT ![k] = "ended"]
    /\ qClosed' = [qClosed EXCEPT ![k] = TRUE]
    /\ UNCHANGED <<held, q, qpc, item, last, conn, srv, reqs, lst, over>>

\* The notification channel has no buffer: listen goes on when it is received.
FwdRecv(k) ==
    /\ fwd[k] = "recv"
    /\ \/ /\ listen = "push" /\ note.kind = k
          /\ held' = [held EXCEPT ![k] = note.n]
          /\ listen' = "check" /\ note' = NoNote
       \/ /\ notifyClosed
          /\ held' = [held EXCEPT ![k] = Nil]
          /\ UNCHANGED <<listen, note>>
    /\ fwd' = [fwd EXCEPT ![k] = "put"]
    /\ UNCHANGED <<notifyClosed, q, qClosed, qpc, item, last, conn, srv, reqs, over>>

\* qchan <- ntfn
HasRoom(k) == Len(q[k]) < QDepth
Overtakes(k) == <<held[k]>> \o q[k]
Enqueued(k) == Append(q[k], held[k])
FwdPut(k) ==
    /\ fwd[k] = "put" /\ HasRoom(k)
    /\ q' = [q EXCEPT ![k] = Enqueued(k)]
    /\ fwd' = [fwd EXCEPT ![k] = "check"] /\ held' = [held EXCEPT ![k] = Nil]
    /\ UNCHANGED <<qClosed, qpc, item, last, conn, srv, reqs, lst, over>>

QueueCheck(k) ==
    /\ qpc[k] = "check"
    /\ ctx => ~open
    /\ qpc' = [qpc EXCEPT ![k] = IF ctx THEN "ended" ELSE "take"]
    /\ UNCHANGED <<fwd, held, q, qClosed, item, last, conn, srv, reqs, lst, over>>

\* for ntfn := range qchan, up to the point where the client is to be told.
QueueTake(k) ==
    /\ qpc[k] = "take" /\ q[k] # <<>>
    /\ q' = [q EXCEPT ![k] = Tail(@)]
    /\ item' = [item EXCEPT ![k] = Head(q[k])]
    /\ qpc' = [qpc EXCEPT ![k] = IF Head(q[k]) = Nil THEN "ended" ELSE "send"]
    /\ UNCHANGED <<fwd, held, qClosed, last, conn, srv, reqs, lst, over>>

\* A header may be known or not connect, may be below the checkpoint, or may lie
\* further ahead, in which case the headers in between are asked for.
HeaderSkipped ==
    /\ qpc["headers"] = "send"
    /\ qpc' = [qpc EXCEPT !["headers"] = "take"] /\ item' = [item EXCEPT !["headers"] = Nil]
    /\ UNCHANGED <<fwd, held, q, qClosed, last, conn, srv, reqs, lst, over>>

HeaderMisbehaves ==
    /\ qpc["headers"] = "send"
    /\ ctx' = TRUE
    /\ qpc' = [qpc EXCEPT !["headers"] = "ended"] /\ item' = [item EXCEPT !["headers"] = Nil]
    /\ UNCHANGED <<fwd, held, q, qClosed, last, open, srv, reqs, lst, over>>

HeaderAhead ==
    /\ qpc["headers"] = "send" /\ Idle("headers")
    /\ qpc' = [qpc EXCEPT !["headers"] = "ask"]
    /\ pc' = [pc EXCEPT !["headers"] = "begin"]
    /\ UNCHANGED <<fwd, held, q, qClosed, item, last, handlers, chan, id, mtx>>
    /\ UNCHANGED <<conn, srv, lst, over>>

\* Headers were added and the client is told, or none were.
HeadersAsked ==
    /\ qpc["headers"] = "ask" /\ Idle("headers")
    /\ \/ /\ qpc' = [qpc EXCEPT !["headers"] = "tell"] /\ UNCHANGED item
       \/ /\ qpc' = [qpc EXCEPT !["headers"] = "take"]
          /\ item' = [item EXCEPT !["headers"] = Nil]
    /\ UNCHANGED <<fwd, held, q, qClosed, last, conn, srv, reqs, lst, over>>

HeaderStep ==
    /\ "headers" \in Kinds
    /\ HeaderSkipped \/ HeaderMisbehaves \/ HeaderAhead \/ HeadersAsked

QueueClosed(k) ==
    /\ qpc[k] = "take" /\ q[k] = <<>> /\ qClosed[k]
    /\ qpc' = [qpc EXCEPT ![k] = "check"]
    /\ UNCHANGED <<fwd, held, q, qClosed, item, last, conn, srv, reqs, lst, over>>

\* The client's channel has no buffer either.  Its tip loop takes what comes; its
\* scripthash loop asks for the history before it takes the next one.
QueueSend(k) ==
    /\ qpc[k] \in {"send", "tell"}
    /\ k = "scripthash" => Idle(k)
    /\ last' = [last EXCEPT ![k] = item[k]]
    /\ pc' = IF k = "scripthash" /\ ~over THEN [pc EXCEPT ![k] = "begin"] ELSE pc
    /\ qpc' = [qpc EXCEPT ![k] = "take"] /\ item' = [item EXCEPT ![k] = Nil]
    /\ UNCHANGED <<fwd, held, q, qClosed, handlers, chan, id, mtx, conn, srv, lst, over>>

\* The request goes to the node that took over.
Elsewhere(c) ==
    /\ c \in ClientCallers /\ pc[c] = "begin" /\ over
    /\ pc' = [pc EXCEPT ![c] = "idle"]
    /\ UNCHANGED <<handlers, chan, id, mtx, conn, srv, lst, pipe, over>>

-----------------------------------------------------------------------------
Init ==
    /\ ctx = FALSE /\ open = TRUE /\ up = TRUE
    /\ stream = <<>> /\ asked = {} /\ sent = [k \in Kinds |-> 0]
    /\ handlers = {} /\ chan = [i \in Ids |-> Empty]
    /\ pc = [c \in Callers |-> "idle"] /\ id = [c \in Callers |-> NoId]
    /\ mtx = NoOne
    /\ listen = "check" /\ note = NoNote /\ notifyClosed = FALSE
    /\ fwd = [k \in Kinds |-> "check"] /\ held = [k \in Kinds |-> Nil]
    /\ q = [k \in Kinds |-> <<>>] /\ qClosed = [k \in Kinds |-> FALSE]
    /\ qpc = [k \in Kinds |-> "check"] /\ item = [k \in Kinds |-> Nil]
    /\ last = [k \in Kinds |-> 0]
    /\ over = FALSE

Listen ==
    Check \/ ReadResponse \/ ReadNotification \/ ReadFails \/ CloseNotify \/ CancelRequests

Call(c) ==
    \/ \E i \in Ids : Register(c, i)
    \/ Send(c) \/ SendFails(c) \/ Responded(c) \/ CtxDone(c) \/ Elsewhere(c)

Pipeline(k) ==
    \/ FwdCheck(k) \/ FwdLeave(k) \/ FwdRecv(k) \/ FwdPut(k)
    \/ QueueCheck(k) \/ QueueTake(k) \/ QueueClosed(k) \/ QueueSend(k)

Next ==
    \/ \E r \in asked : Answer(r) \/ Forget(r)
    \/ \E k \in Kinds : Notify(k) \/ Pipeline(k)
    \/ HeaderStep
    \/ Fail
    \/ \E c \in Callers : Start(c) \/ Call(c)
    \/ KeepAliveEnds
    \/ Listen \/ ReadReset \/ Closer \/ Cancel \/ Failover

Spec == Init /\ [][Next]_vars

\* Every goroutine that can run does; the server owes nothing, not even a reset,
\* and nobody has to want something.
Progress ==
    /\ WF_vars(Listen) /\ WF_vars(Closer)
    /\ WF_vars(Start("ping") \/ KeepAliveEnds)
    /\ \A c \in Callers : WF_vars(Call(c))
    /\ \A k \in Kinds :
         /\ WF_vars(FwdCheck(k) \/ FwdLeave(k) \/ FwdRecv(k) \/ FwdPut(k))
         /\ WF_vars(QueueCheck(k) \/ QueueTake(k) \/ QueueClosed(k) \/ QueueSend(k)
                    \/ (k = "headers" /\ HeadersAsked))

\* The mutex is handed out fairly.
FairSpec == Spec /\ Progress /\ SF_vars(Failover)

-----------------------------------------------------------------------------
(* Properties. *)

Numbers == 0..(Turn - 1)
Items == Numbers \cup {Nil}
Responses == [is : {"response"}, id : Ids, to : Callers]
Notifications == [is : {"notification"}, kind : Kinds, n : Numbers]

TypeConn ==
    /\ ctx \in BOOLEAN /\ open \in BOOLEAN /\ up \in BOOLEAN
    /\ notifyClosed \in BOOLEAN /\ over \in BOOLEAN
    /\ stream \in Seq(Responses \cup Notifications) /\ Len(stream) <= MaxStream
    /\ listen \in {"check", "read", "push", "close", "cancel", "ended"}
    /\ note \in Notifications \cup {NoNote}
    /\ listen = "push" => note \in Notifications
    /\ sent \in [Kinds -> Items]

TypeReqs ==
    /\ asked \subseteq [id : Ids, by : Callers]
    /\ handlers \subseteq Ids /\ chan \in [Ids -> Callers \cup {Empty, Closed}]
    /\ pc \in [Callers -> {"idle", "begin", "send", "wait", "ended"}]
    /\ id \in [Callers -> Ids \cup {NoId}]
    /\ \A c \in Callers : pc[c] \in {"send", "wait"} <=> id[c] # NoId
    /\ mtx \in ClientCallers \cup {NoOne}

TypePipe ==
    /\ fwd \in [Kinds -> {"check", "recv", "put", "leave", "ended"}]
    /\ qpc \in [Kinds -> {"check", "take", "ask", "send", "tell", "ended"}]
    /\ held \in [Kinds -> Items] /\ item \in [Kinds -> Items] /\ last \in [Kinds -> Items]
    /\ q \in [Kinds -> Seq(Items)] /\ \A k \in Kinds : Len(q[k]) <= QDepth
    /\ qClosed \in [Kinds -> BOOLEAN]

\* Types of the connection, the requests, listen and the pipelines: a caller has
\* an id while its request lasts, the queues stay within their capacity, and the
\* stream within its bound.
TypeOK == TypeConn /\ TypeReqs /\ TypePipe

\* A caller that waits finds its own answer in its channel, or the channel closed:
\* never the answer to another request, whatever the server repeats.
OwnAnswer == \A c \in Callers : pc[c] = "wait" => chan[id[c]] \in {Empty, Closed, c}

\* listen's send to a response channel cannot block: as long as listen runs, what
\* is in respHandlers has room.
SendCannotBlock == listen # "ended" => \A i \in handlers : chan[i] = Empty

\* The client gets the scripthash notifications in the order the server sent them,
\* without a gap, however the goroutines that pass them on are scheduled.
InOrder ==
    [][\A k \in Kinds \ {"headers"} :
         last'[k] # last[k] => last'[k] = (last[k] + 1) % Turn]_vars

\* A server that is gone is noticed and the context cancelled; after the context is
\* cancelled, for whatever reason, every goroutine of the connection comes to its
\* end.
WindsUp ==
    ~up \/ ctx ~> /\ ctx /\ ~open /\ listen = "ended" /\ pc["ping"] = "ended"
                  /\ \A k \in Kinds : fwd[k] = "ended"

\* "so that requests are passed back to the caller after the connection is
\* terminated": a request of the client registered while listen runs returns.
PassedBack ==
    \A c \in ClientCallers : pc[c] = "wait" /\ ctx /\ listen # "ended" ~> pc[c] # "wait"

\* A cancelled node is replaced.
FailoverHappens == ctx ~> over

\* The goroutine that writes headers to the store comes to its end when its leader
\* is cancelled, whatever it was asking for and wherever listen is stuck.
HeaderQueueEnds == \A k \in Kinds \cap {"headers"} : ctx ~> qpc[k] = "ended"
=============================================================================
