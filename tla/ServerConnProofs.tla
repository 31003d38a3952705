-------------------------- MODULE ServerConnProofs --------------------------
(***************************************************************************)
(* Theorems about ServerConn, for any callers, any ids and any depth of    *)
(* the queues, whatever the server sends and whenever it goes away.        *)
(***************************************************************************)
EXTENDS ServerConn, SequenceTheorems, TLAPS

-----------------------------------------------------------------------------
(* Type correctness. *)

\* The next number of a notification.
LEMMA NextNumber == \A n \in Numbers : (n + 1) % Turn \in Numbers
  BY ConstantsAssumption DEF Numbers

LEMMA InitType == Init => TypeOK
  <1> SUFFICES ASSUME Init PROVE TypeOK
    OBVIOUS
  <1>0. 0 \in Numbers /\ {0, Nil} \subseteq Items
    BY ConstantsAssumption DEF Numbers, Items
  <1>1. TypeConn
    <2>1. stream \in Seq(Responses \cup Notifications) /\ Len(stream) <= MaxStream
      BY ConstantsAssumption DEF Init
    <2>2. note = NoNote /\ listen = "check" /\ sent \in [Kinds -> Items]
      BY <1>0 DEF Init
    <2> QED BY <2>1, <2>2 DEF Init, TypeConn
  <1>2. TypeReqs
    BY ConstantsAssumption DEF Init, TypeReqs
  <1>3. TypePipe
    BY <1>0, ConstantsAssumption DEF Init, TypePipe
  <1> QED BY <1>1, <1>2, <1>3 DEF TypeOK

LEMMA ConnStutters ==
    ASSUME TypeConn, UNCHANGED <<conn, srv, lst, over>>
    PROVE  TypeConn'
  BY DEF TypeConn, conn, srv, lst

LEMMA ReqsStutters ==
    ASSUME TypeReqs, UNCHANGED <<reqs, asked>>
    PROVE  TypeReqs'
  BY DEF TypeReqs, reqs

LEMMA PipeStutters ==
    ASSUME TypePipe, UNCHANGED pipe
    PROVE  TypePipe'
  BY DEF TypePipe, pipe

\* What the server does.
LEMMA ServerType ==
    ASSUME TypeOK, \/ \E r \in asked : Answer(r) \/ Forget(r)
                   \/ \E k \in Kinds : Notify(k)
                   \/ Fail
    PROVE  TypeOK'
  <1>0. TypeConn /\ TypeReqs /\ TypePipe
    BY DEF TypeOK
  <1>1. TypePipe'
    BY <1>0, PipeStutters DEF Answer, Forget, Notify, Fail
  <1>2. TypeReqs'
    BY <1>0 DEF Answer, Forget, Notify, Fail, TypeReqs, reqs
  <1>3. TypeConn'
    <2>1. ASSUME NEW r \in asked, Answer(r) PROVE TypeConn'
      <3>1. Response(r.id, r.by) \in Responses
        BY <1>0 DEF TypeReqs, Response, Responses
      <3>2. stream' \in Seq(Responses \cup Notifications) /\ Len(stream') <= MaxStream
        BY <1>0, <2>1, <3>1, ConstantsAssumption DEF Answer, TypeConn
      <3> QED BY <1>0, <2>1, <3>2 DEF Answer, TypeConn, conn, lst
    <2>2. ASSUME NEW r \in asked, Forget(r) PROVE TypeConn'
      BY <1>0, <2>2 DEF Forget, TypeConn, conn, lst
    <2>3. ASSUME NEW k \in Kinds, Notify(k) PROVE TypeConn'
      <3>0. sent[k] \in Numbers
        BY <1>0, <2>3 DEF Notify, TypeConn, Items
      <3>1. sent' \in [Kinds -> Items]
        BY <1>0, <2>3, <3>0, NextNumber DEF Notify, TypeConn, Items
      <3>2. Notification(k, sent'[k]) \in Notifications
        <4>1. sent'[k] \in Numbers
          BY <1>0, <2>3, <3>0, NextNumber DEF Notify, TypeConn
        <4> QED BY <4>1 DEF Notification, Notifications
      <3>3. stream' \in Seq(Responses \cup Notifications) /\ Len(stream') <= MaxStream
        BY <1>0, <2>3, <3>2, ConstantsAssumption DEF Notify, TypeConn
      <3> QED BY <1>0, <2>3, <3>1, <3>3 DEF Notify, TypeConn, conn, lst
    <2>4. ASSUME Fail PROVE TypeConn'
      BY <1>0, <2>4 DEF Fail, TypeConn, conn, lst
    <2> QED BY <2>1, <2>2, <2>3, <2>4
  <1> QED BY <1>1, <1>2, <1>3 DEF TypeOK

\* The end of a request.
LEMMA ReturnType ==
    ASSUME TypeReqs, NEW c \in Callers, NEW ok \in BOOLEAN, Return(c, ok),
           UNCHANGED <<handlers, asked>>
    PROVE  TypeReqs'
  <1>1. pc' \in [Callers -> {"idle", "begin", "send", "wait", "ended"}]
    BY DEF TypeReqs, Return, After
  <1>2. id' \in [Callers -> Ids \cup {NoId}]
    BY DEF TypeReqs, Return
  <1>3. chan' \in [Ids -> Callers \cup {Empty, Closed}]
    BY DEF TypeReqs, Return
  <1>4. \A d \in Callers : pc'[d] \in {"send", "wait"} <=> id'[d] # NoId
    BY DEF TypeReqs, Return, After
  <1>5. mtx' \in ClientCallers \cup {NoOne}
    BY DEF TypeReqs, Return
  <1> QED BY <1>1, <1>2, <1>3, <1>4, <1>5 DEF TypeReqs

\* request and the callers.
LEMMA CallerType ==
    ASSUME TypeOK, \/ \E c \in Callers : Start(c) \/ Call(c)
                   \/ KeepAliveEnds
    PROVE  TypeOK'
  <1>0. TypeConn /\ TypeReqs /\ TypePipe
    BY DEF TypeOK
  <1>1. ASSUME NEW c \in Callers, NEW i \in Ids, Register(c, i) PROVE TypeOK'
    <2>1. TypeReqs'
      BY <1>0, <1>1, ConstantsAssumption DEF Register, TypeReqs, srv
    <2> QED BY <1>0, <1>1, <2>1, ConnStutters, PipeStutters DEF Register, TypeOK
  <1>2. ASSUME NEW c \in Callers, Send(c) PROVE TypeOK'
    <2>0. id[c] \in Ids
      BY <1>0, <1>2 DEF Send, TypeReqs
    <2>1. asked' \subseteq [id : Ids, by : Callers]
      BY <1>0, <1>2, <2>0 DEF Send, TypeReqs
    <2>2. TypeReqs'
      BY <1>0, <1>2, <2>1 DEF Send, TypeReqs
    <2>3. TypeConn'
      BY <1>0, <1>2 DEF Send, TypeConn, conn, lst
    <2> QED BY <1>0, <1>2, <2>2, <2>3, PipeStutters DEF Send, TypeOK
  <1>3. ASSUME NEW c \in Callers, SendFails(c) PROVE TypeOK'
    <2>1. TypeReqs'
      BY <1>0, <1>3, ReturnType DEF SendFails, srv
    <2>2. TypeConn'
      BY <1>0, <1>3 DEF SendFails, TypeConn, srv, lst
    <2> QED BY <1>0, <1>3, <2>1, <2>2, PipeStutters DEF SendFails, TypeOK
  <1>4. ASSUME NEW c \in Callers, Responded(c) \/ CtxDone(c) PROVE TypeOK'
    <2>0. PICK ok \in BOOLEAN : Return(c, ok)
      BY <1>4 DEF Responded, CtxDone
    <2>1. TypeReqs'
      BY <1>0, <1>4, <2>0, ReturnType DEF Responded, CtxDone, srv
    <2> QED BY <1>0, <1>4, <2>1, ConnStutters, PipeStutters DEF Responded, CtxDone, TypeOK
  <1>5. ASSUME NEW c \in Callers, Start(c) \/ Elsewhere(c) PROVE TypeOK'
    <2>1. TypeReqs'
      BY <1>0, <1>5 DEF Start, Elsewhere, Idle, TypeReqs, srv
    <2> QED BY <1>0, <1>5, <2>1, ConnStutters, PipeStutters DEF Start, Elsewhere, TypeOK
  <1>6. ASSUME KeepAliveEnds PROVE TypeOK'
    <2>0. "ping" \in Callers
      BY DEF Callers, NodeCallers
    <2>1. TypeReqs'
      BY <1>0, <1>6, <2>0 DEF KeepAliveEnds, Idle, TypeReqs, srv
    <2> QED BY <1>0, <1>6, <2>1, ConnStutters, PipeStutters DEF KeepAliveEnds, TypeOK
  <1> QED BY <1>1, <1>2, <1>3, <1>4, <1>5, <1>6 DEF Call

\* The head of what the server has sent.
LEMMA HeadType ==
    ASSUME TypeConn, stream # <<>>
    PROVE  /\ stream' = Tail(stream) => stream' \in Seq(Responses \cup Notifications)
                                        /\ Len(stream') <= MaxStream
           /\ Head(stream).is = "response" => Head(stream) \in Responses
           /\ Head(stream).is = "notification" => Head(stream) \in Notifications
  <1>1. Head(stream) \in Responses \cup Notifications
    BY DEF TypeConn
  <1>2. Head(stream).is = "response" => Head(stream) \in Responses
    BY <1>1 DEF Responses, Notifications
  <1>3. Head(stream).is = "notification" => Head(stream) \in Notifications
    BY <1>1 DEF Responses, Notifications
  <1>4. Tail(stream) \in Seq(Responses \cup Notifications) /\ Len(Tail(stream)) <= MaxStream
    BY ConstantsAssumption DEF TypeConn
  <1> QED BY <1>2, <1>3, <1>4

\* listen, the closer and the monitor.
LEMMA ListenType ==
    ASSUME TypeOK, Listen \/ ReadReset \/ Closer \/ Cancel \/ Failover
    PROVE  TypeOK'
  <1>0. TypeConn /\ TypeReqs /\ TypePipe
    BY DEF TypeOK
  <1>1. ASSUME ReadResponse PROVE TypeOK'
    <2>1. Head(stream) \in Responses
      BY <1>0, <1>1, HeadType DEF ReadResponse
    <2>2. Head(stream).id \in Ids /\ Head(stream).to \in Callers
      BY <2>1 DEF Responses
    <2>3. handlers' \subseteq Ids
      BY <1>0, <1>1 DEF ReadResponse, WithoutHandler, TypeReqs
    <2>4. chan' \in [Ids -> Callers \cup {Empty, Closed}]
      BY <1>0, <1>1, <2>2 DEF ReadResponse, TypeReqs
    <2>5. TypeReqs'
      BY <1>0, <1>1, <2>3, <2>4 DEF ReadResponse, TypeReqs
    <2>6. stream' \in Seq(Responses \cup Notifications) /\ Len(stream') <= MaxStream
      BY <1>0, <1>1, HeadType DEF ReadResponse
    <2>7. TypeConn'
      BY <1>0, <1>1, <2>6 DEF ReadResponse, TypeConn, conn
    <2> QED BY <1>0, <1>1, <2>5, <2>7, PipeStutters DEF ReadResponse, TypeOK
  <1>2. ASSUME ReadNotification PROVE TypeOK'
    <2>1. Head(stream) \in Notifications
      BY <1>0, <1>2, HeadType DEF ReadNotification
    <2>2. stream' \in Seq(Responses \cup Notifications) /\ Len(stream') <= MaxStream
      BY <1>0, <1>2, HeadType DEF ReadNotification
    <2>3. TypeConn'
      BY <1>0, <1>2, <2>1, <2>2 DEF ReadNotification, TypeConn, conn
    <2>4. TypeReqs'
      BY <1>0, <1>2, ReqsStutters DEF ReadNotification
    <2> QED BY <1>0, <1>2, <2>3, <2>4, PipeStutters DEF ReadNotification, TypeOK
  <1>3. ASSUME CancelRequests PROVE TypeOK'
    <2>1. TypeReqs'
      BY <1>0, <1>3 DEF CancelRequests, ClosedChannels, TypeReqs, srv
    <2>2. TypeConn'
      BY <1>0, <1>3 DEF CancelRequests, TypeConn, conn, srv
    <2> QED BY <1>0, <1>3, <2>1, <2>2, PipeStutters DEF CancelRequests, TypeOK
  <1>4. ASSUME Closer PROVE TypeOK'
    <2>1. TypeReqs'
      BY <1>0, <1>4 DEF Closer, TypeReqs, reqs
    <2>2. stream' \in Seq(Responses \cup Notifications) /\ Len(stream') <= MaxStream
      BY <1>4, ConstantsAssumption DEF Closer
    <2>3. TypeConn'
      BY <1>0, <1>4, <2>2 DEF Closer, TypeConn, lst
    <2> QED BY <1>0, <1>4, <2>1, <2>3, PipeStutters DEF Closer, TypeOK
  <1>5. ASSUME Check \/ ReadFails \/ ReadReset \/ CloseNotify \/ Cancel \/ Failover PROVE TypeOK'
    <2>1. TypeReqs'
      BY <1>0, <1>5, ReqsStutters
         DEF Check, ReadFails, ReadReset, CloseNotify, Cancel, Failover, srv
    <2>2. TypeConn'
      BY <1>0, <1>5
         DEF Check, ReadFails, ReadReset, CloseNotify, Cancel, Failover, TypeConn, conn, srv, lst
    <2>3. TypePipe'
      BY <1>0, <1>5, PipeStutters DEF Check, ReadFails, ReadReset, CloseNotify, Cancel, Failover
    <2> QED BY <2>1, <2>2, <2>3 DEF TypeOK
  <1> QED BY <1>1, <1>2, <1>3, <1>4, <1>5 DEF Listen

\* The pipelines.
LEMMA PipelineType ==
    ASSUME TypeOK, (\E k \in Kinds : Pipeline(k)) \/ HeaderStep
    PROVE  TypeOK'
  <1>0. TypeConn /\ TypeReqs /\ TypePipe
    BY DEF TypeOK
  <1>a. Nil \in Items
    BY DEF Items
  <1>1. ASSUME NEW k \in Kinds, FwdCheck(k) \/ FwdLeave(k) \/ QueueCheck(k) \/ QueueClosed(k)
        PROVE  TypeOK'
    <2>1. TypePipe'
      BY <1>0, <1>1 DEF FwdCheck, FwdLeave, QueueCheck, QueueClosed, TypePipe
    <2>2. TypeReqs' /\ TypeConn'
      BY <1>0, <1>1, ReqsStutters, ConnStutters DEF FwdCheck, FwdLeave, QueueCheck, QueueClosed, srv
    <2> QED BY <2>1, <2>2 DEF TypeOK
  <1>2. ASSUME NEW k \in Kinds, FwdRecv(k) PROVE TypeOK'
    <2>1. listen = "push" => note.n \in Items
      BY <1>0 DEF TypeConn, Notifications, Items
    <2>2. TypePipe'
      BY <1>0, <1>a, <1>2, <2>1 DEF FwdRecv, TypePipe
    <2>3. TypeConn'
      BY <1>0, <1>2 DEF FwdRecv, TypeConn, conn, srv
    <2>4. TypeReqs'
      BY <1>0, <1>2, ReqsStutters DEF FwdRecv, srv
    <2> QED BY <2>2, <2>3, <2>4 DEF TypeOK
  <1>3. ASSUME NEW k \in Kinds, FwdPut(k) PROVE TypeOK'
    <2>0. q[k] \in Seq(Items) /\ held[k] \in Items
      BY <1>0 DEF TypePipe
    <2>1. Append(q[k], held[k]) \in Seq(Items) /\ Len(Append(q[k], held[k])) <= QDepth
      BY <1>3, <2>0, ConstantsAssumption DEF FwdPut, HasRoom
    <2>2. q' \in [Kinds -> Seq(Items)] /\ \A j \in Kinds : Len(q'[j]) <= QDepth
      BY <1>0, <1>3, <2>1 DEF FwdPut, Enqueued, TypePipe
    <2>3. TypePipe'
      BY <1>0, <1>a, <1>3, <2>2 DEF FwdPut, TypePipe
    <2>4. TypeReqs' /\ TypeConn'
      BY <1>0, <1>3, ReqsStutters, ConnStutters DEF FwdPut, srv
    <2> QED BY <2>3, <2>4 DEF TypeOK
  <1>4. ASSUME NEW k \in Kinds, QueueTake(k) PROVE TypeOK'
    <2>0. q[k] \in Seq(Items) /\ Len(q[k]) <= QDepth /\ q[k] # <<>>
      BY <1>0, <1>4 DEF TypePipe, QueueTake
    <2>1. Tail(q[k]) \in Seq(Items) /\ Len(Tail(q[k])) <= QDepth /\ Head(q[k]) \in Items
      BY <2>0, ConstantsAssumption
    <2>2. q' \in [Kinds -> Seq(Items)] /\ \A j \in Kinds : Len(q'[j]) <= QDepth
      BY <1>0, <1>4, <2>1 DEF QueueTake, TypePipe
    <2>3. TypePipe'
      BY <1>0, <1>4, <2>1, <2>2 DEF QueueTake, TypePipe
    <2>4. TypeReqs' /\ TypeConn'
      BY <1>0, <1>4, ReqsStutters, ConnStutters DEF QueueTake, srv
    <2> QED BY <2>3, <2>4 DEF TypeOK
  <1>5. ASSUME NEW k \in Kinds, QueueSend(k) PROVE TypeOK'
    <2>1. TypePipe'
      BY <1>0, <1>a, <1>5 DEF QueueSend, TypePipe
    <2>2. TypeReqs'
      BY <1>0, <1>5 DEF QueueSend, Idle, TypeReqs, srv
    <2> QED BY <1>0, <1>5, <2>1, <2>2, ConnStutters DEF QueueSend, TypeOK
  <1>6. ASSUME HeaderStep PROVE TypeOK'
    <2>0. "headers" \in Kinds
      BY <1>6 DEF HeaderStep
    <2>1. CASE HeaderSkipped \/ HeadersAsked
      <3>1. TypePipe'
        <4>1. qpc' \in [Kinds -> {"check", "take", "ask", "send", "tell", "ended"}]
          BY <1>0, <2>0, <2>1 DEF HeaderSkipped, HeadersAsked, TypePipe
        <4>2. item' \in [Kinds -> Items]
          BY <1>0, <1>a, <2>0, <2>1 DEF HeaderSkipped, HeadersAsked, TypePipe
        <4> QED BY <1>0, <2>1, <4>1, <4>2 DEF HeaderSkipped, HeadersAsked, TypePipe
      <3>2. TypeReqs' /\ TypeConn'
        BY <1>0, <2>1, ReqsStutters, ConnStutters DEF HeaderSkipped, HeadersAsked, srv
      <3> QED BY <3>1, <3>2 DEF TypeOK
    <2>2. CASE HeaderMisbehaves
      <3>1. TypePipe'
        BY <1>0, <1>a, <2>0, <2>2 DEF HeaderMisbehaves, TypePipe
      <3>2. TypeConn'
        BY <1>0, <2>2 DEF HeaderMisbehaves, TypeConn, srv, lst
      <3>3. TypeReqs'
        BY <1>0, <2>2, ReqsStutters DEF HeaderMisbehaves, srv
      <3> QED BY <3>1, <3>2, <3>3 DEF TypeOK
    <2>3. CASE HeaderAhead
      <3>1. TypePipe'
        BY <1>0, <2>0, <2>3 DEF HeaderAhead, TypePipe
      <3>2. TypeReqs'
        BY <1>0, <2>0, <2>3 DEF HeaderAhead, Idle, TypeReqs, srv, Callers, NodeCallers
      <3> QED BY <1>0, <2>3, <3>1, <3>2, ConnStutters DEF HeaderAhead, TypeOK
    <2> QED BY <1>6, <2>1, <2>2, <2>3 DEF HeaderStep
  <1> QED BY <1>1, <1>2, <1>3, <1>4, <1>5, <1>6 DEF Pipeline

LEMMA NextType == TypeOK /\ [Next]_vars => TypeOK'
  <1> SUFFICES ASSUME TypeOK, [Next]_vars PROVE TypeOK'
    OBVIOUS
  <1>1. CASE Next
    BY <1>1, ServerType, CallerType, ListenType, PipelineType DEF Next
  <1>2. CASE UNCHANGED vars
    BY <1>2, ConnStutters, ReqsStutters, PipeStutters DEF vars, srv, TypeOK
  <1> QED BY <1>1, <1>2

\* The connection, the requests and the pipelines keep their types: in particular
\* a caller has an id exactly while request runs, and qchan keeps its capacity.
THEOREM TypeCorrect == Spec => []TypeOK
  BY InitType, NextType, PTL DEF Spec

-----------------------------------------------------------------------------
(* Response channels. *)

\* The actions that touch neither the handlers, the response channels nor listen's
\* end.
HandlersAlone ==
    /\ UNCHANGED <<handlers, chan>>
    /\ listen = "ended" => listen' = "ended"

LEMMA RoomKept ==
    ASSUME TypeOK, SendCannotBlock, [Next]_vars
    PROVE  SendCannotBlock'
  <1>0. TypeReqs
    BY DEF TypeOK
  <1>1. ASSUME HandlersAlone PROVE SendCannotBlock'
    BY <1>1 DEF HandlersAlone, SendCannotBlock
  <1>2. ASSUME NEW c \in Callers, NEW i \in Ids, Register(c, i) PROVE SendCannotBlock'
    BY <1>0, <1>2 DEF Register, SendCannotBlock, lst, TypeReqs
  <1>3. ASSUME NEW c \in Callers, NEW ok, Return(c, ok),
               UNCHANGED <<handlers, lst>>
        PROVE  SendCannotBlock'
    BY <1>0, <1>3 DEF Return, SendCannotBlock, lst, TypeReqs
  <1>4. ASSUME ReadResponse PROVE SendCannotBlock'
    BY <1>0, <1>4 DEF ReadResponse, WithoutHandler, SendCannotBlock, TypeReqs
  <1>5. ASSUME CancelRequests PROVE SendCannotBlock'
    BY <1>5 DEF CancelRequests, SendCannotBlock
  <1>6. CASE \E c \in Callers : Start(c) \/ Call(c)
    <2>1. ASSUME NEW c \in Callers, Start(c) \/ Send(c) \/ Elsewhere(c) PROVE HandlersAlone
      BY <2>1 DEF Start, Send, Elsewhere, HandlersAlone, lst
    <2>2. ASSUME NEW c \in Callers, SendFails(c) \/ Responded(c) \/ CtxDone(c)
          PROVE  SendCannotBlock'
      BY <2>2, <1>3 DEF SendFails, Responded, CtxDone
    <2> QED BY <1>6, <1>1, <1>2, <2>1, <2>2 DEF Call
  <1>7. CASE \/ \E r \in asked : Answer(r) \/ Forget(r)
             \/ \E k \in Kinds : Notify(k)
             \/ Fail \/ KeepAliveEnds
    BY <1>7, <1>1 DEF Answer, Forget, Notify, Fail, KeepAliveEnds, HandlersAlone, reqs, lst
  <1>8. CASE Check \/ ReadNotification \/ ReadFails \/ ReadReset \/ CloseNotify
             \/ Closer \/ Cancel \/ Failover
    BY <1>8, <1>1 DEF Check, ReadNotification, ReadFails, ReadReset, CloseNotify, Closer,
                      Cancel, Failover, HandlersAlone, reqs, lst
  <1>9. CASE (\E k \in Kinds : Pipeline(k)) \/ HeaderStep
    <2>1. ASSUME NEW k \in Kinds, Pipeline(k) PROVE HandlersAlone
      BY <2>1 DEF Pipeline, FwdCheck, FwdLeave, FwdRecv, FwdPut, QueueCheck, QueueTake,
                  QueueClosed, QueueSend, HandlersAlone, reqs, lst
    <2>2. ASSUME HeaderStep PROVE HandlersAlone
      BY <2>2 DEF HeaderStep, HeaderSkipped, HeaderMisbehaves, HeaderAhead, HeadersAsked,
                  HandlersAlone, reqs, lst
    <2> QED BY <1>9, <1>1, <2>1, <2>2
  <1>10. CASE UNCHANGED vars
    BY <1>10, <1>1 DEF vars, reqs, lst, HandlersAlone
  <1> QED BY <1>4, <1>5, <1>6, <1>7, <1>8, <1>9, <1>10 DEF Next, Listen

\* "buffered and single use => cannot block": whatever the server repeats or makes
\* up, the channel listen sends a response to is empty, so that listen goes on.
THEOREM ResponseNeverBlocks == Spec => []SendCannotBlock
  <1>1. Init => SendCannotBlock
    BY DEF Init, SendCannotBlock
  <1>2. TypeOK /\ SendCannotBlock /\ [Next]_vars => SendCannotBlock'
    BY RoomKept
  <1> QED BY <1>1, <1>2, TypeCorrect, PTL DEF Spec

-----------------------------------------------------------------------------
(* Whose answer it is. *)

\* No two requests under way have the same id, and what is under way to or from
\* the server under an id in use is that request's.
IdsApart == \A c, d \in Callers : id[c] # NoId /\ id[c] = id[d] => c = d
AskedOwn == \A r \in asked : \A c \in Callers : id[c] = r.id => r.by = c
StreamOwn ==
    \A j \in 1..Len(stream) : \A c \in Callers :
        stream[j].is = "response" /\ id[c] = stream[j].id => stream[j].to = c
ChanOwn == \A c \in Callers : id[c] # NoId => chan[id[c]] \in {Empty, Closed, c}
AnswerInv == IdsApart /\ AskedOwn /\ StreamOwn /\ ChanOwn

LEMMA AnswerInvStutters ==
    ASSUME AnswerInv, UNCHANGED <<id, asked, stream, chan>>
    PROVE  AnswerInv'
  BY DEF AnswerInv, IdsApart, AskedOwn, StreamOwn, ChanOwn

LEMMA ReturnOwn ==
    ASSUME TypeConn, TypeReqs, AnswerInv, NEW c \in Callers, NEW ok, Return(c, ok), UNCHANGED srv
    PROVE  AnswerInv'
  <1>1. id' \in [Callers -> Ids \cup {NoId}] /\ \A d \in Callers : id'[d] \in {id[d], NoId}
    BY DEF Return, TypeReqs
  <1>2. \A i \in Ids : chan'[i] \in {chan[i], Empty}
    BY DEF Return, TypeReqs
  <1>3. NoId \notin Ids
    BY ConstantsAssumption
  <1>4. IdsApart'
    BY <1>1 DEF AnswerInv, IdsApart
  <1>5. AskedOwn'
    BY <1>1, <1>3 DEF AnswerInv, AskedOwn, srv, TypeReqs
  <1>6. StreamOwn'
    <2>1. \A j \in 1..Len(stream) : stream[j].is = "response" => stream[j].id \in Ids
      BY DEF TypeConn, Responses, Notifications
    <2> QED BY <1>1, <1>3, <2>1 DEF AnswerInv, StreamOwn, srv
  <1>7. ChanOwn'
    BY <1>1, <1>2 DEF AnswerInv, ChanOwn
  <1> QED BY <1>4, <1>5, <1>6, <1>7 DEF AnswerInv

LEMMA RegisterOwn ==
    ASSUME TypeOK, AnswerInv, NEW c \in Callers, NEW i \in Ids, Register(c, i)
    PROVE  AnswerInv'
  <1>0. TypeConn /\ TypeReqs
    BY DEF TypeOK
  <1>1. /\ \A d \in Callers : id[d] # i
        /\ \A r \in asked : r.id # i
        /\ \A j \in 1..Len(stream) : stream[j].is = "response" => stream[j].id # i
    BY DEF Register, Fresh
  <1>2. id' = [id EXCEPT ![c] = i] /\ chan' = [chan EXCEPT ![i] = Empty] /\ UNCHANGED <<asked, stream>>
    BY DEF Register, srv
  <1>3. IdsApart'
    BY <1>0, <1>1, <1>2 DEF AnswerInv, IdsApart, TypeReqs
  <1>4. AskedOwn'
    BY <1>0, <1>1, <1>2 DEF AnswerInv, AskedOwn, TypeReqs
  <1>5. StreamOwn'
    BY <1>0, <1>1, <1>2 DEF AnswerInv, StreamOwn, TypeReqs
  <1>6. ChanOwn'
    BY <1>0, <1>1, <1>2 DEF AnswerInv, ChanOwn, TypeReqs
  <1> QED BY <1>3, <1>4, <1>5, <1>6 DEF AnswerInv

LEMMA SendOwn ==
    ASSUME TypeOK, AnswerInv, NEW c \in Callers, Send(c)
    PROVE  AnswerInv'
  <1>0. id[c] \in Ids /\ id[c] # NoId
    BY ConstantsAssumption DEF TypeOK, TypeReqs, Send
  <1>1. AskedOwn'
    BY <1>0 DEF Send, AnswerInv, AskedOwn, IdsApart
  <1> QED BY <1>1 DEF Send, AnswerInv, IdsApart, StreamOwn, ChanOwn

LEMMA AnswerOwn ==
    ASSUME TypeOK, AnswerInv, NEW r \in asked, Answer(r)
    PROVE  AnswerInv'
  <1>0. stream \in Seq(Responses \cup Notifications)
    BY DEF TypeOK, TypeConn
  <1>1. /\ Len(stream') = Len(stream) + 1
        /\ \A j \in 1..Len(stream) : stream'[j] = stream[j]
        /\ stream'[Len(stream) + 1] = Response(r.id, r.by)
    BY <1>0 DEF Answer
  <1>2. asked' \subseteq asked /\ UNCHANGED <<id, chan>>
    BY DEF Answer, reqs
  <1>3. StreamOwn'
    <2> SUFFICES ASSUME NEW j \in 1..Len(stream'), NEW d \in Callers,
                        stream'[j].is = "response", id[d] = stream'[j].id
                 PROVE  stream'[j].to = d
      BY <1>2 DEF StreamOwn
    <2>1. CASE j \in 1..Len(stream)
      BY <1>1, <2>1 DEF AnswerInv, StreamOwn
    <2>2. CASE j = Len(stream) + 1
      BY <1>1, <2>2 DEF AnswerInv, AskedOwn, Response
    <2> QED BY <1>0, <1>1, <2>1, <2>2
  <1> QED BY <1>2, <1>3 DEF AnswerInv, IdsApart, AskedOwn, ChanOwn

LEMMA NotifyOwn ==
    ASSUME TypeOK, AnswerInv, NEW k \in Kinds, Notify(k)
    PROVE  AnswerInv'
  <1>0. stream \in Seq(Responses \cup Notifications)
    BY DEF TypeOK, TypeConn
  <1>1. /\ Len(stream') = Len(stream) + 1
        /\ \A j \in 1..Len(stream) : stream'[j] = stream[j]
        /\ stream'[Len(stream) + 1].is = "notification"
    BY <1>0 DEF Notify, Notification
  <1>2. UNCHANGED <<asked, id, chan>>
    BY DEF Notify, reqs
  <1>3. StreamOwn'
    <2> SUFFICES ASSUME NEW j \in 1..Len(stream'), NEW d \in Callers,
                        stream'[j].is = "response", id[d] = stream'[j].id
                 PROVE  stream'[j].to = d
      BY <1>2 DEF StreamOwn
    <2>1. j \in 1..Len(stream)
      BY <1>0, <1>1
    <2> QED BY <1>1, <2>1 DEF AnswerInv, StreamOwn
  <1> QED BY <1>2, <1>3 DEF AnswerInv, IdsApart, AskedOwn, ChanOwn

LEMMA ReadOwn ==
    ASSUME TypeOK, AnswerInv, ReadResponse \/ ReadNotification
    PROVE  AnswerInv'
  <1>0. stream \in Seq(Responses \cup Notifications) /\ stream # <<>> /\ TypeReqs
    BY DEF TypeOK, TypeConn, ReadResponse, ReadNotification
  <1>1. /\ Len(stream') = Len(stream) - 1
        /\ \A j \in 1..Len(stream') : j + 1 \in 1..Len(stream) /\ stream'[j] = stream[j + 1]
        /\ 1 \in 1..Len(stream) /\ Head(stream) = stream[1]
    BY <1>0 DEF ReadResponse, ReadNotification
  <1>2. UNCHANGED <<asked, id>>
    BY DEF ReadResponse, ReadNotification, reqs
  <1>3. StreamOwn'
    BY <1>1, <1>2 DEF AnswerInv, StreamOwn
  <1>4. ChanOwn'
    <2>1. CASE ReadResponse
      <3>1. \A c \in Callers : id[c] = Head(stream).id => Head(stream).to = c
        BY <1>1, <2>1 DEF AnswerInv, StreamOwn, ReadResponse
      <3> QED BY <1>0, <1>2, <2>1, <3>1 DEF AnswerInv, ChanOwn, ReadResponse, TypeReqs
    <2>2. CASE ReadNotification
      BY <2>2 DEF AnswerInv, ChanOwn, ReadNotification, reqs
    <2> QED BY <2>1, <2>2
  <1> QED BY <1>2, <1>3, <1>4 DEF AnswerInv, IdsApart, AskedOwn

\* What the end of the connection does to the requests.
LEMMA EndOwn ==
    ASSUME TypeOK, AnswerInv, CancelRequests \/ Closer \/ Fail \/ \E r \in asked : Forget(r)
    PROVE  AnswerInv'
  <1>0. TypeReqs
    BY DEF TypeOK
  <1>1. CASE CancelRequests
    <2>1. ChanOwn'
      BY <1>0, <1>1 DEF CancelRequests, ClosedChannels, AnswerInv, ChanOwn, TypeReqs
    <2> QED BY <1>1, <2>1 DEF CancelRequests, srv, AnswerInv, IdsApart, AskedOwn, StreamOwn
  <1>2. CASE Closer \/ Fail \/ \E r \in asked : Forget(r)
    <2>1. asked' \subseteq asked /\ stream' \in {stream, <<>>} /\ UNCHANGED <<id, chan>>
      BY <1>2 DEF Closer, Fail, Forget, reqs
    <2>2. StreamOwn'
      BY <2>1 DEF AnswerInv, StreamOwn
    <2> QED BY <2>1, <2>2 DEF AnswerInv, IdsApart, AskedOwn, ChanOwn
  <1> QED BY <1>1, <1>2

LEMMA AnswersKept ==
    ASSUME TypeOK, AnswerInv, [Next]_vars
    PROVE  AnswerInv'
  <1>0. TypeConn /\ TypeReqs
    BY DEF TypeOK
  <1>1. ASSUME UNCHANGED <<id, asked, stream, chan>> PROVE AnswerInv'
    BY <1>1, AnswerInvStutters
  <1>2. CASE \E c \in Callers : Start(c) \/ Call(c)
    <2>1. ASSUME NEW c \in Callers, Start(c) \/ Elsewhere(c) PROVE AnswerInv'
      BY <2>1, <1>1 DEF Start, Elsewhere, srv
    <2>2. ASSUME NEW c \in Callers, SendFails(c) \/ Responded(c) \/ CtxDone(c) PROVE AnswerInv'
      BY <2>2, <1>0, ReturnOwn DEF SendFails, Responded, CtxDone
    <2> QED BY <1>2, <2>1, <2>2, RegisterOwn, SendOwn DEF Call
  <1>3. CASE Check \/ ReadFails \/ ReadReset \/ CloseNotify \/ Cancel \/ Failover \/ KeepAliveEnds
    BY <1>3, <1>1 DEF Check, ReadFails, ReadReset, CloseNotify, Cancel, Failover, KeepAliveEnds,
                      reqs, srv
  <1>4. CASE \E k \in Kinds : Pipeline(k)
    BY <1>4, <1>1 DEF Pipeline, FwdCheck, FwdLeave, FwdRecv, FwdPut, QueueCheck, QueueTake,
                      QueueClosed, QueueSend, reqs, srv
  <1>5. CASE HeaderStep
    BY <1>5, <1>1 DEF HeaderStep, HeaderSkipped, HeaderMisbehaves, HeaderAhead, HeadersAsked,
                      reqs, srv
  <1>6. CASE UNCHANGED vars
    BY <1>6, <1>1 DEF vars, reqs, srv
  <1>7. CASE \/ \E r \in asked : Answer(r) \/ Forget(r)
             \/ \E k \in Kinds : Notify(k)
             \/ ReadResponse \/ ReadNotification \/ CancelRequests \/ Closer \/ Fail
    BY <1>7, AnswerOwn, NotifyOwn, ReadOwn, EndOwn
  <1> QED BY <1>2, <1>3, <1>4, <1>5, <1>6, <1>7 DEF Next, Listen

\* request returns the answer to its own message, or an error: for any number of
\* goroutines that share the connection and any order, loss or repetition of answers.
THEOREM AnswersMatchRequests == Spec => []OwnAnswer
  <1>1. Init => AnswerInv
    BY DEF Init, AnswerInv, IdsApart, AskedOwn, StreamOwn, ChanOwn
  <1>2. TypeOK /\ AnswerInv /\ [Next]_vars => AnswerInv'
    BY AnswersKept
  <1>3. TypeOK /\ AnswerInv => OwnAnswer
    BY DEF TypeOK, TypeReqs, AnswerInv, ChanOwn, OwnAnswer
  <1> QED BY <1>1, <1>2, <1>3, TypeCorrect, PTL DEF Spec
-----------------------------------------------------------------------------
(* Order of the notifications. *)

\* The number that follows n; the places of kind k's notifications in the stream.
Succ(n) == (n + 1) % Turn
NotesOf(k) == {i \in 1..Len(stream) : stream[i].is = "notification" /\ stream[i].kind = k}

\* The newest notification of kind k to have left qchan, to have come as far as
\* qchan, to the goroutine that fills it, and to listen.
Taken(k) == IF qpc[k] = "send" THEN item[k] ELSE last[k]
Queued(k) == IF q[k] = <<>> THEN Taken(k) ELSE q[k][Len(q[k])]
Received(k) == IF fwd[k] = "put" THEN held[k] ELSE Queued(k)
Read(k) == IF listen = "push" /\ note.kind = k THEN note.n ELSE Received(k)

\* listen closes the notification channels once the context is cancelled; from then
\* on nothing but Nil comes from it, and after a Nil nothing is put into qchan.
ListenEnds ==
    /\ notifyClosed <=> listen \in {"cancel", "ended"}
    /\ listen \in {"close", "cancel", "ended"} => ctx
NilLast(k) ==
    /\ \A i \in 1..Len(q[k]) : q[k][i] = Nil =>
         i = Len(q[k]) /\ notifyClosed /\ fwd[k] \notin {"recv", "put"}
    /\ fwd[k] = "put" /\ held[k] = Nil => notifyClosed

\* Each place has the successor of the one before it.
QueueLinked(k) ==
    /\ qpc[k] \notin {"ask", "tell"}
    /\ qpc[k] = "send" => item[k] = Succ(last[k])
    /\ q[k] # <<>> /\ q[k][1] # Nil => q[k][1] = Succ(Taken(k))
    /\ \A i \in 1..(Len(q[k]) - 1) : q[k][i + 1] # Nil => q[k][i + 1] = Succ(q[k][i])
FwdLinked(k) ==
    /\ fwd[k] = "put" /\ held[k] # Nil => held[k] = Succ(Queued(k))
    /\ listen = "push" /\ note.kind = k => note.n = Succ(Received(k))
StreamLinked(k) ==
    open /\ ~notifyClosed =>
        /\ NotesOf(k) = {} => sent[k] = Read(k)
        /\ \A i \in NotesOf(k) :
             /\ (\A j \in NotesOf(k) : j >= i) => stream[i].n = Succ(Read(k))
             /\ (\A j \in NotesOf(k) : j <= i) => stream[i].n = sent[k]
             /\ \A j \in NotesOf(k) :
                  i < j /\ (\A m \in NotesOf(k) : m <= i \/ m >= j) => stream[j].n = Succ(stream[i].n)

Links(k) == NilLast(k) /\ QueueLinked(k) /\ FwdLinked(k) /\ StreamLinked(k)
OrderInv == ListenEnds /\ \A k \in Kinds \ {"headers"} : Links(k)

\* The kinds whose notifications all go to the client.
Told == Kinds \ {"headers"}

\* The pipeline of kind k is left alone.
PipeAlone(k) ==
    /\ fwd'[k] = fwd[k] /\ held'[k] = held[k] /\ q'[k] = q[k]
    /\ qpc'[k] = qpc[k] /\ item'[k] = item[k] /\ last'[k] = last[k]

LEMMA LinksAlone ==
    ASSUME NEW k \in Kinds, Links(k), PipeAlone(k),
           UNCHANGED <<stream, sent, open, listen, note, notifyClosed>>
    PROVE  Links(k)'
  <1>1. NotesOf(k)' = NotesOf(k) /\ Taken(k)' = Taken(k) /\ Queued(k)' = Queued(k)
    BY DEF NotesOf, Taken, Queued, PipeAlone
  <1>2. Received(k)' = Received(k) /\ Read(k)' = Read(k)
    BY <1>1 DEF Received, Read, PipeAlone
  <1>3. NilLast(k)' /\ QueueLinked(k)' /\ FwdLinked(k)'
    BY <1>1, <1>2 DEF Links, NilLast, QueueLinked, FwdLinked, PipeAlone
  <1>4. StreamLinked(k)'
    BY <1>1, <1>2 DEF Links, StreamLinked
  <1> QED BY <1>3, <1>4 DEF Links

\* An action of somebody else.
LEMMA OrderElsewhere ==
    ASSUME OrderInv, UNCHANGED <<pipe, stream, sent, open, lst>>, ctx => ctx'
    PROVE  OrderInv'
  <1>1. ListenEnds'
    BY DEF OrderInv, ListenEnds, lst
  <1>2. ASSUME NEW k \in Told PROVE Links(k)'
    BY <1>2, LinksAlone DEF OrderInv, Told, PipeAlone, pipe, lst
  <1> QED BY <1>1, <1>2 DEF OrderInv, Told

\* What comes before the stream stays as it is.
LEMMA BeforeStream ==
    ASSUME NEW k \in Kinds, Links(k), UNCHANGED pipe, notifyClosed => notifyClosed',
           \/ UNCHANGED <<listen, note>>
           \/ listen # "push" /\ listen' # "push"
    PROVE  Read(k)' = Read(k) /\ NilLast(k)' /\ QueueLinked(k)' /\ FwdLinked(k)'
  <1>1. Taken(k)' = Taken(k) /\ Queued(k)' = Queued(k) /\ Received(k)' = Received(k)
    BY DEF Taken, Queued, Received, pipe
  <1>2. Read(k)' = Read(k)
    BY <1>1 DEF Read
  <1>3. QueueLinked(k)' /\ FwdLinked(k)'
    BY <1>1 DEF Links, QueueLinked, FwdLinked, pipe
  <1>4. NilLast(k)'
    BY DEF Links, NilLast, pipe
  <1> QED BY <1>2, <1>3, <1>4

\* An answer goes to the end of the stream.
LEMMA AnswerLinks ==
    ASSUME TypeOK, OrderInv, NEW r \in asked, Answer(r)
    PROVE  OrderInv'
  <1>0. stream \in Seq(Responses \cup Notifications)
    BY DEF TypeOK, TypeConn
  <1>1. /\ Len(stream') = Len(stream) + 1
        /\ \A j \in 1..Len(stream) : stream'[j] = stream[j]
        /\ stream'[Len(stream) + 1].is = "response"
    BY <1>0 DEF Answer, Response
  <1>2. UNCHANGED <<pipe, sent, open, listen, note, notifyClosed, ctx>>
    BY DEF Answer, conn, lst
  <1>3. ASSUME NEW k \in Told PROVE Links(k)'
    <2>0. k \in Kinds /\ Links(k)
      BY <1>3 DEF Told, OrderInv
    <2>1. NotesOf(k)' = NotesOf(k)
      BY <1>0, <1>1 DEF NotesOf
    <2>2. \A i \in NotesOf(k) : stream'[i] = stream[i]
      BY <1>1 DEF NotesOf
    <2>3. Read(k)' = Read(k) /\ NilLast(k)' /\ QueueLinked(k)' /\ FwdLinked(k)'
      BY <1>2, <2>0, BeforeStream
    <2>4. StreamLinked(k)'
      BY <1>2, <2>0, <2>1, <2>2, <2>3 DEF Links, StreamLinked
    <2> QED BY <2>3, <2>4 DEF Links
  <1> QED BY <1>2, <1>3 DEF OrderInv, ListenEnds, Told

\* A notification follows the one sent before it.
LEMMA NotifyLinks ==
    ASSUME TypeOK, OrderInv, NEW l \in Kinds, Notify(l)
    PROVE  OrderInv'
  <1>0. stream \in Seq(Responses \cup Notifications) /\ sent \in [Kinds -> Items]
    BY DEF TypeOK, TypeConn
  <1> DEFINE e == Len(stream) + 1
  <1>1. /\ Len(stream') = e /\ e \in Nat
        /\ \A j \in 1..Len(stream) : stream'[j] = stream[j] /\ j < e
        /\ stream'[e] = Notification(l, sent'[l])
    BY <1>0 DEF Notify
  <1>2. UNCHANGED <<pipe, open, listen, note, notifyClosed, ctx>>
    BY DEF Notify, conn, lst
  <1>3. sent'[l] = Succ(sent[l]) /\ \A k \in Kinds : k # l => sent'[k] = sent[k]
    BY <1>0 DEF Notify, Succ
  <1>4. ASSUME NEW k \in Told PROVE Links(k)'
    <2>0. k \in Kinds /\ Links(k)
      BY <1>4 DEF Told, OrderInv
    <2>1. NotesOf(k)' = IF k = l THEN NotesOf(k) \cup {e} ELSE NotesOf(k)
      BY <1>0, <1>1 DEF NotesOf, Notification
    <2>2. \A i \in NotesOf(k) : stream'[i] = stream[i] /\ i < e /\ i \in Nat
      BY <1>0, <1>1 DEF NotesOf
    <2>3. Read(k)' = Read(k) /\ NilLast(k)' /\ QueueLinked(k)' /\ FwdLinked(k)'
      BY <1>2, <2>0, BeforeStream
    <2>4. StreamLinked(k)'
      <3>1. CASE k # l
        BY <1>2, <1>3, <2>0, <2>1, <2>2, <2>3, <3>1 DEF Links, StreamLinked
      <3>2. CASE k = l
        <4> HIDE DEF e
        <4>1. stream'[e].n = sent'[k] /\ sent'[k] = Succ(sent[k]) /\ NotesOf(k)' = NotesOf(k) \cup {e}
          BY <1>1, <1>3, <2>1, <3>2 DEF Notification
        <4> SUFFICES ASSUME open, ~notifyClosed
                     PROVE  StreamLinked(k)'
          BY <1>2 DEF StreamLinked
        <4>2. NotesOf(k)' # {}
          BY <4>1
        <4>3. ASSUME NEW i \in NotesOf(k)', \A j \in NotesOf(k)' : j >= i
              PROVE  stream'[i].n = Succ(Read(k)')
          <5>1. CASE NotesOf(k) = {}
            <6>1. i = e /\ sent[k] = Read(k)
              BY <2>0, <4>1, <5>1 DEF Links, StreamLinked
            <6> QED BY <2>3, <4>1, <6>1
          <5>2. CASE NotesOf(k) # {}
            <6>1. i \in NotesOf(k) /\ \A j \in NotesOf(k) : j >= i
              BY <1>1, <2>2, <4>1, <4>3, <5>2
            <6> QED BY <2>0, <2>2, <2>3, <6>1 DEF Links, StreamLinked
          <5> QED BY <5>1, <5>2
        <4>4. ASSUME NEW i \in NotesOf(k)', \A j \in NotesOf(k)' : j <= i
              PROVE  stream'[i].n = sent'[k]
          <5>1. i = e
            BY <1>1, <2>2, <4>1, <4>4
          <5> QED BY <4>1, <5>1
        <4>5. ASSUME NEW i \in NotesOf(k)', NEW j \in NotesOf(k)', i < j,
                     \A m \in NotesOf(k)' : m <= i \/ m >= j
              PROVE  stream'[j].n = Succ(stream'[i].n)
          <5>0. i \in NotesOf(k)
            BY <1>1, <2>2, <4>1, <4>5
          <5>1. CASE j = e
            <6>1. \A m \in NotesOf(k) : m <= i
              BY <1>1, <2>2, <4>1, <4>5, <5>1
            <6>2. stream[i].n = sent[k]
              BY <2>0, <5>0, <6>1 DEF Links, StreamLinked
            <6> QED BY <2>2, <4>1, <5>0, <5>1, <6>2
          <5>2. CASE j # e
            <6>1. j \in NotesOf(k) /\ \A m \in NotesOf(k) : m <= i \/ m >= j
              BY <4>1, <4>5, <5>2
            <6> QED BY <2>0, <2>2, <4>5, <5>0, <6>1 DEF Links, StreamLinked
          <5> QED BY <5>1, <5>2
        <4> QED BY <4>2, <4>3, <4>4, <4>5 DEF StreamLinked
      <3> QED BY <3>1, <3>2
    <2> QED BY <2>3, <2>4 DEF Links
  <1> QED BY <1>2, <1>4 DEF OrderInv, ListenEnds, Told

\* listen takes the first of the stream.
LEMMA ReadLinks ==
    ASSUME TypeOK, OrderInv, ReadResponse \/ ReadNotification
    PROVE  OrderInv'
  <1>0. stream \in Seq(Responses \cup Notifications) /\ stream # <<>> /\ Len(stream) \in Nat
    BY DEF TypeOK, TypeConn, ReadResponse, ReadNotification
  <1>1. /\ Len(stream') = Len(stream) - 1
        /\ \A j \in 1..Len(stream') : j + 1 \in 1..Len(stream) /\ stream'[j] = stream[j + 1]
        /\ 1 \in 1..Len(stream) /\ Head(stream) = stream[1]
    BY <1>0 DEF ReadResponse, ReadNotification
  <1>2. /\ UNCHANGED <<pipe, open, notifyClosed, ctx, sent>>
        /\ open /\ listen = "read" /\ ~notifyClosed /\ listen' \in {"check", "push"}
    BY DEF ReadResponse, ReadNotification, conn, OrderInv, ListenEnds
  <1>3. ASSUME NEW k \in Told PROVE Links(k)'
    <2>0. k \in Kinds /\ Links(k)
      BY <1>3 DEF Told, OrderInv
    <2>1. \A i : i \in NotesOf(k)' <=> i \in Nat \ {0} /\ i + 1 \in NotesOf(k)
      BY <1>0, <1>1 DEF NotesOf
    <2>2. \A i \in NotesOf(k)' : stream'[i] = stream[i + 1]
      BY <1>1 DEF NotesOf
    <2>3. NotesOf(k) \subseteq Nat \ {0} /\ NotesOf(k)' \subseteq Nat \ {0}
      BY <1>0, <1>1 DEF NotesOf
    <2>a. \A m \in NotesOf(k) : m = 1 \/ (m - 1 \in NotesOf(k)' /\ (m - 1) + 1 = m)
      BY <2>1, <2>3
    <2>4. Taken(k)' = Taken(k) /\ Queued(k)' = Queued(k) /\ Received(k)' = Received(k)
      BY <1>2 DEF Taken, Queued, Received, pipe
    <2>5. NilLast(k)' /\ QueueLinked(k)'
      BY <1>2, <2>0, <2>4 DEF Links, NilLast, QueueLinked, pipe
    <2>6. Read(k) = Received(k)
      BY <1>2 DEF Read
    <2>7. CASE 1 \notin NotesOf(k)
      <3>0. ~(listen' = "push" /\ note'.kind = k)
        BY <1>1, <2>7 DEF ReadResponse, ReadNotification, NotesOf
      <3>1. Read(k)' = Read(k) /\ FwdLinked(k)'
        BY <1>2, <2>0, <2>4, <2>6, <3>0 DEF Read, Links, FwdLinked, pipe
      <3>a. \A m \in NotesOf(k) : m - 1 \in NotesOf(k)' /\ (m - 1) + 1 = m
        BY <2>a, <2>7
      <3>2. NotesOf(k)' = {} => sent[k] = Read(k)
        BY <1>2, <2>0, <3>a DEF Links, StreamLinked
      <3>3. ASSUME NEW i \in NotesOf(k)', \A j \in NotesOf(k)' : j >= i
            PROVE  stream'[i].n = Succ(Read(k))
        <4>1. i + 1 \in NotesOf(k) /\ \A j \in NotesOf(k) : j >= i + 1
          BY <2>1, <2>3, <3>a, <3>3
        <4> QED BY <1>2, <2>0, <2>2, <4>1 DEF Links, StreamLinked
      <3>4. ASSUME NEW i \in NotesOf(k)', \A j \in NotesOf(k)' : j <= i
            PROVE  stream'[i].n = sent[k]
        <4>1. i + 1 \in NotesOf(k) /\ \A j \in NotesOf(k) : j <= i + 1
          BY <2>1, <2>3, <3>a, <3>4
        <4> QED BY <1>2, <2>0, <2>2, <4>1 DEF Links, StreamLinked
      <3>5. ASSUME NEW i \in NotesOf(k)', NEW j \in NotesOf(k)', i < j,
                   \A m \in NotesOf(k)' : m <= i \/ m >= j
            PROVE  stream'[j].n = Succ(stream'[i].n)
        <4>1. /\ i + 1 \in NotesOf(k) /\ j + 1 \in NotesOf(k) /\ i + 1 < j + 1
              /\ \A m \in NotesOf(k) : m <= i + 1 \/ m >= j + 1
          BY <2>1, <2>3, <3>a, <3>5
        <4> QED BY <1>2, <2>0, <2>2, <4>1 DEF Links, StreamLinked
      <3>6. StreamLinked(k)'
        BY <1>2, <3>1, <3>2, <3>3, <3>4, <3>5 DEF StreamLinked
      <3> QED BY <2>5, <3>1, <3>6 DEF Links
    <2>8. CASE 1 \in NotesOf(k)
      <3>0. listen' = "push" /\ note' = stream[1] /\ note'.kind = k
        BY <1>1, <2>8 DEF ReadResponse, ReadNotification, NotesOf
      <3>1. Read(k)' = stream[1].n
        BY <3>0 DEF Read
      <3>2. stream[1].n = Succ(Received(k))
        <4>1. \A j \in NotesOf(k) : j >= 1
          BY <2>3
        <4> QED BY <1>2, <2>0, <2>6, <2>8, <4>1 DEF Links, StreamLinked
      <3>3. FwdLinked(k)'
        BY <1>2, <2>0, <2>4, <3>0, <3>2 DEF Links, FwdLinked, pipe
      <3>4. NotesOf(k)' = {} => sent[k] = stream[1].n
        <4> SUFFICES ASSUME NotesOf(k)' = {} PROVE sent[k] = stream[1].n
          OBVIOUS
        <4>1. \A j \in NotesOf(k) : j <= 1
          BY <2>a
        <4> QED BY <1>2, <2>0, <2>8, <4>1 DEF Links, StreamLinked
      <3>5. ASSUME NEW i \in NotesOf(k)', \A j \in NotesOf(k)' : j >= i
            PROVE  stream'[i].n = Succ(stream[1].n)
        <4>1. i + 1 \in NotesOf(k) /\ 1 < i + 1 /\ \A m \in NotesOf(k) : m <= 1 \/ m >= i + 1
          BY <2>1, <2>3, <2>a, <3>5
        <4> QED BY <1>2, <2>0, <2>2, <2>8, <4>1 DEF Links, StreamLinked
      <3>6. ASSUME NEW i \in NotesOf(k)', \A j \in NotesOf(k)' : j <= i
            PROVE  stream'[i].n = sent[k]
        <4>1. i + 1 \in NotesOf(k) /\ \A j \in NotesOf(k) : j <= i + 1
          BY <2>1, <2>3, <2>a, <3>6
        <4> QED BY <1>2, <2>0, <2>2, <4>1 DEF Links, StreamLinked
      <3>7. ASSUME NEW i \in NotesOf(k)', NEW j \in NotesOf(k)', i < j,
                   \A m \in NotesOf(k)' : m <= i \/ m >= j
            PROVE  stream'[j].n = Succ(stream'[i].n)
        <4>1. /\ i + 1 \in NotesOf(k) /\ j + 1 \in NotesOf(k) /\ i + 1 < j + 1
              /\ \A m \in NotesOf(k) : m <= i + 1 \/ m >= j + 1
          BY <2>1, <2>3, <2>a, <3>7
        <4> QED BY <1>2, <2>0, <2>2, <4>1 DEF Links, StreamLinked
      <3>8. StreamLinked(k)'
        BY <1>2, <3>1, <3>4, <3>5, <3>6, <3>7 DEF StreamLinked
      <3> QED BY <2>5, <3>3, <3>8 DEF Links
    <2> QED BY <2>7, <2>8
  <1>4. ListenEnds'
    BY <1>2 DEF ListenEnds
  <1> QED BY <1>3, <1>4 DEF OrderInv, Told

\* The other steps of listen, and the closer.
LEMMA ListenLinks ==
    ASSUME TypeOK, OrderInv,
           Check \/ ReadFails \/ ReadReset \/ CloseNotify \/ CancelRequests \/ Closer
    PROVE  OrderInv'
  <1>0. /\ UNCHANGED <<pipe, sent>> /\ (ctx => ctx') /\ (open' => open)
        /\ notifyClosed => notifyClosed'
        /\ \/ UNCHANGED <<listen, note, notifyClosed>>
           \/ listen # "push" /\ listen' # "push"
        /\ open' => UNCHANGED stream
    BY DEF Check, ReadFails, ReadReset, CloseNotify, CancelRequests, Closer, conn, srv, lst,
           TypeOK, TypeConn
  <1>1. ListenEnds'
    BY DEF OrderInv, ListenEnds, Check, ReadFails, ReadReset, CloseNotify, CancelRequests, Closer,
           conn, lst
  <1>2. ASSUME NEW k \in Told PROVE Links(k)'
    <2>0. k \in Kinds /\ Links(k)
      BY <1>2 DEF Told, OrderInv
    <2>2. Read(k)' = Read(k) /\ NilLast(k)' /\ QueueLinked(k)' /\ FwdLinked(k)'
      BY <1>0, <2>0, BeforeStream
    <2>5. StreamLinked(k)'
      <3> SUFFICES ASSUME open', ~notifyClosed' PROVE StreamLinked(k)'
        BY DEF StreamLinked
      <3>1. NotesOf(k)' = NotesOf(k) /\ UNCHANGED <<stream, sent>> /\ open /\ ~notifyClosed
        BY <1>0 DEF NotesOf
      <3> QED BY <2>0, <2>2, <3>1 DEF Links, StreamLinked
    <2> QED BY <2>2, <2>5 DEF Links
  <1> QED BY <1>1, <1>2 DEF OrderInv, Told

\* The stream, when the newest notification that listen has read is the same.
LEMMA StreamAlone ==
    ASSUME NEW k \in Kinds, Links(k), UNCHANGED <<stream, sent, open, notifyClosed>>,
           notifyClosed \/ Read(k)' = Read(k)
    PROVE  StreamLinked(k)'
  <1>1. NotesOf(k)' = NotesOf(k)
    BY DEF NotesOf
  <1> QED BY <1>1 DEF Links, StreamLinked

\* The goroutine that fills qchan.
LEMMA FwdLinks ==
    ASSUME TypeOK, OrderInv, NEW k \in Told, FwdCheck(k) \/ FwdLeave(k) \/ FwdRecv(k) \/ FwdPut(k)
    PROVE  Links(k)'
  <1>0. k \in Kinds /\ Links(k) /\ ListenEnds /\ TypePipe /\ TypeConn
    BY DEF Told, OrderInv, TypeOK
  <1>1. UNCHANGED <<stream, sent, open, notifyClosed>> /\ qpc'[k] = qpc[k] /\ item'[k] = item[k]
        /\ last'[k] = last[k]
    BY DEF FwdCheck, FwdLeave, FwdRecv, FwdPut, conn, srv, lst
  <1>2. Taken(k)' = Taken(k)
    BY <1>1 DEF Taken
  <1>3. CASE FwdCheck(k) \/ FwdLeave(k)
    <2>1. /\ q'[k] = q[k] /\ held'[k] = held[k] /\ UNCHANGED <<listen, note>>
          /\ fwd[k] # "put" /\ fwd'[k] # "put" /\ (ctx => fwd'[k] # "recv")
      BY <1>0, <1>3 DEF FwdCheck, FwdLeave, lst, TypePipe
    <2>2. Queued(k)' = Queued(k)
      BY <1>2, <2>1 DEF Queued
    <2>3. Received(k)' = Received(k) /\ Read(k)' = Read(k)
      BY <2>1, <2>2 DEF Received, Read
    <2>4. NilLast(k)'
      BY <1>0, <1>1, <2>1 DEF Links, NilLast, ListenEnds
    <2>5. QueueLinked(k)' /\ FwdLinked(k)'
      BY <1>0, <1>1, <1>2, <2>1, <2>2, <2>3 DEF Links, QueueLinked, FwdLinked
    <2> QED BY <1>0, <1>1, <2>3, <2>4, <2>5, StreamAlone DEF Links
  <1>4. CASE FwdRecv(k)
    <2>1. q'[k] = q[k] /\ fwd[k] = "recv" /\ fwd'[k] = "put"
      BY <1>0, <1>4 DEF FwdRecv, TypePipe
    <2>2. Queued(k)' = Queued(k) /\ Received(k) = Queued(k) /\ Received(k)' = held'[k]
      BY <1>2, <2>1 DEF Queued, Received
    <2>3. QueueLinked(k)'
      BY <1>0, <1>1, <1>2, <2>1 DEF Links, QueueLinked
    <2>4. \A i \in 1..Len(q[k]) : q[k][i] # Nil
      BY <1>0, <2>1 DEF Links, NilLast
    <2>5. CASE listen = "push" /\ note.kind = k /\ held' = [held EXCEPT ![k] = note.n] /\ listen' = "check"
      <3>1. held'[k] = note.n /\ note.n \in Numbers
        BY <1>0, <2>5 DEF TypePipe, TypeConn, Notifications
      <3>2. Read(k)' = Read(k)
        BY <2>2, <2>5, <3>1 DEF Read
      <3>3. held'[k] # Nil
        BY <3>1, ConstantsAssumption DEF Numbers, Nil
      <3>4. NilLast(k)'
        BY <2>1, <2>4, <3>3 DEF NilLast
      <3>5. FwdLinked(k)'
        BY <1>0, <2>2, <2>5, <3>1 DEF Links, FwdLinked
      <3> QED BY <1>0, <1>1, <2>3, <3>2, <3>4, <3>5, StreamAlone DEF Links
    <2>6. CASE notifyClosed /\ held' = [held EXCEPT ![k] = Nil] /\ UNCHANGED <<listen, note>>
      <3>1. held'[k] = Nil /\ listen # "push"
        BY <1>0, <2>6 DEF TypePipe, ListenEnds
      <3>2. NilLast(k)' /\ FwdLinked(k)'
        BY <1>1, <2>1, <2>4, <2>6, <3>1 DEF NilLast, FwdLinked
      <3> QED BY <1>0, <1>1, <2>3, <2>6, <3>2, StreamAlone DEF Links
    <2> QED BY <1>4, <2>5, <2>6 DEF FwdRecv
  <1>5. CASE FwdPut(k)
    <2>0. q[k] \in Seq(Items) /\ held[k] \in Items /\ Len(q[k]) \in Nat
      BY <1>0 DEF TypePipe
    <2>1. /\ fwd[k] = "put" /\ fwd'[k] = "check" /\ UNCHANGED <<listen, note>>
          /\ q'[k] = Append(q[k], held[k])
      BY <1>0, <1>5 DEF FwdPut, Enqueued, lst, TypePipe
    <2>2. /\ Len(q'[k]) = Len(q[k]) + 1 /\ q'[k] # <<>>
          /\ \A i \in 1..Len(q[k]) : q'[k][i] = q[k][i]
          /\ q'[k][Len(q[k]) + 1] = held[k]
      BY <2>0, <2>1
    <2>3. Queued(k)' = held[k] /\ Received(k)' = held[k] /\ Received(k) = held[k]
      BY <2>1, <2>2 DEF Queued, Received
    <2>4. Read(k)' = Read(k)
      BY <2>1, <2>3 DEF Read
    <2>5. \A i \in 1..Len(q[k]) : q[k][i] # Nil
      BY <1>0, <2>1 DEF Links, NilLast
    <2>6. NilLast(k)'
      <3>1. ASSUME NEW i \in 1..Len(q'[k]), q'[k][i] = Nil
            PROVE  i = Len(q'[k]) /\ notifyClosed'
        <4>1. i = Len(q[k]) + 1 /\ held[k] = Nil
          BY <2>0, <2>2, <2>5, <3>1
        <4> QED BY <1>0, <1>1, <2>1, <2>2, <4>1 DEF Links, NilLast
      <3> QED BY <2>1, <3>1 DEF NilLast
    <2>7. QueueLinked(k)'
      <3>1. q'[k][1] # Nil => q'[k][1] = Succ(Taken(k))
        <4>1. CASE q[k] = <<>>
          <5>1. q'[k][1] = held[k] /\ Queued(k) = Taken(k)
            BY <2>0, <2>2, <4>1 DEF Queued
          <5> QED BY <1>0, <2>1, <5>1 DEF Links, FwdLinked
        <4>2. CASE q[k] # <<>>
          <5>1. 1 \in 1..Len(q[k])
            BY <2>0, <4>2
          <5> QED BY <1>0, <2>2, <4>2, <5>1 DEF Links, QueueLinked
        <4> QED BY <4>1, <4>2
      <3>2. ASSUME NEW i \in 1..(Len(q'[k]) - 1), q'[k][i + 1] # Nil
            PROVE  q'[k][i + 1] = Succ(q'[k][i])
        <4>0. i \in 1..Len(q[k]) /\ q'[k][i] = q[k][i]
          BY <2>0, <2>2
        <4>1. CASE i = Len(q[k])
          <5>1. q[k] # <<>> /\ Queued(k) = q[k][i]
            BY <2>0, <4>0, <4>1 DEF Queued
          <5> QED BY <1>0, <2>1, <2>2, <3>2, <4>0, <4>1, <5>1 DEF Links, FwdLinked
        <4>2. CASE i # Len(q[k])
          <5>0. i \in 1..(Len(q[k]) - 1) /\ i + 1 \in 1..Len(q[k])
            BY <2>0, <4>0, <4>2
          <5>1. i \in 1..(Len(q[k]) - 1) /\ q'[k][i + 1] = q[k][i + 1]
            BY <2>2, <5>0
          <5> QED BY <1>0, <3>2, <4>0, <5>1 DEF Links, QueueLinked
        <4> QED BY <4>1, <4>2
      <3> QED BY <1>0, <1>1, <1>2, <3>1, <3>2 DEF Links, QueueLinked
    <2>8. FwdLinked(k)'
      BY <1>0, <2>1, <2>3 DEF Links, FwdLinked
    <2> QED BY <1>0, <1>1, <2>4, <2>6, <2>7, <2>8, StreamAlone DEF Links
  <1> QED BY <1>3, <1>4, <1>5

\* The goroutine that empties qchan, up to the client.
LEMMA QueueLinks ==
    ASSUME TypeOK, OrderInv, NEW k \in Told,
           QueueCheck(k) \/ QueueTake(k) \/ QueueClosed(k) \/ QueueSend(k)
    PROVE  Links(k)'
  <1>0. k \in Kinds /\ Links(k) /\ ListenEnds /\ TypePipe /\ TypeConn
    BY DEF Told, OrderInv, TypeOK
  <1>1. /\ UNCHANGED <<stream, sent, open, listen, note, notifyClosed>>
        /\ fwd'[k] = fwd[k] /\ held'[k] = held[k]
    BY DEF QueueCheck, QueueTake, QueueClosed, QueueSend, conn, srv, lst
  <1>2. CASE QueueCheck(k) \/ QueueClosed(k) \/ QueueSend(k)
    <2>1. q'[k] = q[k] /\ qpc'[k] \in {"take", "check", "ended"}
      BY <1>0, <1>2 DEF QueueCheck, QueueClosed, QueueSend, TypePipe
    <2>2. Taken(k)' = Taken(k)
      BY <1>0, <1>2, <2>1 DEF QueueCheck, QueueClosed, QueueSend, TypePipe, Taken, Links, QueueLinked
    <2>3. Queued(k)' = Queued(k)
      BY <2>1, <2>2 DEF Queued
    <2>4. Received(k)' = Received(k) /\ Read(k)' = Read(k)
      BY <1>1, <2>3 DEF Received, Read
    <2>5. NilLast(k)' /\ QueueLinked(k)' /\ FwdLinked(k)'
      BY <1>0, <1>1, <2>1, <2>2, <2>3, <2>4 DEF Links, NilLast, QueueLinked, FwdLinked
    <2> QED BY <1>0, <1>1, <2>4, <2>5, StreamAlone DEF Links
  <1>3. CASE QueueTake(k)
    <2>0. q[k] \in Seq(Items) /\ q[k] # <<>> /\ Len(q[k]) \in Nat
      BY <1>0, <1>3 DEF TypePipe, QueueTake
    <2>1. /\ q'[k] = Tail(q[k]) /\ qpc[k] = "take" /\ item'[k] = Head(q[k]) /\ last'[k] = last[k]
          /\ qpc'[k] = IF Head(q[k]) = Nil THEN "ended" ELSE "send"
      BY <1>0, <1>3 DEF TypePipe, QueueTake
    <2>2. /\ Len(q'[k]) = Len(q[k]) - 1 /\ q'[k] \in Seq(Items)
          /\ \A i \in 1..Len(q'[k]) : i + 1 \in 1..Len(q[k]) /\ q'[k][i] = q[k][i + 1]
          /\ 1 \in 1..Len(q[k]) /\ Head(q[k]) = q[k][1]
      BY <2>0, <2>1
    <2>3. NilLast(k)'
      BY <1>0, <1>1, <2>2 DEF Links, NilLast
    <2>4. CASE q[k][1] = Nil
      <3>1. q'[k] = <<>> /\ notifyClosed /\ fwd[k] \notin {"recv", "put"} /\ listen # "push"
        BY <1>0, <2>2, <2>4 DEF Links, NilLast, ListenEnds
      <3>2. FwdLinked(k)'
        BY <1>1, <3>1 DEF FwdLinked
      <3>3. Len(q'[k]) = 0 /\ qpc'[k] = "ended"
        BY <2>1, <2>2, <2>4, <3>1
      <3>4. QueueLinked(k)'
        BY <3>1, <3>3 DEF QueueLinked
      <3> QED BY <1>0, <1>1, <2>3, <3>1, <3>2, <3>4, StreamAlone DEF Links
    <2>5. CASE q[k][1] # Nil
      <3>0. qpc'[k] = "send" /\ Taken(k) = last[k] /\ Taken(k)' = q[k][1]
        BY <2>1, <2>2, <2>5 DEF Taken
      <3>1. Queued(k)' = Queued(k)
        <4>1. CASE q'[k] = <<>>
          <5>1. Len(q[k]) = 1
            BY <2>0, <2>2, <4>1
          <5> QED BY <2>0, <3>0, <4>1, <5>1 DEF Queued
        <4>2. CASE q'[k] # <<>>
          <5>1. Len(q'[k]) \in 1..Len(q'[k])
            BY <2>0, <2>2, <4>2
          <5>2. q'[k][Len(q'[k])] = q[k][Len(q[k])]
            BY <2>0, <2>2, <5>1
          <5> QED BY <2>0, <4>2, <5>2 DEF Queued
        <4> QED BY <4>1, <4>2
      <3>2. Received(k)' = Received(k) /\ Read(k)' = Read(k)
        BY <1>1, <3>1 DEF Received, Read
      <3>3. FwdLinked(k)'
        BY <1>0, <1>1, <3>1, <3>2 DEF Links, FwdLinked
      <3>4. item'[k] = Succ(last'[k])
        BY <1>0, <2>0, <2>1, <2>2, <2>5, <3>0 DEF Links, QueueLinked
      <3>5. q'[k] # <<>> /\ q'[k][1] # Nil => q'[k][1] = Succ(Taken(k)')
        <4> SUFFICES ASSUME q'[k] # <<>>, q'[k][1] # Nil PROVE q'[k][1] = Succ(q[k][1])
          BY <3>0
        <4>1. 1 \in 1..Len(q'[k]) /\ 1 \in 1..(Len(q[k]) - 1) /\ q'[k][1] = q[k][1 + 1]
          BY <2>0, <2>2
        <4> QED BY <1>0, <4>1 DEF Links, QueueLinked
      <3>6. ASSUME NEW i \in 1..(Len(q'[k]) - 1), q'[k][i + 1] # Nil
            PROVE  q'[k][i + 1] = Succ(q'[k][i])
        <4>0. i \in 1..Len(q'[k]) /\ i + 1 \in 1..Len(q'[k]) /\ i + 1 \in 1..(Len(q[k]) - 1)
          BY <2>0, <2>2
        <4>1. q'[k][i] = q[k][i + 1] /\ q'[k][i + 1] = q[k][(i + 1) + 1]
          BY <2>2, <4>0
        <4> QED BY <1>0, <3>6, <4>0, <4>1 DEF Links, QueueLinked
      <3>7. QueueLinked(k)'
        BY <3>0, <3>4, <3>5, <3>6 DEF QueueLinked
      <3> QED BY <1>0, <1>1, <2>3, <3>2, <3>3, <3>7, StreamAlone DEF Links
    <2> QED BY <2>4, <2>5
  <1> QED BY <1>2, <1>3

\* A pipeline and the others.
LEMMA PipelineLinks ==
    ASSUME TypeOK, OrderInv, (\E l \in Kinds : Pipeline(l)) \/ HeaderStep
    PROVE  OrderInv'
  <1>0. TypePipe /\ ListenEnds
    BY DEF TypeOK, OrderInv
  <1>1. ASSUME NEW l \in Kinds, Pipeline(l) PROVE OrderInv'
    <2>1. ListenEnds'
      BY <1>0, <1>1 DEF Pipeline, FwdCheck, FwdLeave, FwdRecv, FwdPut, QueueCheck, QueueTake,
                        QueueClosed, QueueSend, ListenEnds, conn, lst
    <2>2. ASSUME NEW k \in Told PROVE Links(k)'
      <3>0. k \in Kinds /\ Links(k)
        BY <2>2 DEF Told, OrderInv
      <3>1. CASE k = l
        BY <1>1, <2>2, <3>1, FwdLinks, QueueLinks DEF Pipeline
      <3>2. CASE k # l /\ ~FwdRecv(l)
        <4>1. UNCHANGED <<stream, sent, open, listen, note, notifyClosed>>
          BY <1>1, <3>2 DEF Pipeline, FwdCheck, FwdLeave, FwdPut, QueueCheck, QueueTake,
                            QueueClosed, QueueSend, conn, srv, lst
        <4>2. PipeAlone(k)
          BY <1>0, <1>1, <3>0, <3>2
             DEF Pipeline, FwdCheck, FwdLeave, FwdPut, QueueCheck, QueueTake,
                 QueueClosed, QueueSend, PipeAlone, TypePipe
        <4> QED BY <3>0, <4>1, <4>2, LinksAlone
      <3>3. CASE k # l /\ FwdRecv(l)
        <4>1. UNCHANGED <<stream, sent, open, notifyClosed>> /\ PipeAlone(k)
          BY <1>0, <3>0, <3>3 DEF FwdRecv, PipeAlone, TypePipe, conn, srv
        <4>2. \/ UNCHANGED <<listen, note>>
              \/ ~(listen = "push" /\ note.kind = k) /\ listen' # "push"
          BY <3>3 DEF FwdRecv
        <4>3. Taken(k)' = Taken(k) /\ Queued(k)' = Queued(k) /\ Received(k)' = Received(k)
          BY <4>1 DEF Taken, Queued, Received, PipeAlone
        <4>4. Read(k)' = Read(k)
          BY <4>2, <4>3 DEF Read
        <4>5. NilLast(k)' /\ QueueLinked(k)' /\ FwdLinked(k)'
          BY <3>0, <4>1, <4>2, <4>3 DEF Links, NilLast, QueueLinked, FwdLinked, PipeAlone
        <4> QED BY <3>0, <4>1, <4>4, <4>5, StreamAlone DEF Links
      <3> QED BY <3>1, <3>2, <3>3
    <2> QED BY <2>1, <2>2 DEF OrderInv, Told
  <1>2. ASSUME HeaderStep PROVE OrderInv'
    <2>1. UNCHANGED <<stream, sent, open, lst>> /\ (ctx => ctx')
      BY <1>2 DEF HeaderStep, HeaderSkipped, HeaderMisbehaves, HeaderAhead, HeadersAsked, conn, srv
    <2>2. ListenEnds'
      BY <1>0, <2>1 DEF ListenEnds, lst
    <2>3. ASSUME NEW k \in Told PROVE PipeAlone(k)
      BY <1>0, <1>2, <2>3 DEF HeaderStep, HeaderSkipped, HeaderMisbehaves, HeaderAhead, HeadersAsked,
                              PipeAlone, TypePipe, Told
    <2>4. ASSUME NEW k \in Told PROVE Links(k)'
      BY <2>1, <2>3, <2>4, LinksAlone DEF OrderInv, Told, lst
    <2> QED BY <2>2, <2>4 DEF OrderInv, Told
  <1> QED BY <1>1, <1>2

LEMMA OrderKept ==
    ASSUME TypeOK, OrderInv, [Next]_vars
    PROVE  OrderInv'
  <1>1. ASSUME UNCHANGED <<pipe, stream, sent, open, lst>>, ctx => ctx' PROVE OrderInv'
    BY <1>1, OrderElsewhere
  <1>2. CASE \E c \in Callers : Start(c) \/ Call(c)
    <2>1. PICK c \in Callers : Start(c) \/ Call(c)
      BY <1>2
    <2>2. CASE SendFails(c)
      BY <1>1, <2>2 DEF SendFails, srv
    <2>3. CASE Start(c) \/ Send(c) \/ Responded(c) \/ CtxDone(c) \/ Elsewhere(c)
      BY <1>1, <2>3 DEF Start, Send, Responded, CtxDone, Elsewhere, conn, srv
    <2>4. ASSUME NEW i \in Ids, Register(c, i) PROVE OrderInv'
      BY <1>1, <2>4 DEF Register, conn, srv
    <2> QED BY <2>1, <2>2, <2>3, <2>4 DEF Call
  <1>3. CASE (\E r \in asked : Forget(r)) \/ Fail \/ KeepAliveEnds \/ Cancel \/ Failover
    BY <1>1, <1>3 DEF Forget, Fail, KeepAliveEnds, Cancel, Failover, conn, srv
  <1>4. CASE UNCHANGED vars
    BY <1>1, <1>4 DEF vars, conn, srv
  <1>5. CASE \/ \E r \in asked : Answer(r)
             \/ \E k \in Kinds : Notify(k) \/ Pipeline(k)
             \/ HeaderStep \/ Listen \/ ReadReset \/ Closer
    BY <1>5, AnswerLinks, NotifyLinks, ReadLinks, ListenLinks, PipelineLinks DEF Listen
  <1> QED BY <1>2, <1>3, <1>4, <1>5 DEF Next

\* Only QueueSend tells the client of a notification, and what it tells is next.
LEMMA TellsNext ==
    ASSUME TypeOK, OrderInv, [Next]_vars, NEW k \in Kinds \ {"headers"}, last'[k] # last[k]
    PROVE  last'[k] = (last[k] + 1) % Turn
  <1>0. TypePipe /\ Links(k)
    BY DEF TypeOK, OrderInv
  <1>1. QueueSend(k)
    <2>1. ASSUME UNCHANGED last PROVE FALSE
      BY <2>1
    <2>2. CASE \E c \in Callers : Start(c) \/ Call(c)
      BY <2>1, <2>2 DEF Start, Call, Register, Send, SendFails, Responded, CtxDone, Elsewhere, pipe
    <2>3. CASE \/ \E r \in asked : Answer(r) \/ Forget(r)
               \/ \E l \in Kinds : Notify(l)
               \/ Fail \/ KeepAliveEnds \/ Cancel \/ Failover \/ Closer \/ ReadReset
      BY <2>1, <2>3 DEF Answer, Forget, Notify, Fail, KeepAliveEnds, Cancel, Failover, Closer,
                        ReadReset, pipe
    <2>4. CASE Listen
      BY <2>1, <2>4 DEF Listen, Check, ReadResponse, ReadNotification, ReadFails, CloseNotify,
                        CancelRequests, pipe
    <2>5. CASE HeaderStep
      BY <2>1, <2>5 DEF HeaderStep, HeaderSkipped, HeaderMisbehaves, HeaderAhead, HeadersAsked
    <2>6. CASE \E l \in Kinds : Pipeline(l)
      <3>1. PICK l \in Kinds : Pipeline(l)
        BY <2>6
      <3>2. QueueSend(l)
        BY <2>1, <3>1 DEF Pipeline, FwdCheck, FwdLeave, FwdRecv, FwdPut, QueueCheck, QueueTake,
                          QueueClosed
      <3> QED BY <1>0, <3>2 DEF QueueSend, TypePipe
    <2>7. CASE UNCHANGED vars
      BY <2>1, <2>7 DEF vars, pipe
    <2> QED BY <2>2, <2>3, <2>4, <2>5, <2>6, <2>7 DEF Next
  <1>2. last'[k] = item[k] /\ qpc[k] = "send"
    BY <1>0, <1>1 DEF QueueSend, TypePipe, Links, QueueLinked
  <1> QED BY <1>0, <1>2 DEF Links, QueueLinked, Succ

\* The client is told of the scripthash notifications in the order the server sent
\* them and of every one of them: for any capacity of qchan, any number of messages
\* under way, any schedule of listen and of the two goroutines of the pipeline, and
\* wherever the end of the connection finds them.
THEOREM NotificationsInOrder == Spec => InOrder
  <1>1. Init => OrderInv
    BY DEF Init, OrderInv, ListenEnds, Links, NilLast, QueueLinked, FwdLinked, StreamLinked,
           NotesOf, Read, Received, Queued, Taken
  <1>2. TypeOK /\ OrderInv /\ [Next]_vars => OrderInv'
    BY OrderKept
  <1>3. TypeOK /\ OrderInv /\ [Next]_vars =>
            [\A k \in Kinds \ {"headers"} :
               last'[k] # last[k] => last'[k] = (last[k] + 1) % Turn]_vars
    BY TellsNext
  <1> QED BY <1>1, <1>2, <1>3, TypeCorrect, PTL DEF Spec, InOrder
=============================================================================
