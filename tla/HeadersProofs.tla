--------------------------- MODULE HeadersProofs ---------------------------
(***************************************************************************)
(* Theorems about Headers, for every set of headers, every behaviour of    *)
(* the servers and every value of StartPoint, REWIND, ChunkSize and QDepth.*)
(***************************************************************************)
EXTENDS Headers, SequenceTheorems, TLAPS

USE ConstantsAssumption

\* An answer of a server is a sequence of headers.
LEMMA AnswersType ==
    ASSUME NEW h \in Int, NEW n \in Int, NEW s \in Answers(h, n)
    PROVE  s \in Seq(Hdr)
<1>1. CASE s = <<>>
  BY <1>1
<1>2. CASE s # <<>>
  <2>0. PICK c \in Chains : \E j \in (h - StartPoint + 1)..Len(c) :
           s = SubSeq(c, h - StartPoint + 1, j) /\ h - StartPoint + 1 >= 1
    BY <1>2 DEF Answers
  <2>1. PICK j \in (h - StartPoint + 1)..Len(c) :
           s = SubSeq(c, h - StartPoint + 1, j) /\ h - StartPoint + 1 >= 1
    BY <2>0
  <2>2. c \in Seq(Hdr)
    OBVIOUS
  <2>3. \A i \in (h - StartPoint + 1)..j : c[i] \in Hdr
    BY <2>1, <2>2
  <2>4. s = [i \in 1..(j - (h - StartPoint + 1) + 1) |->
               c[h - StartPoint + 1 + i - 1]]
    BY <2>1
  <2>5. \A i \in 1..(j - (h - StartPoint + 1) + 1) : s[i] \in Hdr
    BY <2>3, <2>4, <2>2
  <2>6. j - (h - StartPoint + 1) + 1 \in Nat
    BY <2>1, <2>2
  <2> QED BY <2>4, <2>5, <2>6
<1> QED BY <1>1, <1>2

\* A notification has a height and a header.
LEMMA NotificationsType == Notifications \subseteq Notification
<1> SUFFICES ASSUME NEW x \in Notifications PROVE x \in Notification
  OBVIOUS
<1>1. \A c \in Chains : Len(c) \in Nat /\ Len(c) >= 1 /\ \A i \in 1..Len(c) : c[i] \in Hdr
  OBVIOUS
<1>2. CASE \E c \in Chains : x = [height |-> StartPoint - 1, hdr |-> c[1]]
  BY <1>1, <1>2 DEF Notification
<1>3. CASE \E c \in Chains : \E i \in 1..Len(c) :
               x = [height |-> StartPoint + i - 1, hdr |-> c[i]]
  BY <1>1, <1>3 DEF Notification
<1> QED BY <1>2, <1>3 DEF Notifications

\* What the operations on qchan do.
LEMMA QueueType ==
    /\ <<>> \in Queue
    /\ \A x \in Notification : <<x>> \in Queue
    /\ \A s \in Queue : s # <<>> => Tail(s) \in Queue /\ Head(s) \in Notification
    /\ \A s \in Queue, x \in Notification : Len(s) < QDepth => Append(s, x) \in Queue
<1> USE DEF Queue
<1>1. <<>> \in Queue
  OBVIOUS
<1>2. \A x \in Notification : <<x>> \in Queue
  OBVIOUS
<1>3. \A s \in Queue : s # <<>> => Tail(s) \in Queue /\ Head(s) \in Notification
  OBVIOUS
<1>4. \A s \in Queue, x \in Notification : Len(s) < QDepth => Append(s, x) \in Queue
  OBVIOUS
<1> QED BY <1>1, <1>2, <1>3, <1>4

\* Cutting headers off the end of a sequence of headers.
LEMMA PrefixType ==
    ASSUME NEW s \in Seq(Hdr), NEW k \in Int, k <= Len(s)
    PROVE  /\ SubSeq(s, 1, k) \in Seq(Hdr)
           /\ Len(SubSeq(s, 1, k)) = IF k >= 0 THEN k ELSE 0
           /\ \A i \in 1..k : SubSeq(s, 1, k)[i] = s[i]
  BY SubSeqProperties

-----------------------------------------------------------------------------
\* A new process starts with the types it should have.
LEMMA RestartType == ASSUME TypeOK, Restart, file' \in Seq(Hdr), torn' \in BOOLEAN
                     PROVE  TypeOK'
<1>1. DOMAIN hdrs' \subseteq Int /\ \A h \in DOMAIN hdrs' : hdrs'[h] \in Hdr
  BY DEF Restart
<1>2. cur' \in [Nodes -> Hdr]
  BY DEF TypeOK, Restart
<1>3. q' \in [Nodes -> Queue] /\ rest' \in [Nodes -> Seq(Hdr)]
  BY QueueType DEF Restart
<1> QED BY <1>1, <1>2, <1>3 DEF TypeOK, Restart

\* Every step of the leader's goroutines keeps the types.
LEMMA WorkType == ASSUME TypeOK, NEW n \in Nodes, Work(n) PROVE TypeOK'
<1> USE DEF TypeOK, Goto, disk, mem, history, locals, Starting, Queueing
<1>1. CASE Gather(n)
  <2>1. PICK s \in Answers(nxt[n], ChunkSize), e \in CountError :
          /\ IF Len(s) + e > 0
             THEN /\ file' = file \o s
                  /\ upto' = [upto EXCEPT ![n] = @ + (Len(s) + e)]
                  /\ verified' = FALSE
             ELSE UNCHANGED <<file, upto, verified>>
          /\ IF Len(s) + e < ChunkSize
             THEN Goto(n, "load") /\ UNCHANGED nxt
             ELSE nxt' = [nxt EXCEPT ![n] = @ + ChunkSize] /\ UNCHANGED pc
    BY <1>1 DEF Gather
  <2>2. s \in Seq(Hdr)
    BY AnswersType
  <2>3. file' \in Seq(Hdr) /\ upto' \in [Nodes -> Int] /\ nxt' \in [Nodes -> Int]
    <3>0. file \o s \in Seq(Hdr)
      BY <2>2
    <3>1. file' \in Seq(Hdr)
      BY <2>1, <3>0
    <3>2. Len(s) + e \in Int
      BY <2>2
    <3>3. upto' \in [Nodes -> Int]
      BY <2>1, <3>2, SMTT(30)
    <3>4. nxt' \in [Nodes -> Int]
      BY <2>1, <3>2
    <3> QED BY <3>1, <3>3, <3>4
  <2>4. pc' \in [Nodes -> {"off"} \cup Starting \cup Queueing] /\ verified' \in BOOLEAN
    BY <2>1
  <2> QED BY <1>1, <2>3, <2>4 DEF Gather
<1>2. CASE Load(n)
  <2>1. DOMAIN hdrs' \subseteq Int /\ \A h \in DOMAIN hdrs' : hdrs'[h] \in Hdr
    BY <1>2 DEF Load, Heights
  <2> QED BY <1>2, <2>1 DEF Load
<1>3. CASE Verify(n)
  BY <1>3, RestartType DEF Verify
<1>4. CASE Subscribe(n)
  BY <1>4, NotificationsType, QueueType DEF Subscribe
<1>5. CASE SubscribeBehind(n)
  BY <1>5 DEF SubscribeBehind
<1>6. CASE QueueEnds(n)
  BY <1>6 DEF QueueEnds
<1>7. CASE Dequeue(n)
  <2>1. q' \in [Nodes -> Queue]
    BY <1>7, QueueType DEF Dequeue
  <2>2. Head(q[n]) \in Notification
    BY <1>7, QueueType DEF Dequeue
  <2>3. Head(q[n]).height \in Int /\ Head(q[n]).hdr \in Hdr
    BY <2>2 DEF Notification
  <2>4. pc' \in [Nodes -> {"off"} \cup Starting \cup Queueing]
    BY <1>7 DEF Dequeue
  <2>9. \/ UNCHANGED <<nxt, upto, rest>>
        \/ \E i, j \in Int :
             /\ nxt' = [nxt EXCEPT ![n] = i] /\ upto' = [upto EXCEPT ![n] = j]
             /\ rest' = [rest EXCEPT ![n] = <<>>]
    <3>1. tip + 1 \in Int /\ tip + 2 \in Int
      OBVIOUS
    <3> QED BY <1>7, <2>3, <3>1 DEF Dequeue
  <2>5. nxt' \in [Nodes -> Int] /\ upto' \in [Nodes -> Int]
    BY <2>9
  <2>6. cur' \in [Nodes -> Hdr]
    BY <1>7, <2>3 DEF Dequeue
  <2>7. got' \in [Nodes -> BOOLEAN] /\ live' \in [Nodes -> BOOLEAN]
    BY <1>7 DEF Dequeue
  <2>8. rest' \in [Nodes -> Seq(Hdr)]
    <3>1. <<>> \in Seq(Hdr)
      OBVIOUS
    <3>2. rest' = rest \/ rest' = [rest EXCEPT ![n] = <<>>]
      BY <2>9
    <3>3. rest \in [Nodes -> Seq(Hdr)]
      OBVIOUS
    <3> HIDE DEF TypeOK
    <3> QED BY <3>1, <3>2, <3>3
  <2> QED BY <1>7, <2>1, <2>4, <2>5, <2>6, <2>7, <2>8 DEF Dequeue
<1>8. CASE Fetch(n)
  BY <1>8, AnswersType DEF Fetch
<1>9. CASE FetchChunk(n)
  BY <1>9, AnswersType DEF FetchChunk
<1>10. CASE CheckCanConnect(n)
  BY <1>10, RestartType DEF CheckCanConnect, CanConnect
<1>11. CASE AppendHeadersFile(n)
  BY <1>11 DEF AppendHeadersFile
<1>12. CASE StoreOneHdr(n)
  <2>1. DOMAIN hdrs' \subseteq Int /\ \A h \in DOMAIN hdrs' : hdrs'[h] \in Hdr
    BY <1>12 DEF StoreOneHdr
  <2>2. cur' \in [Nodes -> Hdr] /\ rest' \in [Nodes -> Seq(Hdr)]
    <3>1. CASE rest[n] = <<>>
      BY <1>12, <3>1 DEF StoreOneHdr
    <3>2. CASE rest[n] # <<>>
      <4>1. Head(rest[n]) \in Hdr /\ Tail(rest[n]) \in Seq(Hdr)
        BY <3>2
      <4>2. cur' = [cur EXCEPT ![n] = Head(rest[n])] /\ rest' = [rest EXCEPT ![n] = Tail(rest[n])]
        BY <1>12, <3>2 DEF StoreOneHdr
      <4> QED BY <4>1, <4>2
    <3> QED BY <3>1, <3>2
  <2> QED BY <1>12, <2>1, <2>2 DEF StoreOneHdr
<1>13. CASE TruncateHeadersFile(n)
  <2>1. CASE synced
    <3>1. SubSeq(file, 1, Len(file) - REWIND) \in Seq(Hdr)
      BY PrefixType
    <3>2. /\ file' = SubSeq(file, 1, Len(file) - REWIND)
          /\ left' = [left EXCEPT ![n] = REWIND]
          /\ pc' = [pc EXCEPT ![n] = "remove"]
          /\ UNCHANGED <<torn, mem, history, live, q, nxt, upto, rest, cur, got, tip0>>
      BY <1>13, <2>1 DEF TruncateHeadersFile, TruncatedFile
    <3> QED BY <3>1, <3>2
  <2>2. CASE ~synced
    <3>1. Restart /\ file' \in Seq(Hdr) /\ torn' \in BOOLEAN
      BY <1>13, <2>2 DEF TruncateHeadersFile, TruncatedFile
    <3> QED BY <3>1, RestartType
  <2> QED BY <2>1, <2>2
<1>14. CASE RemoveOneHdrFromTip(n)
  <2>1. DOMAIN hdrs' \subseteq Int /\ \A h \in DOMAIN hdrs' : hdrs'[h] \in Hdr
    BY <1>14 DEF RemoveOneHdrFromTip
  <2>2. CASE left[n] > 1
    BY <1>14, <2>1, <2>2 DEF RemoveOneHdrFromTip
  <2>3. CASE ~(left[n] > 1)
    <3>1. pc' \in [Nodes -> {"off"} \cup Starting \cup Queueing]
      BY <1>14, <2>3 DEF RemoveOneHdrFromTip
    <3> QED BY <1>14, <2>1, <2>3, <3>1 DEF RemoveOneHdrFromTip
  <2> QED BY <2>2, <2>3
<1>15. CASE NotifyClient(n)
  BY <1>15 DEF NotifyClient
<1> QED BY <1>1, <1>2, <1>3, <1>4, <1>5, <1>6, <1>7, <1>8, <1>9, <1>10, <1>11,
           <1>12, <1>13, <1>14, <1>15 DEF Work
-----------------------------------------------------------------------------
\* Every step keeps the types.
LEMMA NextType == ASSUME TypeOK, [Next]_vars PROVE TypeOK'
<1> USE DEF TypeOK, Goto, disk, mem, history, locals, Starting, Queueing
<1>1. CASE UNCHANGED vars
  BY <1>1 DEF vars
<1>2. CASE Crash
  BY <1>2, RestartType DEF Crash
<1>3. ASSUME NEW n \in Nodes, BeginSync(n) PROVE TypeOK'
  BY <1>3 DEF BeginSync
<1>4. ASSUME NEW n \in Nodes, PromoteToLeader(n) PROVE TypeOK'
  BY <1>4 DEF PromoteToLeader
<1>5. ASSUME NEW n \in Nodes, Notified(n) PROVE TypeOK'
  BY <1>5, NotificationsType, QueueType DEF Notified, HasRoom
<1>6. ASSUME NEW n \in Nodes, Cancel(n) PROVE TypeOK'
  BY <1>6 DEF Cancel
<1>7. ASSUME NEW n \in Nodes, Failure(n) PROVE TypeOK'
  BY <1>7 DEF Failure, StartFails, FetchFails, FetchChunkFails
<1>8. ASSUME NEW n \in Nodes, CrashInWrite(n) PROVE TypeOK'
  <2>1. file' \in Seq(Hdr) /\ torn' \in BOOLEAN /\ Restart
    <3>1. ASSUME NEW s \in Answers(nxt[n], ChunkSize) PROVE file \o s \in Seq(Hdr)
      BY <3>1, AnswersType
    <3> QED BY <1>8, <3>1 DEF CrashInWrite
  <2> QED BY <2>1, RestartType
<1> QED BY <1>1, <1>2, <1>3, <1>4, <1>5, <1>6, <1>7, <1>8, WorkType DEF Next

\* Type correctness, for any number of overlapping leaders.
THEOREM TypeCorrect == Spec => []TypeOK
<1>1. Init => TypeOK
  <2>1. \A c \in Chains : c[1] \in Hdr
    OBVIOUS
  <2> SUFFICES ASSUME Init PROVE TypeOK
    OBVIOUS
  <2>2. cur \in [Nodes -> Hdr]
    BY <2>1 DEF Init
  <2>3. q \in [Nodes -> Queue] /\ rest \in [Nodes -> Seq(Hdr)]
    BY QueueType DEF Init
  <2>4. DOMAIN hdrs \subseteq Int /\ \A h \in DOMAIN hdrs : hdrs[h] \in Hdr
    BY DEF Init
  <2>9. file \in Seq(Hdr)
    BY DEF Init
  <2>5. torn \in BOOLEAN
    BY Zenon DEF Init
  <2>6. /\ tip \in Int /\ recoveryTip \in Int /\ sent \in Int
        /\ nxt \in [Nodes -> Int] /\ upto \in [Nodes -> Int]
        /\ left \in [Nodes -> Int] /\ tip0 \in [Nodes -> Int]
    BY DEF Init
  <2>7. /\ synced \in BOOLEAN /\ recovery \in BOOLEAN /\ verified \in BOOLEAN
        /\ miscounted \in BOOLEAN /\ live \in [Nodes -> BOOLEAN] /\ got \in [Nodes -> BOOLEAN]
    BY Zenon DEF Init
  <2>8. pc \in [Nodes -> {"off"} \cup Starting \cup Queueing]
    BY DEF Init
  <2> QED BY <2>2, <2>3, <2>4, <2>5, <2>6, <2>7, <2>8, <2>9 DEF TypeOK
<1>2. TypeOK /\ [Next]_vars => TypeOK'
  BY NextType
<1> QED BY <1>1, <1>2, PTL DEF Spec
-----------------------------------------------------------------------------
(***************************************************************************)
(* One leader at a time: leaders follow each other in a single slot n.     *)
(***************************************************************************)

\* Between the check of connectTip and its write to the map the tip does not
\* move, because nobody else moves it.
ChainInv(n) ==
    /\ ChainLinked
    /\ pc[n] \in {"append", "storeOne"} =>
         tip \in DOMAIN hdrs /\ Prev[cur[n]] = hdrs[tip]

\* Headers the file is ahead of the map.
Ahead(n) == IF pc[n] = "storeOne" THEN 1
            ELSE IF pc[n] = "remove" THEN 0 - left[n] ELSE 0

\* The file agrees with the map up to where the goroutine in slot n is.
Agree == \A h \in Heights : h <= tip =>
           h \in DOMAIN hdrs /\ file[h - StartPoint + 1] = hdrs[h]

\* A sync that counted right has verified the chain.
Counted == verified /\ ~miscounted

FileInv(n) ==
    /\ Counted => Len(file) = tip - StartPoint + 1 + Ahead(n) /\ Agree
    /\ Counted /\ pc[n] = "storeOne" => file[Len(file)] = cur[n]
    /\ pc[n] = "verify" /\ ~miscounted => tip = StartPoint + Len(file) - 1 /\ Agree
    /\ pc[n] = "truncate" => tip >= StartPoint + REWIND
    /\ pc[n] = "remove" => left[n] \in 1..REWIND /\ tip - left[n] >= StartPoint

LEMMA ChainStep ==
    ASSUME NEW n, Nodes = {n}, TypeOK, ChainInv(n), [Next]_vars
    PROVE  ChainInv(n)'
<1> USE DEF ChainInv, ChainLinked, Looked, Linked, Stored, Goto, disk, mem, history, locals
<1>1. CASE UNCHANGED vars
  BY <1>1 DEF vars
<1>2. CASE Restart
  BY <1>2 DEF Restart
<1>3. CASE BeginSync(n) \/ PromoteToLeader(n) \/ Notified(n) \/ Cancel(n) \/ Failure(n)
  BY <1>3, SMTT(30) DEF BeginSync, PromoteToLeader, Notified, Cancel, Failure, StartFails,
              FetchFails, FetchChunkFails, TypeOK
<1>4. CASE Gather(n) \/ Load(n)
  BY <1>4 DEF Gather, Load, TypeOK
<1>5. CASE Verify(n)
  BY <1>5, <1>2 DEF Verify, VerifyAll, TypeOK
<1>6. CASE Subscribe(n) \/ SubscribeBehind(n) \/ QueueEnds(n) \/ NotifyClient(n)
  BY <1>6 DEF Subscribe, SubscribeBehind, QueueEnds, NotifyClient, TypeOK
<1>7. CASE Dequeue(n)
  BY <1>7 DEF Dequeue, TypeOK
<1>8. CASE Fetch(n) \/ FetchChunk(n)
  BY <1>8 DEF Fetch, FetchChunk, TypeOK
<1>9. CASE CheckCanConnect(n)
  BY <1>9, <1>2 DEF CheckCanConnect, CanConnect, CanRewind, TypeOK
<1>10. CASE AppendHeadersFile(n)
  BY <1>10 DEF AppendHeadersFile, TypeOK
<1>11. CASE StoreOneHdr(n)
  BY <1>11 DEF StoreOneHdr, TypeOK
<1>12. CASE TruncateHeadersFile(n)
  BY <1>12, <1>2 DEF TruncateHeadersFile, TruncatedFile, TypeOK
<1>13. CASE RemoveOneHdrFromTip(n)
  <2>1. /\ tip' = tip - 1 /\ tip \in Int /\ verified' = verified
        /\ hdrs' = [h \in DOMAIN hdrs \ {tip} |-> hdrs[h]]
        /\ pc'[n] \in {"remove", "notify", "idle"}
    BY <1>13 DEF RemoveOneHdrFromTip, TypeOK
  <2>2. ASSUME NEW h \in (StartPoint + 1)..(tip - 1), Linked(h)
        PROVE  {h - 1, h} \subseteq DOMAIN hdrs' /\ Prev[hdrs'[h]] = hdrs'[h - 1]
    BY <2>1, <2>2
  <2> QED BY <2>1, <2>2
<1> QED BY <1>1, <1>2, <1>3, <1>4, <1>5, <1>6, <1>7, <1>8, <1>9, <1>10, <1>11,
           <1>12, <1>13 DEF Next, Work, Crash, CrashInWrite

\* As long as leaders do not overlap, the verified chain stays linked, whatever
\* the servers answer and however wrong their counts are: above the start point no
\* header is missing and each names the one below it.
THEOREM ChainStaysLinked == ASSUME NEW n, Nodes = {n} PROVE Spec => []ChainLinked
<1>1. Init => ChainInv(n)
  BY DEF Init, ChainInv, ChainLinked
<1>2. TypeOK /\ ChainInv(n) /\ [Next]_vars => ChainInv(n)'
  BY ChainStep
<1>3. ChainInv(n) => ChainLinked
  BY DEF ChainInv
<1> QED BY <1>1, <1>2, <1>3, TypeCorrect, PTL DEF Spec

\* As long as leaders do not overlap, storeOneHdr is given a header that connects.
THEOREM StoredConnects == ASSUME NEW n, Nodes = {n} PROVE Spec => []StoredHeaderConnects
<1>1. Init => ChainInv(n)
  BY DEF Init, ChainInv, ChainLinked
<1>2. TypeOK /\ ChainInv(n) /\ [Next]_vars => ChainInv(n)'
  BY ChainStep
<1>3. ChainInv(n) => StoredHeaderConnects
  BY DEF ChainInv, StoredHeaderConnects
<1> QED BY <1>1, <1>2, <1>3, TypeCorrect, PTL DEF Spec

\* A step that leaves the store alone, between labels at which the file agrees
\* with the map.
LEMMA FileQuiet ==
    ASSUME NEW n, FileInv(n), UNCHANGED <<file, hdrs, tip, verified, miscounted>>,
           pc[n] \notin {"storeOne", "remove"},
           pc'[n] \notin {"storeOne", "remove", "gather", "load", "verify", "truncate"}
    PROVE  FileInv(n)'
  BY DEF FileInv, Counted, Agree, Ahead, Heights

\* A step that changes none of the variables the invariant is about.
LEMMA FileUnchanged ==
    ASSUME NEW n, FileInv(n), UNCHANGED <<file, hdrs, tip, verified, miscounted, pc, cur, left>>
    PROVE  FileInv(n)'
  BY DEF FileInv, Counted, Agree, Ahead, Heights

LEMMA FileStep ==
    ASSUME NEW n, Nodes = {n}, TypeOK, ChainInv(n), FileInv(n), [Next]_vars
    PROVE  FileInv(n)'
<1> USE DEF Goto, disk, mem, history, locals
<1>1. CASE UNCHANGED vars
  BY <1>1, FileUnchanged DEF vars
<1>2. CASE Restart
  BY <1>2 DEF Restart, FileInv, Counted
<1>3. CASE Notified(n) \/ Cancel(n)
  BY <1>3, FileUnchanged DEF Notified, Cancel
<1>15. CASE PromoteToLeader(n) \/ Failure(n)
  BY <1>15, FileQuiet DEF PromoteToLeader, NoLeader, Failure, StartFails, FetchFails,
                          FetchChunkFails, TypeOK
<1>16. CASE BeginSync(n)
  BY <1>16 DEF BeginSync, NoLeader, TypeOK, FileInv, Counted, Agree, Ahead, Heights
<1>4. CASE Gather(n)
  <2>1. pc[n] = "gather" /\ pc'[n] \in {"gather", "load"}
    BY <1>4 DEF Gather, TypeOK
  <2>2. verified' => UNCHANGED <<file, hdrs, tip, verified>>
    BY <1>4 DEF Gather
  <2>3. miscounted' = miscounted
    BY <1>4 DEF Gather
  <2> QED BY <2>1, <2>2, <2>3 DEF FileInv, Counted, Agree, Ahead, Heights
<1>5. CASE Load(n)
  <2>1. /\ file' = file /\ verified' = FALSE /\ pc'[n] = "verify" /\ tip' = upto[n]
        /\ miscounted' = (upto[n] # StartPoint + Len(file) - 1)
    BY <1>5 DEF Load, TypeOK
  <2>2. \A h \in Heights : h \in DOMAIN hdrs' /\ file[h - StartPoint + 1] = hdrs'[h]
    BY <1>5 DEF Load
  <2> QED BY <2>1, <2>2 DEF FileInv, Counted, Agree, Heights
<1>6. CASE Verify(n)
  <2>1. CASE VerifyAll
    <3>1. /\ pc[n] = "verify" /\ pc'[n] = "subscribe"
          /\ UNCHANGED <<file, hdrs, tip, miscounted>>
      BY <1>6, <2>1 DEF Verify, VerifyAll, StopsAt, TypeOK
    <3> QED BY <3>1 DEF FileInv, Counted, Agree, Ahead, Heights, TypeOK
  <2>2. CASE ~VerifyAll /\ ~Restart
    BY <1>6, <2>2, FileQuiet DEF Verify, TypeOK
  <2> QED BY <1>2, <2>1, <2>2
<1>7. CASE Subscribe(n) \/ SubscribeBehind(n) \/ QueueEnds(n) \/ NotifyClient(n)
  BY <1>7, FileQuiet DEF Subscribe, SubscribeBehind, QueueEnds, NotifyClient, TypeOK
<1>8. CASE Dequeue(n)
  BY <1>8, FileQuiet DEF Dequeue, TypeOK
<1>9. CASE Fetch(n) \/ FetchChunk(n)
  BY <1>9, FileQuiet DEF Fetch, FetchChunk, TypeOK
<1>10. CASE CheckCanConnect(n)
  <2>1. CASE pc'[n] = "append" /\ UNCHANGED <<file, hdrs, tip, verified, miscounted>>
    BY <1>10, <2>1, FileQuiet DEF CheckCanConnect, CanConnect, CanRewind
  <2>2. CASE /\ pc[n] = "check" /\ pc'[n] = "truncate" /\ tip >= StartPoint + REWIND
             /\ UNCHANGED <<file, hdrs, tip, verified, miscounted>>
    BY <2>2 DEF FileInv, Counted, Agree, Ahead, Heights
  <2> QED BY <1>10, <1>2, <2>1, <2>2 DEF CheckCanConnect, CanConnect, CanRewind, TypeOK
<1>11. CASE AppendHeadersFile(n)
  <2>1. /\ pc[n] = "append" /\ pc'[n] = "storeOne" /\ file' = Append(file, cur[n])
        /\ UNCHANGED <<mem, verified, miscounted, cur>>
    BY <1>11 DEF AppendHeadersFile, TypeOK
  <2>2. /\ file \in Seq(Hdr) /\ cur[n] \in Hdr /\ Len(file') = Len(file) + 1
        /\ file'[Len(file')] = cur[n]
        /\ \A i \in 1..Len(file) : file'[i] = file[i]
    BY <2>1 DEF TypeOK
  <2>3. Counted => Len(file) = tip - StartPoint + 1 /\ Agree
    BY <2>1 DEF FileInv, Counted, Ahead, TypeOK
  <2>4. ASSUME Counted PROVE Agree'
    <3>1. tip' = tip /\ hdrs' = hdrs /\ tip \in Int /\ Len(file) \in Nat
      BY <2>1 DEF TypeOK
    <3>2. Len(file) = tip - StartPoint + 1 /\ Agree
      BY <2>3, <2>4
    <3> QED BY <2>2, <3>1, <3>2 DEF Agree, Heights
  <2> QED BY <2>1, <2>2, <2>3, <2>4 DEF FileInv, Counted, Ahead, TypeOK
<1>12. CASE StoreOneHdr(n)
  <2>1. /\ pc[n] = "storeOne" /\ pc'[n] \in {"check", "fetch", "notify"}
        /\ tip' = tip + 1 /\ UNCHANGED <<file, verified, miscounted>>
        /\ hdrs' = [h \in DOMAIN hdrs \cup {tip + 1} |->
                      IF h = tip + 1 THEN cur[n] ELSE hdrs[h]]
    BY <1>12 DEF StoreOneHdr, TypeOK
  <2>2. ASSUME Counted
        PROVE  Len(file) = tip - StartPoint + 2 /\ Agree /\ file[Len(file)] = cur[n]
    BY <2>1, <2>2 DEF FileInv, Counted, Ahead, TypeOK
  <2>3. ASSUME Counted PROVE Agree'
    <3> SUFFICES ASSUME NEW h \in Heights PROVE h \in DOMAIN hdrs' /\ file[h - StartPoint + 1] = hdrs'[h]
      BY <2>1 DEF Agree, Heights
    <3>1. CASE h = tip + 1
      BY <2>1, <2>2, <2>3, <3>1 DEF TypeOK
    <3>2. CASE h # tip + 1
      <4>1. h <= tip
        BY <2>2, <2>3, <3>2 DEF Heights, TypeOK
      <4> QED BY <2>1, <2>2, <2>3, <3>2, <4>1 DEF Agree
    <3> QED BY <3>1, <3>2
  <2> QED BY <2>1, <2>2, <2>3 DEF FileInv, Counted, Ahead, TypeOK
<1>13. CASE TruncateHeadersFile(n)
  <2>1. CASE ~synced
    BY <1>13, <2>1, <1>2 DEF TruncateHeadersFile, TruncatedFile
  <2>2. CASE synced
    <3>1. /\ pc[n] = "truncate" /\ pc'[n] = "remove" /\ left'[n] = REWIND
          /\ file' = SubSeq(file, 1, Len(file) - REWIND)
          /\ UNCHANGED <<mem, verified, miscounted>>
      BY <1>13, <2>2 DEF TruncateHeadersFile, TruncatedFile, TypeOK
    <3>2. tip >= StartPoint + REWIND
      BY <3>1 DEF FileInv
    <3>3. ASSUME Counted
          PROVE  /\ Len(file) = tip - StartPoint + 1
                 /\ Len(file') = Len(file) - REWIND
                 /\ \A i \in 1..Len(file') : file'[i] = file[i]
      <4>1. Len(file) = tip - StartPoint + 1
        BY <3>1, <3>3 DEF FileInv, Counted, Ahead, TypeOK
      <4>2. /\ file \in Seq(Hdr) /\ Len(file) - REWIND \in Int
            /\ Len(file) - REWIND <= Len(file) /\ Len(file) - REWIND >= 0
        BY <3>2, <4>1 DEF TypeOK
      <4> QED BY <3>1, <4>1, <4>2, PrefixType
    <3>4. ASSUME Counted PROVE Agree'
      <4>1. Agree
        BY <3>4 DEF FileInv
      <4>2. /\ Len(file) \in Nat /\ REWIND \in Nat /\ tip' = tip /\ hdrs' = hdrs
            /\ Len(file') = Len(file) - REWIND
            /\ \A i \in 1..Len(file') : file'[i] = file[i]
        BY <3>1, <3>3, <3>4 DEF TypeOK
      <4> QED BY <4>1, <4>2 DEF Agree, Heights
    <3>5. Counted => Len(file') = tip' - StartPoint + 1 + Ahead(n)'
      <4>1. Ahead(n)' = 0 - REWIND
        BY <3>1 DEF Ahead
      <4>2. Counted => Len(file') = tip - StartPoint + 1 - REWIND
        BY <3>3 DEF TypeOK
      <4> QED BY <3>1, <4>1, <4>2 DEF TypeOK
    <3>6. left'[n] \in 1..REWIND /\ tip' - left'[n] >= StartPoint
      BY <3>1, <3>2 DEF TypeOK
    <3> QED BY <3>1, <3>4, <3>5, <3>6 DEF FileInv, Counted
  <2> QED BY <2>1, <2>2
<1>14. CASE RemoveOneHdrFromTip(n)
  <2>1. /\ pc[n] = "remove" /\ tip' = tip - 1 /\ left'[n] = left[n] - 1
        /\ hdrs' = [h \in DOMAIN hdrs \ {tip} |-> hdrs[h]]
        /\ UNCHANGED <<file, verified, miscounted>>
        /\ IF left[n] > 1 THEN pc' = pc ELSE pc'[n] \in {"notify", "idle"}
    BY <1>14 DEF RemoveOneHdrFromTip, TypeOK
  <2>2. left[n] \in 1..REWIND /\ tip - left[n] >= StartPoint
    BY <2>1 DEF FileInv
  <2>3. Counted => Len(file) = tip - StartPoint + 1 - left[n] /\ Agree
    BY <2>1 DEF FileInv, Counted, Ahead, TypeOK
  <2>4. ASSUME Counted PROVE Agree'
    <3> SUFFICES ASSUME NEW h \in Heights PROVE h \in DOMAIN hdrs' /\ file[h - StartPoint + 1] = hdrs'[h]
      BY <2>1 DEF Agree, Heights
    <3>1. h <= tip - 1 /\ h \in Int /\ tip \in Int
      BY <2>2, <2>3, <2>4 DEF Heights, TypeOK
    <3>2. h \in DOMAIN hdrs /\ file[h - StartPoint + 1] = hdrs[h]
      BY <2>3, <2>4, <3>1 DEF Agree
    <3> QED BY <2>1, <3>1, <3>2
  <2>5. CASE left[n] > 1
    <3>1. pc'[n] = "remove" /\ left'[n] \in 1..REWIND /\ tip' - left'[n] >= StartPoint
      BY <2>1, <2>2, <2>5 DEF TypeOK
    <3>2. Counted => Len(file') = tip' - StartPoint + 1 + Ahead(n)'
      <4>1. Ahead(n)' = 0 - (left[n] - 1)
        BY <2>1, <3>1 DEF Ahead
      <4> QED BY <2>1, <2>2, <2>3, <4>1 DEF TypeOK
    <3> QED BY <2>1, <2>4, <3>1, <3>2 DEF FileInv, Counted
  <2>6. CASE ~(left[n] > 1)
    <3>1. pc'[n] \in {"notify", "idle"} /\ left[n] = 1
      BY <2>1, <2>2, <2>6
    <3>2. Counted => Len(file') = tip' - StartPoint + 1 + Ahead(n)'
      BY <2>1, <2>3, <3>1 DEF Ahead, TypeOK
    <3> QED BY <2>1, <2>4, <3>1, <3>2 DEF FileInv, Counted
  <2> QED BY <2>5, <2>6
<1> QED BY <1>1, <1>2, <1>3, <1>4, <1>5, <1>6, <1>7, <1>8, <1>9, <1>10, <1>11,
           <1>12, <1>13, <1>14, <1>15, <1>16 DEF Next, Work, Crash, CrashInWrite
\* As long as leaders do not overlap, the file and the map hold the same chain, from
\* a sync that counted right on, whenever the header queue is not between its two
\* writes.
THEOREM FileAgreesWithMap ==
    ASSUME NEW n, Nodes = {n} PROVE Spec => []FileMatchesMap
<1>1. Init => ChainInv(n) /\ FileInv(n)
  BY DEF Init, ChainInv, ChainLinked, FileInv, Counted
<1>2. TypeOK /\ ChainInv(n) /\ FileInv(n) /\ [Next]_vars => ChainInv(n)' /\ FileInv(n)'
  BY ChainStep, FileStep
<1>3. TypeOK /\ FileInv(n) => FileMatchesMap
  <2> SUFFICES ASSUME TypeOK, FileInv(n), verified, ~miscounted, Settled PROVE FileMatchesMap
    BY DEF FileMatchesMap
  <2>1. Ahead(n) = 0
    BY DEF Ahead, Settled
  <2>2. tip = StartPoint + Len(file) - 1 /\ Agree
    BY <2>1 DEF FileInv, Counted, TypeOK
  <2> QED BY <2>2 DEF FileMatchesMap, Agree, Heights, TypeOK
<1> QED BY <1>1, <1>2, <1>3, TypeCorrect, PTL DEF Spec

\* Under the same conditions the file is a linked chain at every point at which
\* the process can die.
THEOREM FileStaysLinked ==
    ASSUME NEW n, Nodes = {n} PROVE Spec => []FileLinked
<1>1. Init => ChainInv(n) /\ FileInv(n)
  BY DEF Init, ChainInv, ChainLinked, FileInv, Counted
<1>2. TypeOK /\ ChainInv(n) /\ FileInv(n) /\ [Next]_vars => ChainInv(n)' /\ FileInv(n)'
  BY ChainStep, FileStep
<1>3. TypeOK /\ ChainInv(n) /\ FileInv(n) => FileLinked
  <2> SUFFICES ASSUME TypeOK, ChainInv(n), FileInv(n), verified,
                      ~miscounted, NEW i \in 1..(Len(file) - 1)
               PROVE  Prev[file[i + 1]] = file[i]
    BY DEF FileLinked
  <2> DEFINE h == StartPoint + i
  <2>1. Len(file) \in Nat /\ i \in Nat /\ i >= 1 /\ i + 1 <= Len(file) /\ tip \in Int
    BY DEF TypeOK
  <2>2. h \in Heights /\ h - 1 \in Heights /\ h - StartPoint + 1 = i + 1
        /\ (h - 1) - StartPoint + 1 = i
    BY <2>1 DEF Heights
  <2>3. CASE h <= tip
    <3>1. file[i + 1] = hdrs[h] /\ file[i] = hdrs[h - 1]
      BY <2>1, <2>2, <2>3 DEF FileInv, Counted, Agree
    <3> QED BY <2>1, <2>3, <3>1 DEF ChainInv, ChainLinked, Looked, Linked
  <2>4. CASE h > tip
    <3>1. pc[n] = "storeOne"
      BY <2>1, <2>4 DEF FileInv, Counted, Ahead, TypeOK
    <3>2. Len(file) = tip - StartPoint + 2
      BY <2>1, <3>1 DEF FileInv, Counted, Ahead
    <3>3. h - 1 = tip /\ i + 1 = Len(file)
      BY <2>1, <2>4, <3>2
    <3>4. file[i + 1] = cur[n] /\ file[i] = hdrs[tip]
      <4>1. file[Len(file)] = cur[n] /\ Agree
        BY <3>1 DEF FileInv, Counted
      <4>2. tip \in Heights /\ tip - StartPoint + 1 = i
        BY <2>1, <2>2, <3>3
      <4>3. file[i] = hdrs[tip]
        BY <2>1, <4>1, <4>2 DEF Agree
      <4> QED BY <3>3, <4>1, <4>3
    <3> QED BY <3>1, <3>4 DEF ChainInv
  <2> QED BY <2>1, <2>3, <2>4
<1> QED BY <1>1, <1>2, <1>3, TypeCorrect, PTL DEF Spec
=============================================================================
