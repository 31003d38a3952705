------------------------------ MODULE Headers ------------------------------
(***************************************************************************)
(* The block header store of package electrumx (headers.go) and the leader *)
(* node that fills it (node_headers.go): the blockchain_headers file, the  *)
(* hdrs map and tip kept in memory, the initial sync, the header queue     *)
(* goroutine and its reorg recovery.                                       *)
(*                                                                         *)
(* A header is an opaque value; Prev gives the hash it carries of its      *)
(* predecessor, and a header's own hash is the header itself.  Servers are *)
(* not trusted: every answer is a slice of some sequence in Chains, chosen *)
(* anew for every request, so a server may reorganise between any two      *)
(* answers.                                                                *)
(*                                                                         *)
(* Nodes are slots for the goroutines of successive leaders.  A slot is    *)
(* free again once its goroutines have returned; with one slot a new       *)
(* leader starts only after the old one's queue is drained, with two the   *)
(* old queue may still be draining, which the code allows.                 *)
(***************************************************************************)
EXTENDS Integers, Sequences, FiniteSets

CONSTANTS
    Nodes,        \* leader slots
    Hdr,          \* block headers
    Prev,         \* Prev[x]: the header whose hash x carries as previous hash
    Chains,       \* the header sequences servers answer from, from StartPoint up
    CountError,   \* how far a server's declared Count may be off ({0}: never)
    StartPoint,   \* height of the first stored header
    REWIND,       \* headers dropped when a header does not connect (8)
    ChunkSize,    \* headers asked for per request while syncing (2016)
    QDepth        \* capacity of qchan (8)

ASSUME ConstantsAssumption ==
    /\ Prev \in [Hdr -> Hdr]
    /\ Chains \subseteq Seq(Hdr) \ {<<>>}
    /\ 0 \in CountError /\ CountError \subseteq Int
    /\ StartPoint \in Nat
    /\ REWIND \in Nat \ {0}
    /\ ChunkSize \in Nat \ {0}
    /\ QDepth \in Nat \ {0}

VARIABLES
    file,         \* the headers in the blockchain_headers file
    torn,         \* the file ends with part of a header
    hdrs,         \* headers.hdrs: height -> header
    tip, synced, recovery, recoveryTip,
    verified,     \* history: the stored chain has passed verifyAll since the
                  \* last unverified write of a sync
    miscounted,   \* history: the last sync set a tip that is not the height of
                  \* the last header in the file
    sent,         \* history: last tip sent on clientTipChangeNotify
    pc,           \* where the goroutine in each slot is
    live,         \* the slot's node context is not cancelled
    q,            \* qchan of the slot's headerQueue
    nxt, upto,    \* next height to request, last one wanted (maybeTip in sync)
    rest,         \* headers of a chunk not connected yet
    cur,          \* header connectTip is working on
    got,          \* headersConnected > 0
    left, tip0    \* reorgRecovery: removals left, tip on entry

disk == <<file, torn>>
mem == <<hdrs, tip, synced, recovery, recoveryTip>>
history == <<verified, miscounted, sent>>
locals == <<nxt, upto, rest, cur, got, left, tip0>>
vars == <<disk, mem, history, pc, live, q, locals>>

-----------------------------------------------------------------------------
Heights == StartPoint .. (StartPoint + Len(file) - 1)

Notification == [height : Int, hdr : Hdr]
Queue == {s \in Seq(Notification) : Len(s) <= QDepth}

\* node.start or promoteToLeader has not returned yet
Starting == {"gather", "load", "verify", "subscribe"}

\* the headerQueue goroutine is running
Queueing == {"idle", "fetch", "chunk", "check", "append", "storeOne",
             "truncate", "remove", "notify"}

\* Answers to blockchain.block.headers(h, n): some of the headers a chain has
\* from height h, at most n of them.  (Nothing below the start point is asked for
\* as long as leaders do not overlap; such a request gets no headers here.)
Answers(h, n) ==
    LET i == h - StartPoint + 1 IN
    {<<>>} \cup UNION { {SubSeq(c, i, j) : j \in {j \in i..Len(c) : i >= 1 /\ j < i + n}}
                          : c \in Chains }

\* Notifications of blockchain.headers.subscribe: a header and its height, which
\* may lie below the start point.
Notifications ==
    {[height |-> StartPoint - 1, hdr |-> x] : x \in {c[1] : c \in Chains}} \cup
    UNION { {[height |-> StartPoint + i - 1, hdr |-> c[i]] : i \in 1..Len(c)}
              : c \in Chains }

\* verifyFromTip(0, true) walks down from the tip and looks at each header above
\* the start point and at the one below it.
Looked == (StartPoint + 1)..tip
Stored(h) == {h - 1, h} \subseteq DOMAIN hdrs
Linked(h) == Stored(h) /\ Prev[hdrs[h]] = hdrs[h - 1]

\* verifyAll finds every one of them linked.
VerifyAll == \A h \in Looked : Linked(h)

\* The header at which the walk stops otherwise.
StopsAt(h) == h \in Looked /\ ~Linked(h) /\ \A g \in (h + 1)..tip : Linked(g)

\* checkCanConnect: the header at the tip is the one the incoming header names.
ConnectAnything(n) == TRUE
CanConnect(n) == Prev[cur[n]] = hdrs[tip]

\* truncateHeadersFile(REWIND)
TruncatedOneShort == SubSeq(file, 1, Len(file) - REWIND + 1)
TruncatedFile == SubSeq(file, 1, Len(file) - REWIND)

\* qchan is a buffered channel.
HasRoom(n) == Len(q[n]) < QDepth

\* headerQueue looks at its context only when qchan is closed and drained.
Drained(n) == q[n] = <<>> /\ ~live[n]

\* A node slot whose goroutine goes to label l.
Goto(n, l) == pc' = [pc EXCEPT ![n] = l]

-----------------------------------------------------------------------------
\* No goroutine is running and nothing is in memory.
Init ==
    /\ file = <<>> /\ torn = FALSE
    /\ hdrs = [h \in {} |-> h] /\ tip = 0
    /\ synced = FALSE /\ recovery = FALSE /\ recoveryTip = 0
    /\ verified = FALSE /\ miscounted = FALSE /\ sent = 0
    /\ pc = [n \in Nodes |-> "off"]
    /\ live = [n \in Nodes |-> FALSE]
    /\ q = [n \in Nodes |-> <<>>]
    /\ nxt = [n \in Nodes |-> 0] /\ upto = [n \in Nodes |-> 0]
    /\ rest = [n \in Nodes |-> <<>>]
    /\ cur \in [Nodes -> {c[1] : c \in Chains}]
    /\ got = [n \in Nodes |-> FALSE]
    /\ left = [n \in Nodes |-> 0] /\ tip0 = [n \in Nodes |-> 0]

\* The process dies (crash, panic or exit) and newHeaders runs in a new one.
Restart ==
    /\ hdrs' = [h \in {} |-> h] /\ tip' = 0
    /\ synced' = FALSE /\ recovery' = FALSE /\ recoveryTip' = 0
    /\ verified' = FALSE /\ miscounted' = FALSE /\ sent' = 0
    /\ pc' = [n \in Nodes |-> "off"]
    /\ live' = [n \in Nodes |-> FALSE]
    /\ q' = [n \in Nodes |-> <<>>]
    /\ nxt' = [n \in Nodes |-> 0] /\ upto' = [n \in Nodes |-> 0]
    /\ rest' = [n \in Nodes |-> <<>>]
    /\ got' = [n \in Nodes |-> FALSE]
    /\ left' = [n \in Nodes |-> 0] /\ tip0' = [n \in Nodes |-> 0]
    /\ UNCHANGED cur

-----------------------------------------------------------------------------
(* Starting a leader. *)

\* peersMonitor is one goroutine and starts a leader only when the previous
\* one's context is cancelled; the previous headerQueue may still be draining.
NoLeader(n) ==
    /\ pc[n] = "off"
    /\ \A m \in Nodes : ~live[m] /\ pc[m] \notin Starting

\* A new leader, or a promoted peer that finds the headers not synced, reads
\* the file.  bytesToNumHdrs refuses a file that ends with part of a header.
BeginSync(n) ==
    /\ NoLeader(n)
    /\ ~torn
    /\ nxt' = [nxt EXCEPT ![n] = StartPoint + Len(file)]
    /\ upto' = [upto EXCEPT ![n] = StartPoint + Len(file) - 1]
    /\ live' = [live EXCEPT ![n] = TRUE]
    /\ Goto(n, "gather")
    /\ UNCHANGED <<disk, mem, history, q, rest, cur, got, left, tip0>>

\* promoteToLeader of a peer when the headers are synced already.
PromoteToLeader(n) ==
    /\ NoLeader(n)
    /\ synced
    /\ live' = [live EXCEPT ![n] = TRUE]
    /\ Goto(n, "subscribe")
    /\ UNCHANGED <<disk, mem, history, q, locals>>

\* start or promoteToLeader returns an error; the caller cancels the node.  A
\* sync interrupted by its context ends here too: it returns nil but leaves
\* synced alone, and the subscribe that follows fails.
StartFails(n) ==
    /\ pc[n] \in {"gather", "subscribe"}
    /\ live' = [live EXCEPT ![n] = FALSE]
    /\ Goto(n, "off")
    /\ UNCHANGED <<disk, mem, history, q, locals>>

\* One round of gathering: the headers go to the file before anything checks
\* them, and the declared Count moves maybeTip.
Gather(n) ==
    /\ pc[n] = "gather"
    /\ \E s \in Answers(nxt[n], ChunkSize), e \in CountError :
         LET count == Len(s) + e IN
         /\ IF count > 0
            THEN /\ file' = file \o s
                 /\ upto' = [upto EXCEPT ![n] = @ + count]
                 /\ verified' = FALSE
            ELSE UNCHANGED <<file, upto, verified>>
         /\ IF count < ChunkSize
            THEN Goto(n, "load") /\ UNCHANGED nxt
            ELSE nxt' = [nxt EXCEPT ![n] = @ + ChunkSize] /\ UNCHANGED pc
    /\ UNCHANGED <<torn, mem, miscounted, sent, live, q, rest, cur, got, left, tip0>>

\* Re-read the file, store every header in the map and set the tip.
Load(n) ==
    /\ pc[n] = "load"
    /\ hdrs' = [h \in DOMAIN hdrs \cup Heights |->
                  IF h \in Heights THEN file[h - StartPoint + 1] ELSE hdrs[h]]
    /\ tip' = upto[n]
    /\ verified' = FALSE
    /\ miscounted' = (upto[n] # StartPoint + Len(file) - 1)
    /\ Goto(n, "verify")
    /\ UNCHANGED <<disk, synced, recovery, recoveryTip, sent, live, q, locals>>

\* verifyAll.  The walk down from the tip ends at the first header that does not
\* link, with an error, or, where one of the two is missing, a nil dereference.
Verify(n) ==
    /\ pc[n] = "verify"
    /\ \/ /\ VerifyAll
          /\ synced' = TRUE /\ verified' = TRUE
          /\ Goto(n, "subscribe")
          /\ UNCHANGED <<disk, hdrs, tip, recovery, recoveryTip, miscounted, sent, live, q, locals>>
       \/ /\ \E h \in Looked : StopsAt(h) /\ Stored(h)
          /\ live' = [live EXCEPT ![n] = FALSE]
          /\ Goto(n, "off")
          /\ UNCHANGED <<disk, mem, history, q, locals>>
       \/ /\ \E h \in Looked : StopsAt(h) /\ ~Stored(h)
          /\ Restart
          /\ UNCHANGED disk

\* headersNotify: the answer of the subscription is queued first.  An answer
\* below our tip (ExpBug0) is an error.
Subscribe(n) ==
    /\ pc[n] = "subscribe"
    /\ \E x \in Notifications :
         /\ x.height >= tip
         /\ q' = [q EXCEPT ![n] = <<x>>]
    /\ Goto(n, "idle")
    /\ UNCHANGED <<disk, mem, history, live, locals>>

SubscribeBehind(n) ==
    /\ pc[n] = "subscribe"
    /\ \E x \in Notifications : x.height < tip
    /\ live' = [live EXCEPT ![n] = FALSE]
    /\ Goto(n, "off")
    /\ UNCHANGED <<disk, mem, history, q, locals>>

-----------------------------------------------------------------------------
(* The header queue. *)

\* The forwarder moves a notification of the server into qchan.
Notified(n) ==
    /\ pc[n] \in Queueing /\ live[n]
    /\ HasRoom(n)
    /\ \E x \in Notifications : q' = [q EXCEPT ![n] = Append(@, x)]
    /\ UNCHANGED <<disk, mem, history, pc, live, locals>>

\* The connection ends, or something else cancels the node's context.
Cancel(n) ==
    /\ live[n]
    /\ live' = [live EXCEPT ![n] = FALSE]
    /\ UNCHANGED <<disk, mem, history, pc, q, locals>>

\* headerQueue notices the cancelled context only once qchan is drained.
QueueEnds(n) ==
    /\ pc[n] = "idle" /\ Drained(n)
    /\ Goto(n, "off")
    /\ UNCHANGED <<disk, mem, history, live, q, locals>>

\* One notification: ignored, connected directly, or the missing headers are
\* requested one by one (fetch) or as a chunk.
Dequeue(n) ==
    /\ pc[n] = "idle" /\ q[n] # <<>>
    /\ q' = [q EXCEPT ![n] = Tail(@)]
    /\ LET x == Head(q[n]) IN
       \/ /\ x.height < StartPoint              \* errNodeMisbehavingCanceled
          /\ live' = [live EXCEPT ![n] = FALSE]
          /\ Goto(n, "off")
          /\ UNCHANGED <<nxt, upto, rest, cur, got>>
       \/ /\ x.height >= StartPoint /\ x.height <= tip
          /\ UNCHANGED <<live, pc, nxt, upto, rest, cur, got>>
       \/ /\ x.height >= StartPoint /\ x.height = tip + 1
          /\ cur' = [cur EXCEPT ![n] = x.hdr]
          /\ rest' = [rest EXCEPT ![n] = <<>>]
          /\ nxt' = [nxt EXCEPT ![n] = tip + 2]
          /\ upto' = [upto EXCEPT ![n] = tip + 1]
          /\ got' = [got EXCEPT ![n] = FALSE]
          /\ Goto(n, "check")
          /\ UNCHANGED live
       \/ /\ x.height >= StartPoint /\ x.height > tip + 1
          /\ nxt' = [nxt EXCEPT ![n] = tip + 1]
          /\ upto' = [upto EXCEPT ![n] = x.height]
          /\ rest' = [rest EXCEPT ![n] = <<>>]
          /\ got' = [got EXCEPT ![n] = FALSE]
          /\ Goto(n, IF x.height - tip > REWIND THEN "chunk" ELSE "fetch")
          /\ UNCHANGED <<live, cur>>
    /\ UNCHANGED <<disk, mem, history, left, tip0>>

\* updateFromBlocks asks for the next header; an error ends its loop.
Fetch(n) ==
    /\ pc[n] = "fetch"
    /\ \E s \in Answers(nxt[n], 1) :
         /\ s # <<>>
         /\ cur' = [cur EXCEPT ![n] = s[1]]
    /\ nxt' = [nxt EXCEPT ![n] = @ + 1]
    /\ Goto(n, "check")
    /\ UNCHANGED <<disk, mem, history, live, q, upto, rest, got, left, tip0>>

FetchFails(n) ==
    /\ pc[n] = "fetch"
    /\ Goto(n, IF got[n] THEN "notify" ELSE "idle")
    /\ UNCHANGED <<disk, mem, history, live, q, locals>>

\* updateFromChunk asks for all missing headers at once; after an error, or an
\* answer of another length, it connects nothing.
FetchChunk(n) ==
    LET reqCount == upto[n] - nxt[n] + 1 IN
    /\ pc[n] = "chunk"
    /\ \E s \in Answers(nxt[n], reqCount) :
         /\ s # <<>> /\ Len(s) = reqCount
         /\ cur' = [cur EXCEPT ![n] = Head(s)]
         /\ rest' = [rest EXCEPT ![n] = Tail(s)]
    /\ nxt' = [nxt EXCEPT ![n] = upto[n] + 1]
    /\ Goto(n, "check")
    /\ UNCHANGED <<disk, mem, history, live, q, upto, got, left, tip0>>

FetchChunkFails(n) ==
    /\ pc[n] = "chunk"
    /\ Goto(n, "idle")
    /\ UNCHANGED <<disk, mem, history, live, q, locals>>

\* connectTip up to its decision.  Without a header at the tip getTipHash
\* dereferences nil.  A header that does not connect starts reorgRecovery, which
\* panics close to the start point; before it dbgDumpTipHashes(3) panics if one
\* of the top three headers is missing.
CanRewind == tip >= StartPoint + REWIND /\ (tip - 2)..tip \subseteq DOMAIN hdrs
CheckCanConnect(n) ==
    /\ pc[n] = "check"
    /\ \/ /\ tip \in DOMAIN hdrs /\ CanConnect(n)
          /\ Goto(n, "append")
          /\ UNCHANGED <<disk, mem, history, live, q, locals>>
       \/ /\ tip \in DOMAIN hdrs /\ ~CanConnect(n) /\ CanRewind
          /\ tip0' = [tip0 EXCEPT ![n] = tip]
          /\ Goto(n, "truncate")
          /\ UNCHANGED <<disk, mem, history, live, q, nxt, upto, rest, cur, got, left>>
       \/ /\ tip \in DOMAIN hdrs => ~CanConnect(n) /\ ~CanRewind
          /\ Restart
          /\ UNCHANGED disk

\* connectTip: the header goes to the file ...
AppendHeadersFile(n) ==
    /\ pc[n] = "append"
    /\ file' = Append(file, cur[n])
    /\ Goto(n, "storeOne")
    /\ UNCHANGED <<torn, mem, history, live, q, locals>>

\* ... and then, under hdrsMtx, to the map at tip + 1.  The caller's loop takes
\* the next header of the chunk or asks for the next one.
StoreOneHdr(n) ==
    /\ pc[n] = "storeOne"
    /\ hdrs' = [h \in DOMAIN hdrs \cup {tip + 1} |->
                  IF h = tip + 1 THEN cur[n] ELSE hdrs[h]]
    /\ tip' = tip + 1
    /\ recovery' = FALSE
    /\ got' = [got EXCEPT ![n] = TRUE]
    /\ IF rest[n] # <<>>
       THEN /\ cur' = [cur EXCEPT ![n] = Head(rest[n])]
            /\ rest' = [rest EXCEPT ![n] = Tail(@)]
            /\ Goto(n, "check")
       ELSE /\ Goto(n, IF nxt[n] <= upto[n] THEN "fetch" ELSE "notify")
            /\ UNCHANGED <<cur, rest>>
    /\ UNCHANGED <<disk, synced, recoveryTip, history, live, q, nxt, upto, left, tip0>>

\* reorgRecovery: truncateHeadersFile refuses to run before the first sync ...
TruncateHeadersFile(n) ==
    /\ pc[n] = "truncate"
    /\ \/ /\ synced
          /\ file' = TruncatedFile
          /\ left' = [left EXCEPT ![n] = REWIND]
          /\ Goto(n, "remove")
          /\ UNCHANGED <<torn, mem, history, live, q, nxt, upto, rest, cur, got, tip0>>
       \/ /\ ~synced
          /\ Restart
          /\ UNCHANGED disk

\* ... then REWIND headers leave the map one by one, and the tip on entry
\* becomes the one shown to clients.
RemoveOneHdrFromTip(n) ==
    /\ pc[n] = "remove"
    /\ hdrs' = [h \in DOMAIN hdrs \ {tip} |-> hdrs[h]]
    /\ tip' = tip - 1
    /\ left' = [left EXCEPT ![n] = @ - 1]
    /\ IF left[n] > 1
       THEN UNCHANGED <<pc, recovery, recoveryTip>>
       ELSE /\ recoveryTip' = tip0[n]
            /\ recovery' = TRUE
            /\ Goto(n, IF got[n] THEN "notify" ELSE "idle")
    /\ UNCHANGED <<disk, synced, history, live, q, nxt, upto, rest, cur, got, tip0>>

\* The queue waits until the client takes the new tip.
NotifyClient(n) ==
    /\ pc[n] = "notify"
    /\ sent' = tip
    /\ Goto(n, "idle")
    /\ UNCHANGED <<disk, mem, verified, miscounted, live, q, locals>>

-----------------------------------------------------------------------------
\* The process dies between two steps.
Crash == Restart /\ UNCHANGED disk

\* The process dies inside a write to the file.
CrashInWrite(n) ==
    /\ \/ pc[n] = "append" /\ UNCHANGED file
       \/ pc[n] = "gather" /\ \E s \in Answers(nxt[n], ChunkSize) : file' = file \o s
    /\ torn' = TRUE
    /\ Restart

\* What the leader's own goroutines do when the server answers.
Work(n) ==
    \/ Gather(n) \/ Load(n) \/ Verify(n) \/ Subscribe(n) \/ SubscribeBehind(n)
    \/ QueueEnds(n) \/ Dequeue(n) \/ Fetch(n) \/ FetchChunk(n) \/ CheckCanConnect(n)
    \/ AppendHeadersFile(n) \/ StoreOneHdr(n) \/ TruncateHeadersFile(n)
    \/ RemoveOneHdrFromTip(n) \/ NotifyClient(n)

\* Requests that fail.
Failure(n) == StartFails(n) \/ FetchFails(n) \/ FetchChunkFails(n)

Next ==
    \/ Crash
    \/ \E n \in Nodes :
         \/ BeginSync(n) \/ PromoteToLeader(n) \/ Notified(n) \/ Cancel(n)
         \/ Work(n) \/ Failure(n) \/ CrashInWrite(n)

Spec == Init /\ [][Next]_vars

\* Every request is answered or fails (request returns when its context ends),
\* and the client takes the tips it is sent.
Progress == \A n \in Nodes : WF_vars(Work(n) \/ Failure(n))

-----------------------------------------------------------------------------
(* Properties. *)

TypeOK ==
    /\ file \in Seq(Hdr) /\ torn \in BOOLEAN
    /\ DOMAIN hdrs \subseteq Int /\ \A h \in DOMAIN hdrs : hdrs[h] \in Hdr
    /\ tip \in Int
    /\ synced \in BOOLEAN /\ recovery \in BOOLEAN /\ recoveryTip \in Int
    /\ verified \in BOOLEAN /\ miscounted \in BOOLEAN /\ sent \in Int
    /\ pc \in [Nodes -> {"off"} \cup Starting \cup Queueing]
    /\ live \in [Nodes -> BOOLEAN]
    /\ q \in [Nodes -> Queue]
    /\ nxt \in [Nodes -> Int] /\ upto \in [Nodes -> Int]
    /\ rest \in [Nodes -> Seq(Hdr)]
    /\ cur \in [Nodes -> Hdr]
    /\ got \in [Nodes -> BOOLEAN]
    /\ left \in [Nodes -> Int] /\ tip0 \in [Nodes -> Int]

\* Once a sync has verified the chain, every header above the start point is
\* there and names the one below it, which is there too, in every state the queue
\* and its reorg recovery go through: getBlockHeaders may dereference them.
ChainLinked == verified => \A h \in Looked : Linked(h)

\* The file holds exactly the stored chain whenever no goroutine is between its
\* write to the file and its write to the map, so that a restart reads back
\* what clients were served.  A sync whose Counts are wrong sets another tip.
Settled == \A n \in Nodes : pc[n] \notin {"storeOne", "remove"}
FileMatchesMap ==
    verified /\ ~miscounted /\ Settled =>
      /\ tip = StartPoint + Len(file) - 1
      /\ \A h \in Heights : h \in DOMAIN hdrs /\ file[h - StartPoint + 1] = hdrs[h]

\* Wherever the process dies, the file of a verified chain holds a linked chain
\* that the next sync accepts.
FileLinked ==
    verified /\ ~miscounted => \A i \in 1..(Len(file) - 1) : Prev[file[i + 1]] = file[i]

\* A header is stored only on top of the header it names ("the header is assumed
\* to be valid and can connect", storeOneHdr).
StoredHeaderConnects ==
    \A n \in Nodes : pc[n] = "storeOne" =>
      tip \in DOMAIN hdrs /\ Prev[cur[n]] = hdrs[tip]
=============================================================================
