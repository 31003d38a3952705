----------------------------- MODULE TipsProofs -----------------------------
(***************************************************************************)
(* No tip is lost, repeated or sent on a closed channel, for any number of *)
(* leaders and of goroutines that register and unregister.                 *)
(***************************************************************************)
EXTENDS Tips, SequenceTheorems, TLAPS

-----------------------------------------------------------------------------
(* The inductive invariant: the tip taken last, the one in the channel and *)
(* the one under way follow one another, and the newest is the one that    *)
(* tipChange received last.                                                *)

First == buf[1]
Sending == reg /\ held # None

InOrder ==
    /\ held # None => held = rcv
    /\ buf # <<>> /\ seen # None => First = Following(seen)
    /\ buf # <<>> /\ Sending => held = Following(First)
    /\ buf = <<>> /\ seen # None /\ Sending => held = Following(seen)
    /\ reg /\ held = None /\ buf # <<>> => First = rcv
    /\ reg /\ held = None /\ buf = <<>> /\ seen # None => seen = rcv

\* tipChange is started once.
Started == client # "up" => tpc = "off"

Inv == TypeOK /\ Started /\ NoSendOnClosed /\ InOrder

LEMMA Numbers ==
    ASSUME NEW k \in Number \cup {None}
    PROVE  Following(k) \in Number /\ Following(k) # None
  BY ConstantsAssumption DEF Number, None, Following

\* The channel is empty or has one tip.
LEMMA Channel ==
    ASSUME TypeOK
    PROVE  \/ buf = <<>> /\ Len(buf) = 0
           \/ Len(buf) = 1 /\ buf # <<>> /\ First \in Number /\ buf = <<First>>
  <1>1. buf \in Seq(Number) /\ Len(buf) \in {0, 1}
    <2>1. buf \in Seq(Number) /\ Len(buf) <= 1
      BY DEF TypeOK, Capacity
    <2>2. Len(buf) \in Nat
      BY <2>1
    <2> QED BY <2>1, <2>2
  <1>2. CASE Len(buf) = 0
    BY <1>1, <1>2
  <1>3. CASE Len(buf) = 1
    BY <1>1, <1>3 DEF First
  <1> QED BY <1>1, <1>2, <1>3

LEMMA InitInv == Init => Inv
  <1> SUFFICES ASSUME Init PROVE Inv
    OBVIOUS
  <1>1. buf \in Seq(Number) /\ Len(buf) <= Capacity
    BY DEF Init, Capacity
  <1>2. live \in [Nodes -> BOOLEAN] /\ qpc \in [Nodes -> {"off", "idle", "send"}]
    BY DEF Init
  <1>3. upc \in [Users -> {"idle", "register", "unregister"}]
    BY DEF Init
  <1>4. held \in Number \cup {None} /\ (held # None <=> tpc \in {"lock", "send"})
    BY DEF Init
  <1>5. TypeOK
    BY <1>1, <1>2, <1>3, <1>4, Zenon DEF Init, TypeOK
  <1> QED BY <1>5 DEF Init, Inv, Started, NoSendOnClosed, InOrder, Sending, None

LEMMA NextInv == Inv /\ [Next]_vars => Inv'
  <1> SUFFICES ASSUME Inv, [Next]_vars PROVE Inv'
    OBVIOUS
  <1> USE DEF Inv
  <1>1. ASSUME NEW n \in Nodes,
               StartNetwork(n) \/ LeaderFails(n) \/ NewLeader(n) \/ TipChanged(n) \/ QueueEnds(n)
        PROVE  Inv'
    <2>1. TypeOK' /\ Started'
      BY <1>1 DEF StartNetwork, LeaderFails, NewLeader, TipChanged, QueueEnds, TypeOK, Started
    <2>2. UNCHANGED <<tpc, held, rcv, reg, buf, seen>>
      BY <1>1 DEF StartNetwork, LeaderFails, NewLeader, TipChanged, QueueEnds
    <2> QED BY <2>1, <2>2 DEF NoSendOnClosed, InOrder, Sending, First
  <1>2. ASSUME StartFails \/ StartTipChange \/ Stop \/ TipChangeEnds
        PROVE  Inv'
    <2>1. TypeOK' /\ Started'
      BY <1>2 DEF StartFails, StartTipChange, Stop, TipChangeEnds, TypeOK, Started
    <2>2. UNCHANGED <<held, rcv, reg, buf, seen>> /\ (tpc' = "send" => tpc = "send")
      BY <1>2 DEF StartFails, StartTipChange, Stop, TipChangeEnds, Started
    <2> QED BY <2>1, <2>2 DEF NoSendOnClosed, InOrder, Sending, First
  <1>3. ASSUME NEW n \in Nodes, Receive(n) PROVE Inv'
    <2>1. Following(rcv) \in Number /\ Following(rcv) # None /\ held = None
      BY <1>3, Numbers DEF TypeOK, Receive
    <2>2. TypeOK'
      BY <1>3, <2>1 DEF Receive, TypeOK
    <2>3. InOrder'
      BY <1>3, <2>1 DEF Receive, InOrder, Sending, First
    <2> QED BY <1>3, <2>2, <2>3 DEF Receive, NoSendOnClosed, Started
  <1>4. CASE RLock
    BY <1>4 DEF RLock, TypeOK, Started, NoSendOnClosed, InOrder, Sending, First
  <1>5. CASE Forward
    <2>1. buf = <<>> /\ held # None /\ held \in Number /\ reg
      BY <1>5, Channel DEF Forward, HasRoom, Capacity, TypeOK, NoSendOnClosed
    <2>2. buf' = <<held>> /\ First' = held /\ buf' # <<>> /\ Len(buf') = 1 /\ buf' \in Seq(Number)
      BY <1>5, <2>1 DEF Forward, First
    <2>3. TypeOK'
      BY <1>5, <2>2 DEF Forward, TypeOK, Capacity
    <2>4. InOrder'
      BY <1>5, <2>1, <2>2 DEF Forward, InOrder, Sending
    <2> QED BY <1>5, <2>3, <2>4 DEF Forward, NoSendOnClosed, Started
  <1>6. ASSUME NEW u \in Users, CallsRegister(u) \/ CallsUnregister(u) PROVE Inv'
    BY <1>6 DEF CallsRegister, CallsUnregister, Calls, TypeOK, Started, NoSendOnClosed, InOrder,
                Sending, First
  <1>7. ASSUME NEW u \in Users, Register(u) PROVE Inv'
    <2>1. CASE reg
      BY <1>7, <2>1 DEF Register, Returns, TypeOK, Started, NoSendOnClosed, InOrder, Sending, First
    <2>2. CASE ~reg
      <3>1. reg' = TRUE /\ buf' = <<>> /\ seen' = None
        BY <1>7, <2>2 DEF Register
      <3>2. TypeOK'
        BY <1>7, <3>1 DEF Register, Returns, TypeOK, Capacity
      <3>3. InOrder'
        BY <1>7, <3>1 DEF Register, InOrder, Sending
      <3> QED BY <1>7, <3>1, <3>2, <3>3 DEF Register, NoSendOnClosed, Started
    <2> QED BY <2>1, <2>2
  <1>8. ASSUME NEW u \in Users, Unregister(u) PROVE Inv'
    BY <1>8 DEF Unregister, Lock, ReadLocked, Returns, TypeOK, Started, NoSendOnClosed, InOrder,
                Sending, First
  <1>9. CASE Take
    <2>1. buf = <<First>> /\ First \in Number
      BY <1>9, Channel DEF Take
    <2>2. seen' = First /\ buf' = <<>> /\ First # None
      BY <1>9, <2>1 DEF Take, Number, None
    <2>3. TypeOK'
      BY <1>9, <2>1, <2>2 DEF Take, TypeOK, Capacity
    <2>4. InOrder'
      BY <1>9, <2>2 DEF Take, InOrder, Sending
    <2> QED BY <1>9, <2>3, <2>4 DEF Take, NoSendOnClosed, Started
  <1>10. CASE UNCHANGED vars
    BY <1>10 DEF vars, TypeOK, Started, NoSendOnClosed, InOrder, Sending, First
  <1> QED BY <1>1, <1>2, <1>3, <1>4, <1>5, <1>6, <1>7, <1>8, <1>9, <1>10 DEF Next

LEMMA Invariance == Spec => []Inv
  BY InitInv, NextInv, PTL DEF Spec

LEMMA Concat ==
    ASSUME NEW a \in Number, NEW b \in Number, NEW c \in Number
    PROVE  /\ (<<>> \o <<a>>) \o <<>> = <<a>>
           /\ (<<a>> \o <<b>>) \o <<>> = <<a, b>>
           /\ (<<>> \o <<a>>) \o <<b>> = <<a, b>>
           /\ (<<a>> \o <<b>>) \o <<c>> = <<a, b, c>>
  <1>1. <<>> \o <<a>> = <<a>> /\ <<a>> \o <<>> = <<a>>
    OBVIOUS
  <1>2. <<a>> \o <<b>> = <<a, b>>
    <2> DEFINE x == <<a>> \o <<b>>
    <2>1. x \in Seq(Number) /\ Len(x) = 2 /\ x[1] = a /\ x[2] = b
      BY ConcatProperties
    <2> DEFINE y == <<a, b>>
    <2>2. y \in Seq(Number) /\ Len(y) = 2 /\ y[1] = a /\ y[2] = b
      OBVIOUS
    <2> HIDE DEF x, y
    <2>3. x = y
      BY <2>1, <2>2, SeqEqual
    <2> QED BY <2>3 DEF x, y
  <1>3. <<a, b>> \o <<>> = <<a, b>>
    OBVIOUS
  <1>4. <<a, b>> \o <<c>> = <<a, b, c>>
    <2> DEFINE x == <<a, b>> \o <<c>>
    <2>1. x \in Seq(Number) /\ Len(x) = 3 /\ x[1] = a /\ x[2] = b /\ x[3] = c
      BY ConcatProperties
    <2> DEFINE y == <<a, b, c>>
    <2>2. y \in Seq(Number) /\ Len(y) = 3 /\ y[1] = a /\ y[2] = b /\ y[3] = c
      OBVIOUS
    <2> HIDE DEF x, y
    <2>3. x = y
      BY <2>1, <2>2, SeqEqual
    <2> QED BY <2>3 DEF x, y
  <1> QED BY <1>1, <1>2, <1>3, <1>4

\* What follows one another in pairs does so in the sequence of tips.
LEMMA InOrderTips == Inv => EveryTip
  <1> SUFFICES ASSUME Inv PROVE EveryTip
    OBVIOUS
  <1> USE DEF Inv
  <1>1. seen \in Number \cup {None} /\ held \in Number \cup {None}
    BY DEF TypeOK
  <1>2. CASE buf = <<>>
    BY <1>1, <1>2 DEF InOrder, Sending, EveryTip, Tips, Taken, UnderWay
  <1>3. CASE buf # <<>>
    <2>1. buf = <<First>> /\ First \in Number
      BY <1>3, Channel
    <2>2. CASE seen = None /\ ~Sending
      <3>1. Tips = <<First>>
        BY <2>1, <2>2, Concat DEF Tips, Taken, UnderWay, Sending
      <3> QED BY <1>3, <2>2, <3>1 DEF InOrder, Sending, EveryTip
    <2>3. CASE seen # None /\ ~Sending
      <3>1. Taken = <<seen>> /\ UnderWay = <<>>
        BY <2>3 DEF Taken, UnderWay, Sending
      <3>2. Tips = <<seen, First>>
        BY <1>1, <2>1, <2>3, <3>1, Concat DEF Tips
      <3> QED BY <1>3, <2>3, <3>2 DEF InOrder, Sending, EveryTip
    <2>4. CASE seen = None /\ Sending
      <3>1. Taken = <<>> /\ UnderWay = <<held>>
        BY <2>4 DEF Taken, UnderWay, Sending
      <3>2. Tips = <<First, held>>
        BY <1>1, <2>1, <2>4, <3>1, Concat DEF Tips, Sending
      <3> QED BY <1>3, <2>4, <3>2 DEF InOrder, Sending, EveryTip
    <2>5. CASE seen # None /\ Sending
      <3>1. Taken = <<seen>> /\ UnderWay = <<held>>
        BY <2>5 DEF Taken, UnderWay, Sending
      <3>2. Tips = <<seen, First, held>>
        BY <1>1, <2>1, <2>5, <3>1, Concat DEF Tips, Sending
      <3> QED BY <1>3, <2>5, <3>2 DEF InOrder, Sending, EveryTip
    <2> QED BY <2>2, <2>3, <2>4, <2>5
  <1> QED BY <1>2, <1>3

-----------------------------------------------------------------------------
(* The theorems. *)

\* tipChange has a tip exactly between its receive and the end of its send, and the
\* user's channel never holds more than one.
THEOREM TypeCorrect == Spec => []TypeOK
  BY Invariance, PTL DEF Inv

\* No interleaving of tips with Register and Unregister sends on a closed channel.
THEOREM NeverOnClosed == Spec => []NoSendOnClosed
  BY Invariance, PTL DEF Inv

\* A registered user gets every tip that the leaders hand over, in their order.
THEOREM NoTipLost == Spec => []EveryTip
  BY Invariance, InOrderTips, PTL
=============================================================================
