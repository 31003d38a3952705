---------------------------- MODULE ClientProofs ----------------------------
(***************************************************************************)
(* Theorems about Client, for both datastores, any GAP_LIMIT, any number   *)
(* of notification goroutines and any bounds.                              *)
(***************************************************************************)
EXTENDS Client, FiniteSetTheorems, WellFoundedInduction, TLAPS

-----------------------------------------------------------------------------
(* The lookahead window as a function of the number of keys.               *)

LEMMA AheadFinite ==
    ASSUME NEW c, NEW n \in Nat, NEW u
    PROVE  /\ IsFiniteSet(Ahead(c, n, u))
           /\ Window(c, n, u) \in Nat
  <1>1. IsFiniteSet(0..(n - 1))
    BY FS_Interval
  <1>2. Ahead(c, n, u) \subseteq 0..(n - 1)
    BY DEF Ahead, Unused
  <1> QED BY <1>1, <1>2, FS_Subset, FS_CardinalityType DEF Window

LEMMA IntervalSize ==
    ASSUME NEW a \in Nat, NEW m \in Nat
    PROVE  IsFiniteSet(a..(a + m - 1)) /\ Cardinality(a..(a + m - 1)) = m
  <1>1. CASE m = 0
    <2>1. a..(a + m - 1) = {}
      BY <1>1
    <2> QED BY <1>1, <2>1, FS_EmptySet
  <1>2. CASE m > 0
    BY <1>2, FS_Interval
  <1> QED BY <1>1, <1>2

\* New keys are at the end and unused: all of them are in the window.
LEMMA WindowGrows ==
    ASSUME NEW c, NEW n \in Nat, NEW m \in Nat, NEW u,
           \A j \in Nat : <<c, j>> \in u => j < n
    PROVE  Window(c, n + m, u) = Window(c, n, u) + m
  <1> DEFINE New == n..(n + m - 1)
  <1>1. Ahead(c, n + m, u) = Ahead(c, n, u) \union New
    <2>1. ASSUME NEW i \in Ahead(c, n + m, u) PROVE i \in Ahead(c, n, u) \union New
      BY <2>1 DEF Ahead, Unused
    <2>2. ASSUME NEW i \in Ahead(c, n, u) PROVE i \in Ahead(c, n + m, u)
      <3>1. i \in 0..(n - 1) /\ <<c, i>> \notin u
        BY <2>2 DEF Ahead, Unused
      <3>2. ASSUME Sqlite, NEW j \in i..(n + m - 1) PROVE <<c, j>> \notin u
        <4>1. CASE j < n
          BY <2>2, <3>1, <3>2, <4>1 DEF Ahead
        <4>2. CASE j >= n
          BY <3>1, <3>2, <4>2
        <4> QED BY <3>1, <3>2, <4>1, <4>2
      <3> QED BY <3>1, <3>2 DEF Ahead, Unused
    <2>3. ASSUME NEW i \in New PROVE i \in Ahead(c, n + m, u)
      <3>1. i \in 0..(n + m - 1) /\ i >= n
        BY <2>3
      <3>2. \A j \in i..(n + m - 1) : <<c, j>> \notin u
        BY <3>1
      <3> QED BY <3>1, <3>2 DEF Ahead, Unused
    <2> QED BY <2>1, <2>2, <2>3
  <1>2. Ahead(c, n, u) \intersect New = {}
    BY DEF Ahead, Unused
  <1>3. IsFiniteSet(New) /\ Cardinality(New) = m
    BY IntervalSize
  <1>4. IsFiniteSet(Ahead(c, n, u))
    BY AheadFinite
  <1>5. Cardinality(Ahead(c, n, u) \union New) = Cardinality(Ahead(c, n, u)) + m
    <2> HIDE DEF New
    <2>1. Cardinality(Ahead(c, n, u) \intersect New) = 0
      BY <1>2, FS_EmptySet
    <2>2. Cardinality(Ahead(c, n, u)) \in Nat
      BY <1>4, FS_CardinalityType
    <2>3. Cardinality(Ahead(c, n, u) \union New)
             = Cardinality(Ahead(c, n, u)) + Cardinality(New)
                 - Cardinality(Ahead(c, n, u) \intersect New)
      BY <1>3, <1>4, FS_Union
    <2> QED BY <1>3, <2>1, <2>2, <2>3
  <1> QED BY <1>1, <1>5 DEF Window

\* Marking keys never widens it.
LEMMA WindowShrinks ==
    ASSUME NEW c, NEW n \in Nat, NEW u, NEW v, u \subseteq v
    PROVE  Window(c, n, v) <= Window(c, n, u)
  <1>1. Ahead(c, n, v) \subseteq Ahead(c, n, u)
    BY DEF Ahead, Unused
  <1> QED BY <1>1, AheadFinite, FS_Subset DEF Window

\* With no key used beyond MaxIndex - GAP_LIMIT, the window bounds the keys.
LEMMA KeysBounded ==
    ASSUME NEW c, NEW n \in Nat, NEW u,
           Window(c, n, u) <= GAP_LIMIT,
           \A j \in Nat : <<c, j>> \in u => j + GAP_LIMIT <= MaxIndex
    PROVE  n <= MaxIndex + 1
  <1> USE ConstantsAssumption
  <1> SUFFICES ASSUME n > MaxIndex + 1 PROVE FALSE
    OBVIOUS
  <1> DEFINE a == MaxIndex + 1 - GAP_LIMIT
             m == n - a
             Tail0 == a..(a + m - 1)
  <1>1. a \in Nat /\ m \in Nat /\ m > GAP_LIMIT /\ a + m = n
    OBVIOUS
  <1>2. Tail0 \subseteq Ahead(c, n, u)
    <2> SUFFICES ASSUME NEW i \in Tail0 PROVE i \in Ahead(c, n, u)
      OBVIOUS
    <2>1. i \in 0..(n - 1) /\ i >= a
      BY <1>1
    <2>2. \A j \in i..(n - 1) : <<c, j>> \notin u
      BY <2>1, <1>1
    <2> QED BY <2>1, <2>2 DEF Ahead, Unused
  <1>3. Cardinality(Tail0) = m
    BY <1>1, IntervalSize
  <1>4. Cardinality(Tail0) <= Window(c, n, u)
    <2> HIDE DEF Tail0
    <2> QED BY <1>2, AheadFinite, FS_Subset DEF Window
  <1>5. Window(c, n, u) \in Nat
    BY AheadFinite
  <1> QED BY <1>1, <1>3, <1>4, <1>5

-----------------------------------------------------------------------------
(* Type correctness.  That key indices stay within the bound follows from  *)
(* the window being at most GAP_LIMIT wide.                                *)

PaidLow == \A k \in Key : hist[k] > 0 => k[2] + GAP_LIMIT <= MaxIndex
UsedPaid == \A k \in used : hist[k] > 0 /\ k[2] < nkeys[k[1]]
Bounded == \A c \in Purpose : Window(c, nkeys[c], used) <= GAP_LIMIT

KeyInv == PaidLow /\ UsedPaid /\ Bounded
TypeInv == TypeOK /\ KeyInv

LEMMA KeyFacts ==
    /\ None \in Key
    /\ \A k \in Key : k[1] \in Purpose /\ k[2] \in 0..MaxIndex /\ k = <<k[1], k[2]>>
    /\ \A c \in Purpose, i \in 0..MaxIndex : <<c, i>> \in Key
  BY ConstantsAssumption DEF Key, Purpose, None

\* Used keys lie below the number of keys.
LEMMA UsedBelow ==
    ASSUME TypeInv, NEW c \in Purpose, NEW j \in Nat, <<c, j>> \in used
    PROVE  j < nkeys[c] /\ j + GAP_LIMIT <= MaxIndex
  <1>1. <<c, j>> \in Key
    BY DEF TypeInv, TypeOK
  <1> QED BY <1>1 DEF TypeInv, KeyInv, UsedPaid, PaidLow

LEMMA KeyInvKept ==
    ASSUME TypeInv, UNCHANGED <<nkeys, used, hist>>
    PROVE  KeyInv'
  BY DEF TypeInv, KeyInv, PaidLow, UsedPaid, Bounded

\* lookahead after keys are marked: every window is GAP_LIMIT wide.
LEMMA Marked ==
    ASSUME TypeInv, NEW M \in SUBSET Paid, M # {}, MarkKeyAsUsed(M), hist' = hist
    PROVE  /\ KeyInv'
           /\ nkeys' \in [Purpose -> 0..(MaxIndex + 1)]
           /\ used' \subseteq Key
           /\ \A c \in Purpose : Window(c, nkeys'[c], used') = GAP_LIMIT
  <1> DEFINE v == used \union M
  <1> USE ConstantsAssumption
  <1>1. used' = v /\ v \subseteq Key
    BY DEF MarkKeyAsUsed, Paid, Owned, TypeInv, TypeOK
  <1>2. ASSUME NEW c \in Purpose
        PROVE  /\ nkeys'[c] \in Nat /\ nkeys'[c] >= nkeys[c]
               /\ nkeys'[c] <= MaxIndex + 1
               /\ Window(c, nkeys'[c], v) = GAP_LIMIT
    <2> DEFINE n == nkeys[c]
               w == Window(c, n, v)
    <2>1. n \in Nat
      BY DEF TypeInv, TypeOK
    <2>2. w \in Nat /\ w <= GAP_LIMIT
      <3>1. w \in Nat /\ Window(c, n, used) \in Nat
        BY <2>1, AheadFinite
      <3>2. w <= Window(c, n, used)
        BY <2>1, WindowShrinks
      <3>3. Window(c, n, used) <= GAP_LIMIT
        BY DEF TypeInv, KeyInv, Bounded
      <3> QED BY <3>1, <3>2, <3>3
    <2>3. nkeys'[c] = n + (GAP_LIMIT - w)
      <3>1. nkeys'[c] = Extended(n, w)
        BY DEF MarkKeyAsUsed
      <3> HIDE DEF w
      <3> QED BY <2>1, <2>2, <3>1 DEF Extended
    <2>4. \A j \in Nat : <<c, j>> \in v => j < n /\ j + GAP_LIMIT <= MaxIndex
      <3> SUFFICES ASSUME NEW j \in Nat, <<c, j>> \in v
                   PROVE  j < n /\ j + GAP_LIMIT <= MaxIndex
        OBVIOUS
      <3>1. CASE <<c, j>> \in used
        BY <3>1, UsedBelow
      <3>2. CASE <<c, j>> \in M
        BY <3>2 DEF Paid, Owned, TypeInv, KeyInv, PaidLow
      <3> QED BY <3>1, <3>2
    <2>5. Window(c, n + (GAP_LIMIT - w), v) = w + (GAP_LIMIT - w)
      <3>1. GAP_LIMIT - w \in Nat
        BY <2>2
      <3> HIDE DEF v
      <3> QED BY <2>1, <2>4, <3>1, WindowGrows
    <2>6. Window(c, nkeys'[c], v) = GAP_LIMIT /\ nkeys'[c] \in Nat /\ nkeys'[c] >= n
      <3> HIDE DEF w
      <3> QED BY <2>1, <2>2, <2>3, <2>5
    <2>7. nkeys'[c] <= MaxIndex + 1
      <3> HIDE DEF v
      <3> QED BY <2>4, <2>6, KeysBounded
    <2> QED BY <2>6, <2>7
  <1>3. nkeys' \in [Purpose -> 0..(MaxIndex + 1)]
    <2>1. nkeys' = [c \in Purpose |-> nkeys'[c]]
      BY DEF MarkKeyAsUsed
    <2> QED BY <1>2, <2>1
  <1>4. PaidLow'
    BY DEF PaidLow, TypeInv, KeyInv
  <1>5. UsedPaid'
    <2> SUFFICES ASSUME NEW x \in v PROVE hist[x] > 0 /\ x[2] < nkeys'[x[1]]
      BY <1>1 DEF UsedPaid
    <2>1. x \in Key /\ hist[x] > 0 /\ x[2] < nkeys[x[1]]
      BY <1>1 DEF Paid, Owned, TypeInv, KeyInv, UsedPaid
    <2>2. x[1] \in Purpose /\ x[2] \in Nat
      BY <2>1, KeyFacts
    <2>3. nkeys[x[1]] \in Nat
      BY <2>2 DEF TypeInv, TypeOK
    <2> QED BY <1>2, <2>1, <2>2, <2>3
  <1>6. Bounded'
    BY <1>1, <1>2 DEF Bounded
  <1> QED BY <1>1, <1>2, <1>3, <1>4, <1>5, <1>6 DEF KeyInv

LEMMA MarkedOrNot ==
    ASSUME TypeInv, NEW M \in SUBSET Paid, MarkKeyAsUsed(M), hist' = hist
    PROVE  /\ KeyInv'
           /\ nkeys' \in [Purpose -> 0..(MaxIndex + 1)]
           /\ used' \subseteq Key
  <1>1. CASE M = {}
    <2>1. UNCHANGED <<nkeys, used>>
      BY <1>1 DEF MarkKeyAsUsed, TypeInv, TypeOK
    <2> QED BY <2>1, KeyInvKept DEF TypeInv, TypeOK
  <1> QED BY <1>1, Marked

Adds(k) == AddTxHistoryToWallet(k) \/ AddSomeOfHistory(k)

LEMMA Fetched ==
    ASSUME TypeInv, NEW k \in Key, Adds(k), hist' = hist
    PROVE  /\ KeyInv'
           /\ nkeys' \in [Purpose -> 0..(MaxIndex + 1)]
           /\ used' \subseteq Key /\ dropped' \subseteq Key
           /\ seen' \in [Key -> 0..MaxChanges]
  <1>1. dropped' \subseteq Key /\ seen' \in [Key -> 0..MaxChanges]
    BY DEF Adds, AddTxHistoryToWallet, AddSomeOfHistory, LetGo, TypeInv, TypeOK
  <1>2. PICK M \in SUBSET Paid : MarkKeyAsUsed(M)
    BY DEF Adds, AddTxHistoryToWallet, AddSomeOfHistory
  <1> QED BY <1>1, <1>2, MarkedOrNot

LEMMA FreshKey ==
    ASSUME TypeInv, NEW c \in Purpose, GetFreshKey(c)
    PROVE  TypeInv'
  <1> USE ConstantsAssumption
  <1> DEFINE n == nkeys[c]
  <1>1. /\ nkeys' = [nkeys EXCEPT ![c] = n + 1] /\ n \in Nat
        /\ UNCHANGED <<used, hist>>
        /\ Window(c, n, used) < GAP_LIMIT
    BY DEF GetFreshKey, Narrow, TypeInv, TypeOK, server
  <1>2. nkeys'[c] = n + 1 /\ \A d \in Purpose : d # c => nkeys'[d] = nkeys[d]
    BY <1>1 DEF TypeInv, TypeOK
  <1>3. Window(c, n + 1, used) = Window(c, n, used) + 1
    <2>1. \A j \in Nat : <<c, j>> \in used => j < n
      BY UsedBelow
    <2> QED BY <1>1, <2>1, WindowGrows
  <1>4. Window(c, n, used) \in Nat
    BY <1>1, AheadFinite
  <1>5. Bounded'
    BY <1>1, <1>2, <1>3, <1>4 DEF Bounded, TypeInv, KeyInv
  <1>6. n + 1 <= MaxIndex + 1
    <2>1. \A j \in Nat : <<c, j>> \in used => j + GAP_LIMIT <= MaxIndex
      BY UsedBelow
    <2>2. Window(c, n + 1, used) <= GAP_LIMIT
      BY <1>1, <1>3, <1>4
    <2> QED BY <1>1, <2>1, <2>2, KeysBounded
  <1>7. nkeys' \in [Purpose -> 0..(MaxIndex + 1)]
    BY <1>1, <1>6 DEF TypeInv, TypeOK
  <1>8. TypeOK'
    BY <1>7 DEF GetFreshKey, TypeInv, TypeOK, call, readers, server, history
  <1>9. PaidLow'
    BY <1>1 DEF PaidLow, TypeInv, KeyInv
  <1>10. UsedPaid'
    <2> SUFFICES ASSUME NEW x \in used PROVE hist[x] > 0 /\ x[2] < nkeys'[x[1]]
      BY <1>1 DEF UsedPaid
    <2>1. x \in Key /\ hist[x] > 0 /\ x[2] < nkeys[x[1]]
      BY DEF TypeInv, TypeOK, KeyInv, UsedPaid
    <2>2. x[1] \in Purpose /\ x[2] \in Nat
      BY <2>1, KeyFacts
    <2> QED BY <1>1, <1>2, <2>1, <2>2
  <1> QED BY <1>5, <1>8, <1>9, <1>10 DEF TypeInv, KeyInv

LEMMA ChangeType ==
    ASSUME TypeInv, NEW S \in SUBSET Key, Change(S), UNCHANGED <<nkeys, used>>
    PROVE  KeyInv' /\ hist' \in [Key -> 0..MaxChanges]
  <1>1. hist' \in [Key -> 0..MaxChanges]
    BY ConstantsAssumption DEF Change, TypeInv, TypeOK
  <1>2. \A k \in Key : hist[k] \in Nat /\ hist'[k] >= hist[k]
    BY DEF Change, TypeInv, TypeOK
  <1>3. PaidLow'
    BY DEF PaidLow, Change, TypeInv, KeyInv, TypeOK
  <1>4. UsedPaid'
    BY <1>1, <1>2 DEF UsedPaid, TypeInv, KeyInv, TypeOK
  <1>5. Bounded'
    BY DEF Bounded, TypeInv, KeyInv
  <1> QED BY <1>1, <1>3, <1>4, <1>5 DEF KeyInv

LEMMA InitType == Init => TypeInv
  <1> SUFFICES ASSUME Init PROVE TypeInv
    OBVIOUS
  <1>1. TypeOK
    BY ConstantsAssumption, KeyFacts DEF Init, TypeOK
  <1>2. Bounded
    <2>1. \A c \in Purpose : Ahead(c, 0, {}) = {}
      BY DEF Ahead, Unused
    <2> QED BY <2>1, FS_EmptySet, ConstantsAssumption DEF Init, Bounded, Window
  <1>3. PaidLow /\ UsedPaid
    BY DEF Init, PaidLow, UsedPaid
  <1> QED BY <1>1, <1>2, <1>3 DEF TypeInv, KeyInv

LEMMA BeginRescanType ==
    ASSUME BeginRescan
    PROVE  /\ key' \in Key /\ hit' \in 0..MaxIndex /\ owed' \subseteq Key
           /\ pc' = "rescan"
  BY KeyFacts, ConstantsAssumption DEF BeginRescan, Goto

LEMMA OpeningType == TypeInv /\ Opening => TypeInv'
  <1> SUFFICES ASSUME TypeInv, Opening PROVE TypeInv'
    OBVIOUS
  <1> USE DEF Goto
  <1>1. CASE CreateWallet \/ RecreateWallet
    BY <1>1, KeyInvKept DEF CreateWallet, RecreateWallet, MakeWallet, TypeInv, TypeOK,
       readers, server, history
  <1>2. CASE LoadWallet \/ PutSecret
    BY <1>2, KeyInvKept DEF LoadWallet, PutSecret, TypeInv, TypeOK, disk, readers,
       server, history
  <1>3. CASE KeysReady
    BY <1>3, KeyInvKept DEF KeysReady, TypeInv, TypeOK, disk, readers, server, history
  <1>4. CASE PutCreationDate
    BY <1>4, KeyInvKept, BeginRescanType
       DEF PutCreationDate, TypeInv, TypeOK, readers, server
  <1>5. ASSUME NEW c \in Purpose, GetFreshKey(c) PROVE TypeInv'
    BY <1>5, FreshKey
  <1> QED BY <1>1, <1>2, <1>3, <1>4, <1>5 DEF Opening

LEMMA NextKeyType ==
    ASSUME TypeInv, NEW h \in 0..MaxIndex, NextKey(h)
    PROVE  key' \in Key /\ hit' \in 0..MaxIndex /\ pc' \in {pc, "idle"}
  <1>1. key[1] \in Purpose /\ key[2] \in 0..MaxIndex
    BY KeyFacts DEF TypeInv, TypeOK
  <1> QED BY <1>1, KeyFacts, ConstantsAssumption DEF NextKey, Goto, Purpose, Key, None

LEMMA RescanningType == TypeInv /\ Rescanning => TypeInv'
  <1> SUFFICES ASSUME TypeInv, Rescanning PROVE TypeInv'
    OBVIOUS
  <1>0. key[2] \in 0..MaxIndex /\ hit \in 0..MaxIndex
    BY KeyFacts DEF TypeInv, TypeOK
  <1>1. CASE RescanWallet
    BY <1>1, KeyInvKept, BeginRescanType
       DEF RescanWallet, TypeInv, TypeOK, disk, readers, server
  <1>2. CASE RescanMiss
    BY <1>0, <1>2, KeyInvKept, NextKeyType
       DEF RescanMiss, TypeInv, TypeOK, disk, readers, server, history
  <1>3. CASE RescanHit
    BY <1>0, <1>3, KeyInvKept, NextKeyType
       DEF RescanHit, AddSubscription, TypeInv, TypeOK, readers, server
  <1>4. CASE RescanFails
    BY <1>0, <1>4, KeyInvKept, NextKeyType
       DEF RescanFails, TypeInv, TypeOK, disk, readers, server
  <1> QED BY <1>1, <1>2, <1>3, <1>4 DEF Rescanning

LEMMA SubscribeFailedType ==
    ASSUME TypeInv, NEW k \in Key, SubscribeFailed(k)
    PROVE  watched' \subseteq Key /\ dropped' \subseteq Key
  BY DEF SubscribeFailed, SubscribeScripthashNotify, StatusIgnored, TypeInv, TypeOK

LEMMA SyncingType == TypeInv /\ Syncing => TypeInv'
  <1> SUFFICES ASSUME TypeInv, Syncing PROVE TypeInv'
    OBVIOUS
  <1> USE DEF Goto
  <1>1. CASE SyncWallet
    BY <1>1, KeyInvKept DEF SyncWallet, TypeInv, TypeOK, disk, readers, server, history
  <1>2. CASE SyncHistory \/ SyncHistoryPartly
    <2>1. key \in Key /\ hist' = hist /\ Adds(key)
      BY <1>2 DEF SyncHistory, SyncHistoryPartly, Adds, TypeInv, TypeOK, server
    <2> QED BY <1>2, <2>1, Fetched, KeyFacts
            DEF SyncHistory, SyncHistoryPartly, TypeInv, TypeOK, readers, server
  <1>3. CASE SyncHistoryFails
    BY <1>3, KeyInvKept, KeyFacts
       DEF SyncHistoryFails, LetGo, TypeInv, TypeOK, disk, readers, server
  <1>4. ASSUME NEW k \in Key, SyncSubscribe(k) PROVE TypeInv'
    BY <1>4, KeyInvKept
       DEF SyncSubscribe, SubscribeScripthashNotify, TypeInv, TypeOK, disk, readers, history
  <1>5. ASSUME NEW k \in Key, SyncSubscribeFails(k) PROVE TypeInv'
    BY <1>5, KeyInvKept, SubscribeFailedType
       DEF SyncSubscribeFails, TypeInv, TypeOK, disk, readers
  <1>6. ASSUME NEW r \in Readers, AddressStatusNotify(r) PROVE TypeInv'
    BY <1>6, KeyInvKept
       DEF AddressStatusNotify, TypeInv, TypeOK, disk, server, history
  <1> QED BY <1>1, <1>2, <1>3, <1>4, <1>5, <1>6 DEF Syncing

\* A broadcast appends notifications of the wallet's own addresses.
LEMMA AnnouncedType ==
    ASSUME NEW S \in SUBSET Key, NEW s \in Announcements(S), pending \in Seq(Key)
    PROVE  s \in Seq(Key) /\ pending \o s \in Seq(Key)
  <1>1. IsFiniteSet(Key)
    <2>1. IsFiniteSet(0..MaxIndex)
      BY FS_Interval, ConstantsAssumption
    <2>2. IsFiniteSet(Purpose)
      <3>1. IsFiniteSet({0})
        BY FS_Singleton
      <3>2. IsFiniteSet({0} \union {1})
        BY <3>1, FS_AddElement
      <3>3. Purpose = {0} \union {1}
        BY DEF Purpose
      <3> QED BY <3>2, <3>3
    <2> QED BY <2>1, <2>2, FS_Product DEF Key
  <1>2. Cardinality(S) \in Nat
    BY <1>1, FS_Subset, FS_CardinalityType
  <1>3. s \in [1..Cardinality(S) -> Key]
    BY DEF Announcements
  <1>4. s \in Seq(Key)
    BY <1>2, <1>3
  <1> QED BY <1>4

LEMMA SubscribingType == TypeInv /\ Subscribing => TypeInv'
  <1> SUFFICES ASSUME TypeInv, Subscribing PROVE TypeInv'
    OBVIOUS
  <1> USE DEF Goto
  <1>1. ASSUME NEW c \in Purpose, GetNewAddress(c) PROVE TypeInv'
    <2> PICK i \in Unused(c, nkeys[c], used) :
                key' = <<c, i>> /\ AddSubscription(<<c, i>>)
      BY <1>1 DEF GetNewAddress
    <2>1. i \in 0..MaxIndex
      <3>1. nkeys[c] \in 0..(MaxIndex + 1)
        BY DEF TypeInv, TypeOK
      <3> QED BY <3>1, ConstantsAssumption DEF Unused
    <2>2. <<c, i>> \in Key
      BY <2>1, KeyFacts
    <2> QED BY <1>1, <2>2, KeyInvKept
            DEF GetNewAddress, AddSubscription, TypeInv, TypeOK, readers, server
  <1>2. ASSUME NEW S \in SUBSET Owned, Broadcast(S) PROVE TypeInv'
    <2>0. S \subseteq Key /\ S \intersect watched \subseteq Key
      BY DEF Owned
    <2>1. KeyInv' /\ hist' \in [Key -> 0..MaxChanges]
      BY <1>2, <2>0, ChangeType DEF Broadcast, disk
    <2>2. pending' \in Seq(Key)
      BY <1>2, <2>0, AnnouncedType DEF Broadcast, TypeInv, TypeOK
    <2> QED BY <1>2, <2>0, <2>1, <2>2
            DEF Broadcast, TypeInv, TypeOK, disk, readers, history
  <1>3. ASSUME NEW k \in Key, PutBack(k) PROVE TypeInv'
    BY <1>3, KeyInvKept
       DEF PutBack, AddSubscription, TypeInv, TypeOK, readers, server
  <1>4. ASSUME NEW k \in Key, UnsubscribeAddressNotify(k) PROVE TypeInv'
    BY <1>4, KeyInvKept
       DEF UnsubscribeAddressNotify, TypeInv, TypeOK, disk, readers
  <1>5. CASE Subscribed
    BY <1>5, KeyInvKept, KeyFacts
       DEF Subscribed, SubscribeScripthashNotify, StatusIgnored, TypeInv, TypeOK, disk,
           readers
  <1>6. CASE NotSubscribed
    <2>1. key \in Key
      BY DEF TypeInv, TypeOK
    <2> QED BY <1>6, <2>1, KeyInvKept, KeyFacts, SubscribeFailedType
            DEF NotSubscribed, RemoveSubscription, TypeInv, TypeOK, readers
  <1>7. CASE RemoveRow
    BY <1>7, KeyInvKept, KeyFacts
       DEF RemoveRow, RemoveSubscription, TypeInv, TypeOK, readers, server
  <1> QED BY <1>1, <1>2, <1>3, <1>4, <1>5, <1>6, <1>7 DEF Subscribing

LEMMA ReadingType == TypeInv /\ Reading => TypeInv'
  <1> SUFFICES ASSUME TypeInv, NEW r \in Readers,
                      \/ TakeNotification(r) \/ NoSubscription(r)
                      \/ ReaderHistory(r) \/ ReaderFails(r)
               PROVE  TypeInv'
    BY DEF Reading
  <1>1. ASSUME pending # <<>>
        PROVE  Head(pending) \in Key /\ Tail(pending) \in Seq(Key)
    BY <1>1 DEF TypeInv, TypeOK
  <1>2. CASE TakeNotification(r)
    BY <1>1, <1>2, KeyInvKept DEF TakeNotification, TypeInv, TypeOK, disk, call, history
  <1>3. CASE NoSubscription(r)
    BY <1>1, <1>3, KeyInvKept DEF NoSubscription, LetGo, TypeInv, TypeOK, disk, call
  <1>4. CASE ReaderHistory(r) \/ ReaderFails(r)
    <2>1. rkey[r] \in Key /\ hist' = hist /\ Adds(rkey[r])
      BY <1>4 DEF ReaderHistory, ReaderFails, Adds, TypeInv, TypeOK, server
    <2> QED BY <1>4, <2>1, Fetched, KeyFacts
            DEF ReaderHistory, ReaderFails, TypeInv, TypeOK, call, server
  <1> QED BY <1>2, <1>3, <1>4

LEMMA NextType == TypeInv /\ [Next]_vars => TypeInv'
  <1> SUFFICES ASSUME TypeInv, [Next]_vars PROVE TypeInv'
    OBVIOUS
  <1>1. CASE Opening \/ Rescanning \/ Syncing \/ Subscribing \/ Reading
    BY <1>1, OpeningType, RescanningType, SyncingType, SubscribingType, ReadingType
  <1>2. ASSUME NEW k \in Key, Pay(k) PROVE TypeInv'
    <2>1. KeyInv' /\ hist' \in [Key -> 0..MaxChanges]
      BY <1>2, ChangeType DEF Pay, disk
    <2>2. pending' \in Seq(Key)
      BY <1>2 DEF Pay, TypeInv, TypeOK
    <2> QED BY <1>2, <2>1, <2>2 DEF Pay, TypeInv, TypeOK, disk, call, readers, history
  <1>3. CASE Failover
    <2>1. pending' \in Seq(Key)
      <3>1. pending' = pending \/ pending' = <<>>
        BY <1>3 DEF Failover
      <3>2. pending \in Seq(Key) /\ <<>> \in Seq(Key)
        BY DEF TypeInv, TypeOK
      <3> QED BY <3>1, <3>2
    <2>2. KeyInv'
      BY <1>3, KeyInvKept DEF Failover, disk
    <2> QED BY <1>3, <2>1, <2>2 DEF Failover, TypeInv, TypeOK, disk, call, readers
  <1>4. CASE Stop
    <2>1. pending' \in Seq(Key)
      BY <1>4 DEF Stop
    <2>2. KeyInv'
      BY <1>4, KeyInvKept DEF Stop, disk
    <2>3. reader' \in [Readers -> {"none", "wait", "fetch", "gone"}]
          /\ rkey' \in [Readers -> Key]
      BY <1>4, KeyFacts DEF Stop
    <2> QED BY <1>4, <2>1, <2>2, <2>3, KeyFacts, ConstantsAssumption, SMTT(30)
            DEF Stop, Goto, TypeInv, TypeOK, disk
  <1>5. CASE RmWallet
    <2>1. \A c \in Purpose : Ahead(c, 0, {}) = {}
      BY DEF Ahead, Unused
    <2>2. Bounded'
      BY <1>5, <2>1, FS_EmptySet, ConstantsAssumption DEF RmWallet, Bounded, Window
    <2>3. PaidLow' /\ UsedPaid'
      BY <1>5 DEF RmWallet, PaidLow, UsedPaid, TypeInv, KeyInv, server
    <2>4. TypeOK'
      BY <1>5, ConstantsAssumption
         DEF RmWallet, TypeInv, TypeOK, call, readers, server, history
    <2> QED BY <2>2, <2>3, <2>4 DEF TypeInv, KeyInv
  <1>6. CASE UNCHANGED vars
    BY <1>6, KeyInvKept
       DEF vars, disk, call, readers, server, history, TypeInv, TypeOK
  <1> QED BY <1>1, <1>2, <1>3, <1>4, <1>5, <1>6 DEF Next

LEMMA TypeInvHolds == Spec => []TypeInv
  BY InitType, NextType, PTL DEF Spec

\* The types, and with them that key indices stay within the bound whichever
\* datastore counts the window.
THEOREM TypeCorrect == Spec => []TypeOK
  <1>1. TypeInv => TypeOK
    BY DEF TypeInv
  <1> QED BY <1>1, TypeInvHolds, PTL

-----------------------------------------------------------------------------
(* The lookahead window.                                                   *)

GapInv == TypeInv /\ GapKept

LEMMA GapStays ==
    ASSUME GapInv, UNCHANGED <<nkeys, used>>,
           \/ pc \notin {"closed", "secret", "keys"}
           \/ pc' \in {"closed", "secret", "keys"}
    PROVE  GapKept'
  BY DEF GapInv, GapKept, Narrow

LEMMA GapFetched ==
    ASSUME GapInv, NEW k \in Key, Adds(k), hist' = hist,
           \/ pc \notin {"closed", "secret", "keys"}
           \/ pc' \in {"closed", "secret", "keys"}
    PROVE  GapKept'
  <1>1. PICK M \in SUBSET Paid : MarkKeyAsUsed(M)
    BY DEF Adds, AddTxHistoryToWallet, AddSomeOfHistory
  <1>2. CASE M # {}
    <2>1. \A c \in Purpose : Window(c, nkeys'[c], used') = GAP_LIMIT
      BY <1>1, <1>2, Marked DEF GapInv
    <2> QED BY <2>1, ConstantsAssumption DEF GapKept, Narrow
  <1>3. CASE M = {}
    <2>1. UNCHANGED <<nkeys, used>>
      BY <1>1, <1>3 DEF MarkKeyAsUsed, GapInv, TypeInv, TypeOK
    <2> QED BY <2>1, GapStays
  <1> QED BY <1>2, <1>3

LEMMA NextGap == GapInv /\ [Next]_vars => GapKept'
  <1> SUFFICES ASSUME GapInv, [Next]_vars PROVE GapKept'
    OBVIOUS
  <1> USE DEF Goto
  <1>1. CASE Opening
    <2>1. CASE CreateWallet \/ RecreateWallet \/ LoadWallet \/ PutSecret \/ PutCreationDate
      BY <2>1, GapStays DEF CreateWallet, RecreateWallet, MakeWallet, LoadWallet, PutSecret,
         PutCreationDate, disk
    <2>2. CASE KeysReady
      BY <2>2 DEF KeysReady, GapKept, Narrow, disk
    <2>3. ASSUME NEW c \in Purpose, GetFreshKey(c) PROVE GapKept'
      BY <2>3 DEF GetFreshKey, GapKept, call
    <2> QED BY <1>1, <2>1, <2>2, <2>3 DEF Opening
  <1>2. CASE Rescanning
    BY <1>2, GapStays DEF Rescanning, RescanWallet, RescanMiss, RescanHit, RescanFails, disk
  <1>3. CASE Syncing
    <2>1. CASE SyncHistory \/ SyncHistoryPartly
      <3>1. key \in Key /\ hist' = hist /\ Adds(key)
        BY <2>1 DEF SyncHistory, SyncHistoryPartly, Adds, GapInv, TypeInv, TypeOK, server
      <3> QED BY <2>1, <3>1, GapFetched DEF SyncHistory, SyncHistoryPartly
    <2>2. CASE SyncWallet \/ SyncHistoryFails
      BY <2>2, GapStays DEF SyncWallet, SyncHistoryFails, disk
    <2>3. ASSUME NEW k \in Key, SyncSubscribe(k) \/ SyncSubscribeFails(k) PROVE GapKept'
      BY <2>3, GapStays DEF SyncSubscribe, SyncSubscribeFails, disk
    <2>4. ASSUME NEW r \in Readers, AddressStatusNotify(r) PROVE GapKept'
      BY <2>4, GapStays DEF AddressStatusNotify, disk
    <2> QED BY <1>3, <2>1, <2>2, <2>3, <2>4 DEF Syncing
  <1>4. CASE Subscribing
    BY <1>4, GapStays DEF Subscribing, GetNewAddress, Broadcast, PutBack,
       UnsubscribeAddressNotify, Subscribed, NotSubscribed, RemoveRow, disk
  <1>5. ASSUME NEW r \in Readers, ReaderHistory(r) \/ ReaderFails(r) PROVE GapKept'
    <2>1. rkey[r] \in Key /\ hist' = hist /\ pc' = pc /\ Adds(rkey[r])
      BY <1>5 DEF ReaderHistory, ReaderFails, Adds, GapInv, TypeInv, TypeOK, server, call
    <2> QED BY <2>1, GapFetched
  <1>6. ASSUME NEW r \in Readers, TakeNotification(r) \/ NoSubscription(r)
        PROVE  GapKept'
    BY <1>6, GapStays DEF TakeNotification, NoSubscription, disk, call
  <1>7. ASSUME NEW k \in Key, Pay(k) PROVE GapKept'
    BY <1>7, GapStays DEF Pay, disk, call
  <1>8. CASE Failover \/ Stop \/ UNCHANGED vars
    BY <1>8, GapStays DEF Failover, Stop, vars, disk, call
  <1>9. CASE RmWallet
    BY <1>9 DEF RmWallet, GapKept, call
  <1> QED BY <1>1, <1>2, <1>3, <1>4, <1>5, <1>6, <1>7, <1>8, <1>9 DEF Next, Reading

\* While a wallet is open each purpose has GAP_LIMIT unused keys, so that
\* GetUnusedKey finds one, for both ways the datastores count them.
THEOREM AddressesAvailable == Spec => []GapKept
  <1>1. Init => GapKept
    BY DEF Init, GapKept
  <1>2. TypeInv /\ GapKept /\ [Next]_vars => GapKept'
    BY NextGap DEF GapInv
  <1> QED BY <1>1, <1>2, TypeInvHolds, PTL DEF Spec

-----------------------------------------------------------------------------
(* Rows for notifications.  The call under way has put the row of the      *)
(* address it subscribes; without an open wallet nothing is subscribed.    *)

Quiet == pc \in {"closed", "secret", "keys", "date"} => watched = {} /\ pending = <<>>
CallRows ==
    /\ pc \in {"sync", "history"} => todo \subseteq subs
    /\ pc = "subscribe" => key \in subs

RowInv == RowForNotification /\ Quiet /\ CallRows

\* What stays: no row goes without being noted, nothing new is subscribed.
LEMMA RowsStay ==
    ASSUME TypeInv, RowForNotification,
           subs \union removed \subseteq subs' \union removed',
           watched' \subseteq watched \union subs' \union removed',
           pending' \in Seq(Key),
           \A i \in DOMAIN pending' :
               \/ pending'[i] \in subs' \union removed'
               \/ \E j \in DOMAIN pending : pending'[i] = pending[j]
    PROVE  RowForNotification'
  BY DEF RowForNotification

LEMMA NextRows == TypeInv /\ TypeInv' /\ RowInv /\ [Next]_vars => RowInv'
  <1> SUFFICES ASSUME TypeInv, TypeInv', RowInv, [Next]_vars PROVE RowInv'
    OBVIOUS
  <1> USE DEF RowInv, Goto
  <1>0. pending' \in Seq(Key)
    BY DEF TypeInv, TypeOK
  <1>1. CASE Opening
    <2>1. UNCHANGED <<subs, removed, watched, pending>>
      BY <1>1 DEF Opening, CreateWallet, RecreateWallet, MakeWallet, LoadWallet, PutSecret,
         KeysReady, PutCreationDate, GetFreshKey, disk, server, history
    <2>2. RowForNotification'
      BY <2>1 DEF RowForNotification
    <2>3. pc \in {"closed", "secret", "keys", "date"}
          /\ pc' \in {"closed", "secret", "keys", "date", "idle", "rescan"}
      BY <1>1 DEF Opening, CreateWallet, RecreateWallet, MakeWallet, LoadWallet, PutSecret,
         KeysReady, PutCreationDate, BeginRescan, GetFreshKey, call
    <2> QED BY <2>1, <2>2, <2>3 DEF Quiet, CallRows
  <1>2. CASE Rescanning
    <2>1. /\ UNCHANGED <<watched, pending>>
          /\ subs \union removed \subseteq subs' \union removed'
      BY <1>2 DEF Rescanning, RescanWallet, RescanMiss, RescanHit, RescanFails,
         AddSubscription, disk, server, history
    <2>2. RowForNotification'
      BY <1>0, <2>1, RowsStay
    <2>3. pc \in {"idle", "rescan"} /\ pc' \in {"idle", "rescan"}
      BY <1>2 DEF Rescanning, RescanWallet, RescanMiss, RescanHit, RescanFails, BeginRescan,
         NextKey
    <2> QED BY <2>2, <2>3 DEF Quiet, CallRows
  <1>3. CASE Syncing
    <2>1. UNCHANGED <<subs, removed, pending>>
      BY <1>3 DEF Syncing, SyncWallet, SyncHistory, SyncHistoryFails, SyncHistoryPartly,
         SyncSubscribe, SyncSubscribeFails, AddressStatusNotify, disk, server, history
    <2>2. watched' \subseteq watched \union subs'
      BY <1>3, <2>1 DEF Syncing, SyncWallet, SyncHistory, SyncHistoryFails,
         SyncHistoryPartly, SyncSubscribe, SyncSubscribeFails, SubscribeFailed,
         SubscribeScripthashNotify, AddressStatusNotify, server, CallRows
    <2>3. RowForNotification'
      BY <1>0, <2>1, <2>2, RowsStay
    <2>4. pc' \in {"idle", "sync", "history"}
      BY <1>3 DEF Syncing, SyncWallet, SyncHistory, SyncHistoryFails, SyncHistoryPartly,
         SyncSubscribe, SyncSubscribeFails, AddressStatusNotify
    <2>5. pc' \in {"sync", "history"} => todo' \subseteq subs'
      BY <1>3, <2>1 DEF Syncing, SyncWallet, SyncHistory, SyncHistoryFails,
         SyncHistoryPartly, SyncSubscribe, SyncSubscribeFails, AddressStatusNotify, CallRows
    <2> QED BY <2>3, <2>4, <2>5 DEF Quiet, CallRows
  <1>4. CASE Subscribing
    <2>1. ASSUME NEW c \in Purpose, GetNewAddress(c) PROVE RowInv'
      <3>1. /\ subs \union removed \subseteq subs' \union removed' /\ key' \in subs'
            /\ UNCHANGED <<watched, pending>> /\ pc' = "subscribe"
        BY <2>1 DEF GetNewAddress, AddSubscription, server
      <3> QED BY <1>0, <3>1, RowsStay DEF Quiet, CallRows
    <2>2. ASSUME NEW S \in SUBSET Owned, Broadcast(S) PROVE RowInv'
      <3>1. PICK s \in Announcements(S \intersect watched) : pending' = pending \o s
        BY <2>2 DEF Broadcast
      <3>2. UNCHANGED <<subs, removed, watched>> /\ pc' = "put"
        BY <2>2 DEF Broadcast, disk, history
      <3>3. s \in Seq(Key) /\ pending \in Seq(Key)
        BY <3>1, AnnouncedType DEF TypeInv, TypeOK, Owned
      <3>4. \A i \in DOMAIN s : s[i] \in watched
        BY DEF Announcements
      <3>5. \A i \in DOMAIN pending' : pending'[i] \in subs \union removed
        <4> SUFFICES ASSUME NEW i \in DOMAIN pending' PROVE pending'[i] \in subs \union removed
          OBVIOUS
        <4>1. CASE i <= Len(pending)
          BY <3>1, <3>3, <4>1 DEF RowForNotification
        <4>2. CASE i > Len(pending)
          <5>1. i - Len(pending) \in DOMAIN s /\ pending'[i] = s[i - Len(pending)]
            BY <3>1, <3>3, <4>2
          <5> QED BY <3>4, <5>1 DEF RowForNotification
        <4> QED BY <3>1, <3>3, <4>1, <4>2
      <3> QED BY <3>2, <3>5 DEF RowForNotification, Quiet, CallRows
    <2>3. ASSUME NEW k \in Key, PutBack(k) PROVE RowInv'
      <3>1. /\ subs \union removed \subseteq subs' \union removed' /\ key' \in subs'
            /\ UNCHANGED <<watched, pending>> /\ pc' = "subscribe"
        BY <2>3 DEF PutBack, AddSubscription, server
      <3> QED BY <1>0, <3>1, RowsStay DEF Quiet, CallRows
    <2>4. ASSUME NEW k \in Key, UnsubscribeAddressNotify(k) PROVE RowInv'
      <3>1. /\ UNCHANGED <<subs, removed, pending>> /\ watched' \subseteq watched
            /\ pc' = "remove"
        BY <2>4 DEF UnsubscribeAddressNotify, disk
      <3> QED BY <1>0, <3>1, RowsStay DEF Quiet, CallRows
    <2>5. CASE Subscribed
      <3>1. /\ UNCHANGED <<subs, removed, pending>>
            /\ watched' \subseteq watched \union subs /\ pc' \in {"idle", "put"}
        BY <2>5 DEF Subscribed, SubscribeScripthashNotify, disk, CallRows
      <3> QED BY <1>0, <3>1, RowsStay DEF Quiet, CallRows
    <2>6. CASE NotSubscribed \/ RemoveRow
      <3>1. /\ subs \union removed \subseteq subs' \union removed' /\ pc' = "idle"
            /\ watched' \subseteq watched \union removed' /\ UNCHANGED pending
        BY <2>6 DEF NotSubscribed, RemoveRow, RemoveSubscription, SubscribeFailed,
           SubscribeScripthashNotify, server
      <3> QED BY <1>0, <3>1, RowsStay DEF Quiet, CallRows
    <2> QED BY <1>4, <2>1, <2>2, <2>3, <2>4, <2>5, <2>6 DEF Subscribing
  <1>5. ASSUME NEW r \in Readers,
               \/ TakeNotification(r) \/ NoSubscription(r)
               \/ ReaderHistory(r) \/ ReaderFails(r)
        PROVE  RowInv'
    <2>1. UNCHANGED <<subs, removed, watched, pc, todo, key>>
      BY <1>5 DEF TakeNotification, NoSubscription, ReaderHistory, ReaderFails, disk, call,
         server, history
    <2>2. \/ UNCHANGED pending
          \/ pending # <<>> /\ pending' = Tail(pending)
      BY <1>5 DEF TakeNotification, NoSubscription, ReaderHistory, ReaderFails, server
    <2>3. \A i \in DOMAIN pending' : \E j \in DOMAIN pending : pending'[i] = pending[j]
      <3>1. CASE UNCHANGED pending
        BY <3>1
      <3>2. CASE pending # <<>> /\ pending' = Tail(pending)
        <4>1. \A i \in DOMAIN pending' :
                 i + 1 \in DOMAIN pending /\ pending'[i] = pending[i + 1]
          BY <3>2 DEF TypeInv, TypeOK
        <4> QED BY <4>1
      <3> QED BY <2>2, <3>1, <3>2
    <2>4. RowForNotification'
      BY <1>0, <2>1, <2>3, RowsStay
    <2> QED BY <2>1, <2>2, <2>4 DEF Quiet, CallRows
  <1>6. ASSUME NEW k \in Key, Pay(k) PROVE RowInv'
    <2>1. UNCHANGED <<subs, removed, watched, pc, todo, key>>
      BY <1>6 DEF Pay, disk, call, history
    <2>2. \A i \in DOMAIN pending' :
             \/ pending'[i] \in watched
             \/ \E j \in DOMAIN pending : pending'[i] = pending[j]
      <3>1. CASE k \notin watched
        BY <1>6, <3>1 DEF Pay
      <3>2. CASE k \in watched
        <4>1. pending' = Append(pending, k) /\ pending \in Seq(Key)
          BY <1>6, <3>2 DEF Pay, TypeInv, TypeOK
        <4>2. \A i \in DOMAIN pending' :
                 pending'[i] = k \/ (i \in DOMAIN pending /\ pending'[i] = pending[i])
          BY <4>1
        <4> QED BY <3>2, <4>2
      <3> QED BY <3>1, <3>2
    <2>3. RowForNotification'
      BY <1>0, <2>1, <2>2, RowsStay DEF RowForNotification
    <2> QED BY <1>6, <2>1, <2>3 DEF Pay, Quiet, CallRows
  <1>7. CASE Failover
    <2>1. /\ UNCHANGED <<subs, removed, pc, todo, key>> /\ watched' = {}
          /\ pending' = pending \/ pending' = <<>>
      BY <1>7 DEF Failover, disk, call
    <2> QED BY <2>1 DEF RowForNotification, Quiet, CallRows
  <1>8. CASE Stop
    BY <1>8 DEF Stop, RowForNotification, Quiet, CallRows
  <1>9. CASE RmWallet
    BY <1>9 DEF RmWallet, RowForNotification, Quiet, CallRows, call, server, history
  <1>10. CASE UNCHANGED vars
    BY <1>10 DEF vars, disk, call, server, history, RowForNotification, Quiet, CallRows
  <1> QED BY <1>1, <1>2, <1>3, <1>4, <1>5, <1>6, <1>7, <1>8, <1>9, <1>10 DEF Next, Reading

\* Every notification that can reach addressStatusNotify has its row, unless
\* the client deleted it in this session: only UnsubscribeAddressNotify and a
\* failed getNewAddress or Broadcast can make the goroutine return.
THEOREM NotificationsHaveRows == Spec => []RowForNotification
  <1>1. Init => RowInv
    BY DEF Init, RowInv, RowForNotification, Quiet, CallRows
  <1>2. RowInv => RowForNotification
    BY DEF RowInv
  <1> QED BY <1>1, <1>2, TypeInvHolds, NextRows, PTL DEF Spec

-----------------------------------------------------------------------------
(* No change of a watched address is missed.                               *)

Announced(k) == \E i \in DOMAIN pending : pending[i] = k
Fetching(k) == \E r \in Readers : reader[r] = "fetch" /\ rkey[r] = k
Syncs(k) == pc = "history" /\ key = k
Covered(k) == k \in dropped \/ Announced(k) \/ Fetching(k) \/ Syncs(k)

LEMMA MissedDef == NothingMissed <=> \A k \in watched : seen[k] < hist[k] => Covered(k)
  BY DEF NothingMissed, Covered, Announced, Fetching, Syncs

\* A step that adds no watched address, no change and drops no cover.
LEMMA MissesNothing ==
    ASSUME TypeInv, NothingMissed, watched' \subseteq watched,
           UNCHANGED <<seen, hist>>,
           \A k \in watched' : seen[k] < hist[k] /\ Covered(k) => Covered(k)'
    PROVE  NothingMissed'
  BY MissedDef DEF NothingMissed, Covered, Announced, Fetching, Syncs

LEMMA FetchedCovers ==
    ASSUME TypeInv, NothingMissed, NEW f \in Key, AddTxHistoryToWallet(f),
           UNCHANGED <<hist, watched>>,
           \A k \in watched \ {f} : Covered(k) => Covered(k)'
    PROVE  NothingMissed'
  <1> SUFFICES ASSUME NEW k \in watched, seen'[k] < hist[k] PROVE Covered(k)'
    BY DEF NothingMissed, Covered, Announced, Fetching, Syncs
  <1>1. k \in Key /\ hist[k] \in Nat /\ seen[k] \in Nat
    BY DEF TypeInv, TypeOK
  <1>2. k # f /\ seen'[k] = seen[k]
    BY <1>1 DEF AddTxHistoryToWallet, TypeInv, TypeOK
  <1> QED BY <1>2, MissedDef

\* A subscription: the address is covered if it has an unseen history.
LEMMA SubscribedCovers ==
    ASSUME TypeInv, NothingMissed, NEW f \in Key, watched' = watched \union {f},
           UNCHANGED <<seen, hist>>,
           \A k \in watched : Covered(k) => Covered(k)',
           f \notin watched /\ seen[f] < hist[f] => Covered(f)'
    PROVE  NothingMissed'
  BY MissedDef DEF NothingMissed, Covered, Announced, Fetching, Syncs

LEMMA IgnoredCovers ==
    ASSUME TypeInv, NothingMissed, NEW f \in Key, SubscribeFailed(f),
           UNCHANGED <<seen, hist>>,
           \A k \in watched : Covered(k) => Covered(k)'
    PROVE  NothingMissed'
  <1>1. CASE watched' = watched
    BY <1>1, MissesNothing
  <1>2. CASE watched' = watched \union {f} /\ StatusIgnored(f)
    <2>1. f \notin watched /\ seen[f] < hist[f] => Covered(f)'
      BY <1>2 DEF StatusIgnored, Covered
    <2> QED BY <1>2, <2>1, SubscribedCovers
  <1> QED BY <1>1, <1>2 DEF SubscribeFailed, SubscribeScripthashNotify

\* The server's changes: each watched address gets its notification.
LEMMA ChangeCovers ==
    ASSUME TypeInv, TypeInv', NothingMissed, NEW S \in SUBSET Key, Change(S),
           UNCHANGED <<seen, watched, dropped, reader, rkey>>,
           \A k \in Key : Syncs(k) => Syncs(k)',
           \A k \in Key : Announced(k) \/ k \in S \intersect watched => Announced(k)'
    PROVE  NothingMissed'
  <1> SUFFICES ASSUME NEW k \in watched, seen[k] < hist'[k] PROVE Covered(k)'
    BY DEF NothingMissed, Covered, Announced, Fetching, Syncs
  <1>1. k \in Key
    BY DEF TypeInv, TypeOK
  <1>2. CASE k \in S
    BY <1>1, <1>2 DEF Covered
  <1>3. CASE k \notin S
    <2>1. hist'[k] = hist[k]
      BY <1>1, <1>3 DEF Change
    <2>2. Covered(k)
      BY <2>1, MissedDef
    <2> QED BY <1>1, <2>2 DEF Covered, Fetching
  <1> QED BY <1>2, <1>3

LEMMA Appended ==
    ASSUME NEW s \in Seq(Key), NEW t \in Seq(Key), NEW k,
           \/ \E i \in DOMAIN s : s[i] = k
           \/ \E i \in DOMAIN t : t[i] = k
    PROVE  \E i \in DOMAIN (s \o t) : (s \o t)[i] = k
  <1>1. ASSUME NEW i \in DOMAIN s, s[i] = k
        PROVE  i \in DOMAIN (s \o t) /\ (s \o t)[i] = k
    BY <1>1
  <1>2. ASSUME NEW i \in DOMAIN t, t[i] = k
        PROVE  Len(s) + i \in DOMAIN (s \o t) /\ (s \o t)[Len(s) + i] = k
    BY <1>2
  <1> QED BY <1>1, <1>2

LEMMA NextMissed ==
    TypeInv /\ TypeInv' /\ RowInv /\ NothingMissed /\ [Next]_vars => NothingMissed'
  <1> SUFFICES ASSUME TypeInv, TypeInv', RowInv, NothingMissed, [Next]_vars
               PROVE  NothingMissed'
    OBVIOUS
  <1> USE DEF Goto
  <1>1. CASE Opening
    <2>1. pc # "history" /\ UNCHANGED <<seen, readers, server, dropped>>
      BY <1>1 DEF Opening, CreateWallet, RecreateWallet, MakeWallet, LoadWallet, PutSecret,
         KeysReady, PutCreationDate, GetFreshKey, disk, history
    <2>2. \A k \in watched : Covered(k) => Covered(k)'
      BY <2>1 DEF Covered, Announced, Fetching, Syncs, readers, server
    <2> QED BY <2>1, <2>2, MissesNothing DEF server
  <1>2. CASE Rescanning
    <2>1. pc # "history" /\ UNCHANGED <<seen, readers, server, dropped>>
      BY <1>2 DEF Rescanning, RescanWallet, RescanMiss, RescanHit, RescanFails, disk, history
    <2>2. \A k \in watched : Covered(k) => Covered(k)'
      BY <2>1 DEF Covered, Announced, Fetching, Syncs, readers, server
    <2> QED BY <2>1, <2>2, MissesNothing DEF server
  <1>3. CASE SyncWallet \/ \E r \in Readers : AddressStatusNotify(r)
    <2>1. /\ pc # "history" /\ UNCHANGED <<seen, hist, watched, pending, dropped, rkey>>
          /\ \A r \in Readers : reader[r] = "fetch" => reader'[r] = "fetch"
      BY <1>3 DEF SyncWallet, AddressStatusNotify, disk, readers, server, history, TypeInv,
         TypeOK
    <2>2. \A k \in watched : Covered(k) => Covered(k)'
      BY <2>1 DEF Covered, Announced, Fetching, Syncs
    <2> QED BY <2>1, <2>2, MissesNothing
  <1>4. CASE SyncHistory
    <2>1. \A k \in watched \ {key} : Covered(k) => Covered(k)'
      BY <1>4 DEF SyncHistory, AddTxHistoryToWallet, Covered, Announced, Fetching, Syncs,
         readers, server
    <2>2. key \in Key /\ AddTxHistoryToWallet(key) /\ UNCHANGED <<hist, watched>>
      BY <1>4 DEF SyncHistory, server, TypeInv, TypeOK
    <2> QED BY <2>1, <2>2, FetchedCovers
  <1>5. CASE SyncHistoryFails \/ SyncHistoryPartly
    <2>1. LetGo(key) /\ UNCHANGED <<seen, readers, server>>
      BY <1>5 DEF SyncHistoryFails, SyncHistoryPartly, AddSomeOfHistory, disk
    <2>2. \A k \in watched : seen[k] < hist[k] /\ Covered(k) => Covered(k)'
      BY <2>1 DEF LetGo, Covered, Announced, Fetching, Syncs, readers, server
    <2> QED BY <2>1, <2>2, MissesNothing DEF server
  <1>6. ASSUME NEW f \in Key, SyncSubscribe(f) PROVE NothingMissed'
    <2>1. /\ pc # "history" /\ watched' = watched \union {f}
          /\ UNCHANGED <<seen, hist, pending, reader, rkey, dropped>>
      BY <1>6 DEF SyncSubscribe, SubscribeScripthashNotify, disk, readers, history
    <2>2. \A k \in watched : Covered(k) => Covered(k)'
      BY <2>1 DEF Covered, Announced, Fetching, Syncs
    <2>3. seen[f] < hist[f] => Covered(f)'
      <3>1. seen[f] \in Nat /\ hist[f] \in Nat
        BY DEF TypeInv, TypeOK
      <3>2. hist[f] # 0 => Syncs(f)'
        BY <1>6 DEF SyncSubscribe, NothingToFetch, Syncs
      <3> QED BY <3>1, <3>2 DEF Covered
    <2> QED BY <2>1, <2>2, <2>3, SubscribedCovers
  <1>7. ASSUME NEW f \in Key, SyncSubscribeFails(f) PROVE NothingMissed'
    <2>1. /\ pc # "history" /\ SubscribeFailed(f)
          /\ UNCHANGED <<seen, hist, pending, reader, rkey>>
      BY <1>7 DEF SyncSubscribeFails, disk, readers
    <2>2. dropped \subseteq dropped'
      BY <2>1 DEF SubscribeFailed, StatusIgnored
    <2>3. \A k \in watched : Covered(k) => Covered(k)'
      BY <2>1, <2>2 DEF Covered, Announced, Fetching, Syncs
    <2> QED BY <2>1, <2>3, IgnoredCovers
  <1>8. CASE \/ \E c \in Purpose : GetNewAddress(c)
             \/ \E k \in Key : PutBack(k) \/ UnsubscribeAddressNotify(k)
             \/ RemoveRow
    <2>1. /\ pc # "history" /\ watched' \subseteq watched
          /\ UNCHANGED <<seen, hist, pending, reader, rkey>>
          /\ dropped \intersect watched' \subseteq dropped'
      BY <1>8 DEF GetNewAddress, PutBack, UnsubscribeAddressNotify, RemoveRow, disk, readers,
         server
    <2>2. \A k \in watched' : Covered(k) => Covered(k)'
      BY <2>1 DEF Covered, Announced, Fetching, Syncs
    <2> QED BY <2>1, <2>2, MissesNothing
  <1>9. CASE Subscribed \/ NotSubscribed
    <2>1. /\ pc # "history" /\ key \in Key /\ SubscribeFailed(key)
          /\ UNCHANGED <<seen, hist, pending, reader, rkey>>
      BY <1>9 DEF Subscribed, NotSubscribed, SubscribeFailed, disk, readers, TypeInv, TypeOK
    <2>2. dropped \subseteq dropped'
      BY <2>1 DEF SubscribeFailed, StatusIgnored
    <2>3. \A k \in watched : Covered(k) => Covered(k)'
      BY <2>1, <2>2 DEF Covered, Announced, Fetching, Syncs
    <2> QED BY <2>1, <2>3, IgnoredCovers
  <1>10. ASSUME NEW S \in SUBSET Owned, Broadcast(S) PROVE NothingMissed'
    <2>1. PICK s \in Announcements(S \intersect watched) : pending' = pending \o s
      BY <1>10 DEF Broadcast
    <2>2. /\ S \in SUBSET Key /\ Change(S) /\ pc # "history"
          /\ UNCHANGED <<seen, watched, dropped, reader, rkey>>
      BY <1>10 DEF Broadcast, Owned, disk, readers, history
    <2>3. s \in Seq(Key) /\ pending \in Seq(Key)
      BY <2>1, AnnouncedType DEF TypeInv, TypeOK, Owned
    <2>4. \A k \in S \intersect watched : \E i \in DOMAIN s : s[i] = k
      BY <2>1 DEF Announcements
    <2>5. \A k \in Key : Announced(k) \/ k \in S \intersect watched => Announced(k)'
      <3> SUFFICES ASSUME NEW k \in Key, Announced(k) \/ k \in S \intersect watched
                   PROVE  Announced(k)'
        OBVIOUS
      <3>1. (\E i \in DOMAIN pending : pending[i] = k) \/ \E i \in DOMAIN s : s[i] = k
        BY <2>4 DEF Announced
      <3>2. \E i \in DOMAIN (pending \o s) : (pending \o s)[i] = k
        BY <2>3, <3>1, Appended
      <3> QED BY <2>1, <3>2 DEF Announced
    <2> QED BY <2>2, <2>5, ChangeCovers DEF Syncs
  <1>11. ASSUME NEW k \in Key, Pay(k) PROVE NothingMissed'
    <2>1. /\ {k} \in SUBSET Key /\ Change({k}) /\ pending \in Seq(Key)
          /\ UNCHANGED <<seen, watched, dropped, reader, rkey, pc, key>>
      BY <1>11 DEF Pay, disk, call, readers, history, TypeInv, TypeOK
    <2>2. \A j \in Key : Announced(j) \/ j \in {k} \intersect watched => Announced(j)'
      <3>1. CASE k \notin watched
        BY <1>11, <3>1 DEF Pay, Announced
      <3>2. CASE k \in watched
        <4>1. pending' = Append(pending, k)
          BY <1>11, <3>2 DEF Pay
        <4>2. \A i \in DOMAIN pending : i \in DOMAIN pending' /\ pending'[i] = pending[i]
          BY <2>1, <4>1
        <4>3. Len(pending) + 1 \in DOMAIN pending' /\ pending'[Len(pending) + 1] = k
          BY <2>1, <4>1
        <4> QED BY <4>2, <4>3 DEF Announced
      <3> QED BY <3>1, <3>2
    <2> QED BY <2>1, <2>2, ChangeCovers DEF Syncs
  <1>12. ASSUME NEW r \in Readers, TakeNotification(r) \/ NoSubscription(r)
         PROVE  NothingMissed'
    <2>1. /\ pending # <<>> /\ pending' = Tail(pending) /\ pending \in Seq(Key)
          /\ reader[r] = "wait" /\ dropped \subseteq dropped'
          /\ UNCHANGED <<seen, hist, watched, pc, key>>
      BY <1>12 DEF TakeNotification, NoSubscription, LetGo, disk, call, history, TypeInv,
         TypeOK
    <2>2. \A k : Fetching(k) => Fetching(k)'
      BY <1>12, <2>1 DEF TakeNotification, NoSubscription, Fetching, TypeInv, TypeOK
    <2>3. \A k \in watched : k = Head(pending) /\ seen[k] < hist[k]
                              => k \in dropped' \/ Fetching(k)'
      <3>1. CASE TakeNotification(r)
        BY <3>1 DEF TakeNotification, Fetching, TypeInv, TypeOK
      <3>2. CASE NoSubscription(r)
        BY <3>2 DEF NoSubscription, LetGo
      <3> QED BY <1>12, <3>1, <3>2
    <2>4. \A k : Announced(k) => k = Head(pending) \/ Announced(k)'
      <3> SUFFICES ASSUME NEW i \in DOMAIN pending, pending[i] # Head(pending)
                   PROVE  i - 1 \in DOMAIN pending' /\ pending'[i - 1] = pending[i]
        BY DEF Announced
      <3>1. Head(pending) = pending[1] /\ i \in 1..Len(pending)
        BY <2>1
      <3>2. i # 1
        BY <3>1
      <3> QED BY <2>1, <3>1, <3>2
    <2>5. \A k \in watched : seen[k] < hist[k] /\ Covered(k) => Covered(k)'
      BY <2>1, <2>2, <2>3, <2>4 DEF Covered, Syncs
    <2> QED BY <2>1, <2>5, MissesNothing
  <1>13. ASSUME NEW r \in Readers, ReaderHistory(r) PROVE NothingMissed'
    <2>1. /\ rkey[r] \in Key /\ AddTxHistoryToWallet(rkey[r])
          /\ UNCHANGED <<hist, watched, pending, pc, key>>
      BY <1>13 DEF ReaderHistory, server, call, TypeInv, TypeOK
    <2>2. \A q \in Readers \ {r} : reader'[q] = reader[q] /\ rkey'[q] = rkey[q]
      BY <1>13 DEF ReaderHistory, TypeInv, TypeOK
    <2>3. \A k \in watched \ {rkey[r]} : Covered(k) => Covered(k)'
      BY <2>1, <2>2 DEF AddTxHistoryToWallet, Covered, Announced, Fetching, Syncs
    <2> QED BY <2>1, <2>3, FetchedCovers
  <1>14. ASSUME NEW r \in Readers, ReaderFails(r) PROVE NothingMissed'
    <2>1. LetGo(rkey[r]) /\ UNCHANGED <<seen, hist, watched, pending, pc, key>>
      BY <1>14 DEF ReaderFails, AddSomeOfHistory, call, server
    <2>2. \A q \in Readers \ {r} : reader'[q] = reader[q] /\ rkey'[q] = rkey[q]
      BY <1>14 DEF ReaderFails, TypeInv, TypeOK
    <2>3. \A k \in watched : seen[k] < hist[k] /\ Covered(k) => Covered(k)'
      BY <2>1, <2>2 DEF LetGo, Covered, Announced, Fetching, Syncs
    <2> QED BY <2>1, <2>3, MissesNothing
  <1>15. CASE Failover \/ Stop
    BY <1>15 DEF Failover, Stop, NothingMissed
  <1>16. CASE RmWallet
    <2>1. watched' = {}
      BY <1>16 DEF RmWallet, RowInv, Quiet, server
    <2> QED BY <2>1 DEF NothingMissed
  <1>17. CASE UNCHANGED vars
    BY <1>17 DEF vars, disk, call, readers, server, history, NothingMissed
  <1> QED
    BY <1>1, <1>2, <1>3, <1>4, <1>5, <1>6, <1>7, <1>8, <1>9, <1>10, <1>11, <1>12, <1>13,
       <1>14, <1>15, <1>16, <1>17 DEF Next, Syncing, Subscribing, Reading

\* No change of a watched address is lost between SyncWallet's or
\* getNewAddress's subscription, the history requests and the notifications,
\* for any number of goroutines: what is let go is let go by a failed request
\* or an ignored status.
THEOREM ChangesNotMissed == Spec => []NothingMissed
  <1>1. Init => RowInv /\ NothingMissed
    BY DEF Init, RowInv, RowForNotification, Quiet, CallRows, NothingMissed
  <1> QED BY <1>1, TypeInvHolds, NextRows, NextMissed, PTL DEF Spec

-----------------------------------------------------------------------------
(* RescanWallet.                                                           *)

\* The addresses with a history leave no gap of GAP_LIMIT before them: nobody is
\* given an address from beyond the lookahead window.
GapChain ==
    \A c \in Purpose, i \in 0..MaxIndex :
        hist[<<c, i>>] > 0 /\ i >= GAP_LIMIT =>
            \E j \in 0..MaxIndex : j < i /\ i <= j + GAP_LIMIT /\ hist[<<c, j>>] > 0

\* While RescanWallet is at key: what it owes lies ahead, within GAP_LIMIT of the last
\* hit or of another address it owes.
ToCome(k) == k[2] > key[2] \/ (k[2] = key[2] /\ k[1] >= key[1])
Reached(k, h) == k[2] <= h + GAP_LIMIT
Leads(j, k) == j[1] = k[1] /\ j[2] < k[2] /\ k[2] <= j[2] + GAP_LIMIT
Linked(S, h) == \A k \in S : Reached(k, h) \/ \E j \in S : Leads(j, k)

RescanOwes ==
    /\ hit <= key[2] /\ key[2] <= highestKeyIndex
    /\ \A k \in owed : hist[k] > 0 /\ k[2] <= highestKeyIndex /\ ToCome(k)
    /\ Linked(owed, hit)
RescanInv == IF pc = "rescan" THEN RescanOwes ELSE owed = {}

\* A set of numbers has a least one.
LEMMA Least ==
    ASSUME NEW S, S \subseteq Nat, S # {}
    PROVE  \E m \in S : \A n \in S : m <= n
  <1>1. PICK m \in S : \A n \in S : <<n, m>> \notin OpToRel(<, Nat)
    BY NatLessThanWellFounded, WFMin
  <1>2. \A n \in S : ~(n < m)
    BY <1>1 DEF OpToRel
  <1> QED BY <1>2

\* An address the wallet has is within GAP_LIMIT of one with a history before it:
\* else the window would be wider than GAP_LIMIT, or one further on could not have
\* been reached.
LEMMA OwnedChained ==
    ASSUME TypeInv, GapChain, NEW c \in Purpose, NEW i \in 0..MaxIndex, i < nkeys[c],
           i >= GAP_LIMIT
    PROVE  \E j \in 0..MaxIndex : j < i /\ i <= j + GAP_LIMIT /\ hist[<<c, j>>] > 0
  <1> USE ConstantsAssumption
  <1> DEFINE Pred == \E j \in 0..MaxIndex : j < i /\ i <= j + GAP_LIMIT /\ hist[<<c, j>>] > 0
             a == i - GAP_LIMIT
             n == nkeys[c]
  <1>0. a \in Nat /\ n \in Nat /\ n <= MaxIndex + 1 /\ i \in Nat
    BY DEF TypeInv, TypeOK
  <1>a. hist[<<c, i>>] \in Nat
    BY KeyFacts DEF TypeInv, TypeOK
  <1>1. \A j \in Nat : <<c, j>> \in used => j \in 0..MaxIndex /\ hist[<<c, j>>] > 0
    BY KeyFacts DEF TypeInv, TypeOK, KeyInv, UsedPaid, Key
  <1>2. CASE hist[<<c, i>>] > 0
    BY <1>2 DEF GapChain
  <1>3. CASE \E j \in a..(i - 1) : <<c, j>> \in used
    <2>1. PICK j \in a..(i - 1) : <<c, j>> \in used
      BY <1>3
    <2>2. j \in Nat /\ j < i /\ i <= j + GAP_LIMIT
      BY <1>0, <2>1
    <2> QED BY <1>1, <2>1, <2>2
  <1>4. CASE hist[<<c, i>>] <= 0 /\ \E j \in (i + 1)..(n - 1) : <<c, j>> \in used
    <2> DEFINE Later == {j \in 0..MaxIndex : j > i /\ hist[<<c, j>>] > 0}
    <2>1. Later \subseteq Nat /\ Later # {}
      BY <1>0, <1>1, <1>4
    <2>2. PICK m \in Later : \A l \in Later : m <= l
      BY <2>1, Least
    <2>3. PICK j \in 0..MaxIndex : j < m /\ m <= j + GAP_LIMIT /\ hist[<<c, j>>] > 0
      BY <1>0, <2>2 DEF GapChain
    <2>4. j <= i
      BY <1>0, <2>2, <2>3
    <2>5. j # i
      BY <1>a, <1>4, <2>3
    <2> QED BY <1>0, <2>2, <2>3, <2>4, <2>5
  <1>5. CASE /\ hist[<<c, i>>] <= 0
             /\ ~\E j \in a..(i - 1) : <<c, j>> \in used
             /\ ~\E j \in (i + 1)..(n - 1) : <<c, j>> \in used
    <2> DEFINE m == GAP_LIMIT + 1
               Idle == a..(a + m - 1)
    <2>0. <<c, i>> \notin used
      BY <1>0, <1>1, <1>5, KeyFacts, SMTT(30) DEF TypeInv, TypeOK
    <2>1. \A j \in a..(n - 1) : <<c, j>> \notin used
      <3> SUFFICES ASSUME NEW j \in a..(n - 1) PROVE <<c, j>> \notin used
        OBVIOUS
      <3>1. j \in a..(i - 1) \/ j = i \/ j \in (i + 1)..(n - 1)
        BY <1>0
      <3> QED BY <1>5, <2>0, <3>1
    <2>2. Idle \subseteq Ahead(c, n, used)
      <3> SUFFICES ASSUME NEW j \in Idle PROVE j \in Ahead(c, n, used)
        OBVIOUS
      <3>1. j \in a..(n - 1) /\ j \in 0..(n - 1) /\ \A l \in j..(n - 1) : l \in a..(n - 1)
        BY <1>0
      <3> QED BY <2>1, <3>1 DEF Ahead, Unused
    <2>3. Cardinality(Idle) = m
      BY <1>0, IntervalSize
    <2>4. Cardinality(Idle) <= Window(c, n, used)
      <3> HIDE DEF Idle
      <3> QED BY <1>0, <2>2, AheadFinite, FS_Subset DEF Window
    <2>5. Window(c, n, used) <= GAP_LIMIT /\ Window(c, n, used) \in Nat
      BY <1>0, AheadFinite DEF TypeInv, KeyInv, Bounded
    <2> QED BY <2>3, <2>4, <2>5
  <1> QED BY <1>a, <1>2, <1>3, <1>4, <1>5

LEMMA ChangeChained ==
    ASSUME TypeInv, TypeInv', GapChain, NEW S \in SUBSET Key, Change(S),
           \A k \in S : k \in Owned \/ hist[k] > 0
    PROVE  GapChain' /\ \A k \in Key : hist[k] > 0 => hist'[k] > 0
  <1>1. \A k \in Key : hist[k] \in Nat /\ hist'[k] \in Nat /\ hist'[k] >= hist[k]
                       /\ (hist'[k] > 0 => hist[k] > 0 \/ k \in S)
    BY DEF Change, TypeInv, TypeOK
  <1>2. ASSUME NEW c \in Purpose, NEW i \in 0..MaxIndex, hist'[<<c, i>>] > 0, i >= GAP_LIMIT
        PROVE  \E j \in 0..MaxIndex : j < i /\ i <= j + GAP_LIMIT /\ hist'[<<c, j>>] > 0
    <2>0. <<c, i>> \in Key
      BY KeyFacts
    <2>1. \E j \in 0..MaxIndex : j < i /\ i <= j + GAP_LIMIT /\ hist[<<c, j>>] > 0
      <3>1. CASE hist[<<c, i>>] > 0
        BY <1>2, <3>1 DEF GapChain
      <3>2. CASE <<c, i>> \in Owned
        <4>1. i < nkeys[c]
          BY <3>2 DEF Owned
        <4> QED BY <1>2, <4>1, OwnedChained
      <3> QED BY <1>1, <1>2, <2>0, <3>1, <3>2
    <2> QED BY <1>1, <2>1, KeyFacts
  <1>3. GapChain'
    BY <1>2 DEF GapChain
  <1>4. \A k \in Key : hist[k] > 0 => hist'[k] > 0
    BY <1>1
  <1> QED BY <1>3, <1>4

\* Who changes what the server knows of the addresses.
LEMMA HistoryStep ==
    ASSUME TypeInv, TypeInv', GapChain, [Next]_vars
    PROVE  GapChain' /\ \A k \in Key : hist[k] > 0 => hist'[k] > 0
  <1>1. CASE UNCHANGED hist
    BY <1>1 DEF GapChain
  <1>2. ASSUME NEW S \in SUBSET Owned, Broadcast(S) PROVE Change(S)
    BY <1>2 DEF Broadcast
  <1>3. ASSUME NEW k \in Key, Pay(k) PROVE Change({k}) /\ (k \in Owned \/ hist[k] > 0)
    BY <1>3 DEF Pay
  <1>4. CASE Opening \/ Rescanning
    BY <1>1, <1>4 DEF Opening, CreateWallet, RecreateWallet, MakeWallet, LoadWallet, PutSecret,
       KeysReady, PutCreationDate, GetFreshKey, Rescanning, RescanWallet, RescanMiss, RescanHit,
       RescanFails, server
  <1>5. CASE Syncing
    BY <1>1, <1>5 DEF Syncing, SyncWallet, SyncHistory, SyncHistoryFails, SyncHistoryPartly,
       SyncSubscribe, SyncSubscribeFails, AddressStatusNotify, server
  <1>6. CASE Subscribing
    <2>1. ASSUME NEW S \in SUBSET Owned, Broadcast(S)
          PROVE  GapChain' /\ \A k \in Key : hist[k] > 0 => hist'[k] > 0
      <3>1. S \in SUBSET Key
        BY DEF Owned
      <3> QED BY <1>2, <2>1, <3>1, ChangeChained
    <2> QED BY <1>1, <1>6, <2>1 DEF Subscribing, GetNewAddress, PutBack, UnsubscribeAddressNotify,
                                    Subscribed, NotSubscribed, RemoveRow, server
  <1>7. CASE Reading
    BY <1>1, <1>7 DEF Reading, TakeNotification, NoSubscription, ReaderHistory, ReaderFails, server
  <1>8. ASSUME NEW k \in Key, Pay(k)
        PROVE  GapChain' /\ \A l \in Key : hist[l] > 0 => hist'[l] > 0
    <2>1. {k} \in SUBSET Key
      OBVIOUS
    <2> QED BY <1>3, <1>8, <2>1, ChangeChained
  <1>9. CASE Failover \/ Stop \/ RmWallet
    BY <1>1, <1>9 DEF Failover, Stop, RmWallet, server
  <1>10. CASE UNCHANGED vars
    BY <1>1, <1>10 DEF vars, server
  <1> QED BY <1>4, <1>5, <1>6, <1>7, <1>8, <1>9, <1>10 DEF Next

LEMMA RescanBegins ==
    ASSUME TypeInv, GapChain, BeginRescan, hist' = hist
    PROVE  RescanInv'
  <1> USE ConstantsAssumption
  <1>1. key' = <<0, 0>> /\ hit' = 0 /\ pc' = "rescan"
    BY DEF BeginRescan, None, Goto
  <1>2. owed' = {k \in Key : hist[k] > 0 /\ k[2] <= highestKeyIndex}
    BY DEF BeginRescan
  <1>3. \A k \in owed' : k \in Key /\ k[1] \in {0, 1} /\ k[2] \in 0..MaxIndex /\ k = <<k[1], k[2]>>
    BY <1>2, KeyFacts DEF Purpose
  <1>4. \A k \in owed' : ToCome(k)'
    BY <1>1, <1>3 DEF ToCome
  <1>5. ASSUME NEW k \in owed', ~Reached(k, 0) PROVE \E j \in owed' : Leads(j, k)
    <2>1. k[2] >= GAP_LIMIT /\ hist[<<k[1], k[2]>>] > 0 /\ k[2] <= highestKeyIndex
      BY <1>2, <1>3, <1>5 DEF Reached
    <2>2. PICK j \in 0..MaxIndex : j < k[2] /\ k[2] <= j + GAP_LIMIT /\ hist[<<k[1], j>>] > 0
      BY <1>3, <2>1 DEF GapChain, Purpose
    <2>3. <<k[1], j>> \in owed'
      BY <1>2, <1>3, <2>1, <2>2, KeyFacts
    <2>4. Leads(<<k[1], j>>, k)
      BY <2>2 DEF Leads
    <2> QED BY <2>3, <2>4
  <1>6. RescanOwes'
    BY <1>1, <1>2, <1>4, <1>5 DEF RescanOwes, Linked
  <1> QED BY <1>1, <1>6 DEF RescanInv

\* The rescan goes on from key with S still owed and the last hit at h.
LEMMA RescanGoesOn ==
    ASSUME TypeInv, pc = "rescan", key[2] <= highestKeyIndex,
           NEW S, S \subseteq Key, NEW h \in 0..MaxIndex, h <= key[2], Linked(S, h), NextKey(h),
           \A k \in S : hist[k] > 0 /\ k[2] <= highestKeyIndex /\ ToCome(k) /\ k # key,
           owed' = S, hist' = hist
    PROVE  RescanInv'
  <1> USE ConstantsAssumption
  <1>0. key \in Key /\ key[1] \in {0, 1} /\ key[2] \in Nat /\ key = <<key[1], key[2]>>
    BY KeyFacts DEF TypeInv, TypeOK, Purpose
  <1>1. \A k \in S : k[1] \in {0, 1} /\ k[2] \in Nat /\ k = <<k[1], k[2]>>
    BY KeyFacts DEF Purpose
  <1>2. CASE key[1] = 0 /\ key' = <<1, key[2]>> /\ hit' = h /\ UNCHANGED pc
    <2>1. \A k \in S : ToCome(k)'
      <3> SUFFICES ASSUME NEW k \in S PROVE k[2] > key[2] \/ (k[2] = key[2] /\ k[1] >= 1)
        BY <1>2 DEF ToCome
      <3>1. CASE k[2] > key[2]
        BY <3>1
      <3>2. CASE k[2] = key[2] /\ k[1] >= key[1]
        BY <1>0, <1>1, <1>2, <3>2
      <3> QED BY <3>1, <3>2 DEF ToCome
    <2>2. RescanOwes'
      BY <1>2, <2>1 DEF RescanOwes
    <2> QED BY <1>2, <2>2 DEF RescanInv
  <1>3. CASE key[1] = 1 /\ key[2] < highestKeyIndex /\ key' = <<0, key[2] + 1>> /\ hit' = h /\ UNCHANGED pc
    <2>1. \A k \in S : k[2] > key[2]
      BY <1>0, <1>1, <1>3 DEF ToCome
    <2>2. \A k \in S : ToCome(k)'
      BY <1>0, <1>1, <1>3, <2>1 DEF ToCome
    <2>3. RescanOwes'
      BY <1>0, <1>3, <2>2 DEF RescanOwes
    <2> QED BY <1>3, <2>3 DEF RescanInv
  <1>4. CASE key[1] = 1 /\ (Finished(h) \/ key[2] = highestKeyIndex) /\ pc' = "idle"
    <2>1. \A k \in S : k[2] > key[2]
      BY <1>0, <1>1, <1>4 DEF ToCome
    <2>2. S = {}
      <3> SUFFICES ASSUME S # {} PROVE FALSE
        OBVIOUS
      <3>1. key[2] > h + GAP_LIMIT
        BY <1>0, <1>1, <1>4, <2>1 DEF Finished
      <3> DEFINE I == {k[2] : k \in S}
      <3>2. I \subseteq Nat /\ I # {}
        BY <1>1
      <3>3. PICK m \in I : \A n \in I : m <= n
        BY <3>2, Least
      <3>4. PICK k \in S : k[2] = m
        BY <3>3
      <3>5. ~Reached(k, h)
        BY <1>0, <1>1, <2>1, <3>1 DEF Reached
      <3>6. PICK j \in S : Leads(j, k)
        BY <3>5 DEF Linked
      <3>7. j[2] \in I /\ j[2] \in Nat /\ m \in Nat /\ j[2] < m
        BY <1>1, <3>2, <3>3, <3>4, <3>6 DEF Leads
      <3>8. m <= j[2]
        BY <3>3, <3>7
      <3> HIDE DEF I
      <3> QED BY <3>7, <3>8
    <2> QED BY <1>4, <2>2 DEF RescanInv
  <1> QED BY <1>2, <1>3, <1>4 DEF NextKey, Goto

LEMMA RescanStep ==
    ASSUME TypeInv, GapChain, RescanInv, Rescanning
    PROVE  RescanInv'
  <1> USE ConstantsAssumption
  <1>1. CASE RescanWallet
    BY <1>1, RescanBegins DEF RescanWallet, server
  <1>2. ASSUME pc = "rescan"
        PROVE  /\ RescanOwes /\ owed \subseteq Key /\ hit \in 0..MaxIndex
               /\ key \in Key /\ key[2] \in 0..MaxIndex
    BY <1>2, KeyFacts DEF RescanInv, TypeInv, TypeOK
  <1>3. CASE RescanMiss
    <2>1. key \notin owed
      BY <1>2, <1>3 DEF RescanMiss, RescanOwes
    <2>2. pc = "rescan" /\ NextKey(hit) /\ owed' = owed /\ hist' = hist
      BY <1>3 DEF RescanMiss, history, server
    <2> QED BY <1>2, <2>1, <2>2, RescanGoesOn DEF RescanOwes
  <1>4. CASE RescanHit
    <2> DEFINE S == owed \ {key}
    <2>0. pc = "rescan" /\ NextKey(key[2]) /\ owed' = S /\ hist' = hist
      BY <1>4 DEF RescanHit, server
    <2>1. Linked(S, key[2])
      <3> SUFFICES ASSUME NEW k \in S PROVE Reached(k, key[2]) \/ \E j \in S : Leads(j, k)
        BY DEF Linked
      <3>0. k[2] \in Nat
        BY <1>2, <2>0, KeyFacts
      <3>1. CASE Reached(k, hit)
        BY <1>2, <2>0, <3>0, <3>1 DEF Reached, RescanOwes
      <3>2. ASSUME NEW j \in owed, Leads(j, k) PROVE Reached(k, key[2]) \/ \E l \in S : Leads(l, k)
        BY <3>2 DEF Leads, Reached
      <3> QED BY <1>2, <2>0, <3>1, <3>2 DEF RescanOwes, Linked
    <2>2. /\ S \subseteq Key /\ key[2] <= highestKeyIndex /\ key[2] <= key[2]
          /\ \A k \in S : hist[k] > 0 /\ k[2] <= highestKeyIndex /\ ToCome(k) /\ k # key
      BY <1>2, <2>0 DEF RescanOwes
    <2> HIDE DEF S
    <2> QED BY <1>2, <2>0, <2>1, <2>2, RescanGoesOn
  <1>5. CASE RescanFails
    <2>1. pc = "rescan" /\ NextKey(hit) /\ owed' = {} /\ hist' = hist
      BY <1>5 DEF RescanFails, server
    <2>2. Linked({}, hit)
      BY DEF Linked
    <2> QED BY <1>2, <2>1, <2>2, RescanGoesOn DEF RescanOwes
  <1> QED BY <1>1, <1>3, <1>4, <1>5 DEF Rescanning

LEMMA NextRescan ==
    ASSUME TypeInv, TypeInv', GapChain, RescanInv, [Next]_vars
    PROVE  GapChain' /\ RescanInv'
  <1>0. GapChain' /\ \A k \in Key : hist[k] > 0 => hist'[k] > 0
    BY HistoryStep
  <1> SUFFICES RescanInv'
    BY <1>0
  <1>1. ASSUME UNCHANGED <<pc, key, hit, owed>> PROVE RescanInv'
    <2>1. owed \subseteq Key
      BY DEF TypeInv, TypeOK
    <2> QED BY <1>0, <1>1, <2>1 DEF RescanInv, RescanOwes, ToCome, Linked
  <1>2. ASSUME pc # "rescan", pc' # "rescan", UNCHANGED owed PROVE RescanInv'
    BY <1>2 DEF RescanInv
  <1> USE DEF Goto
  <1>3. CASE CreateWallet \/ RecreateWallet \/ LoadWallet \/ PutSecret \/ KeysReady
    BY <1>2, <1>3 DEF CreateWallet, RecreateWallet, MakeWallet, LoadWallet, PutSecret, KeysReady,
       history
  <1>4. CASE PutCreationDate
    <2>1. CASE op = "recreate"
      BY <1>4, <2>1, RescanBegins DEF PutCreationDate, server
    <2>2. CASE op # "recreate"
      BY <1>2, <1>4, <2>2 DEF PutCreationDate
    <2> QED BY <2>1, <2>2
  <1>5. CASE \E c \in Purpose : GetFreshKey(c)
    BY <1>1, <1>5 DEF GetFreshKey, call, history
  <1>6. CASE Syncing
    BY <1>2, <1>6 DEF Syncing, SyncWallet, SyncHistory, SyncHistoryFails, SyncHistoryPartly,
       SyncSubscribe, SyncSubscribeFails, AddressStatusNotify, history
  <1>7. CASE Subscribing
    BY <1>2, <1>7 DEF Subscribing, GetNewAddress, PutBack, UnsubscribeAddressNotify, Broadcast,
       Subscribed, NotSubscribed, RemoveRow, history
  <1>8. CASE Reading
    BY <1>1, <1>8 DEF Reading, TakeNotification, NoSubscription, ReaderHistory, ReaderFails,
       call, history
  <1>9. CASE (\E k \in Key : Pay(k)) \/ Failover \/ RmWallet
    BY <1>1, <1>9 DEF Pay, Failover, RmWallet, call, history
  <1>10. CASE Stop
    BY <1>10 DEF Stop, RescanInv
  <1>11. CASE UNCHANGED vars
    BY <1>1, <1>11 DEF vars, call, history
  <1>12. CASE Rescanning
    BY <1>12, RescanStep
  <1> QED BY <1>3, <1>4, <1>5, <1>6, <1>7, <1>8, <1>9, <1>10, <1>11, <1>12 DEF Next, Opening

\* A rescan without failed requests subscribes every address that had a history when it
\* began, up to the last index it tries, although it stops GAP_LIMIT after the last hit:
\* for any GAP_LIMIT, for both ways of counting the lookahead window, whatever is paid
\* meanwhile, and for a wallet whose disk was lost and that is recreated from its seed.
THEOREM RescanComplete == Spec => []RescanFindsAll
  <1>1. Init => GapChain /\ RescanInv
    <2> SUFFICES ASSUME Init PROVE GapChain /\ RescanInv
      OBVIOUS
    <2>1. \A c \in Purpose, i \in 0..MaxIndex : hist[<<c, i>>] = 0
      BY KeyFacts DEF Init
    <2> QED BY <2>1 DEF Init, GapChain, RescanInv
  <1>2. TypeInv /\ TypeInv' /\ GapChain /\ RescanInv /\ [Next]_vars => GapChain' /\ RescanInv'
    BY NextRescan
  <1>3. RescanInv => RescanFindsAll
    BY DEF RescanInv, RescanFindsAll
  <1> QED BY <1>1, <1>2, <1>3, TypeInvHolds, PTL DEF Spec

=============================================================================
