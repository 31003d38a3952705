--------------------------- MODULE NetworkProofs ---------------------------
(***************************************************************************)
(* Theorems about Network, for any servers, any MaxOnlinePeers and both    *)
(* strategies, whatever connections break and wherever the process dies.   *)
(***************************************************************************)
EXTENDS Network, FiniteSetTheorems, TLAPS

-----------------------------------------------------------------------------
(* Type correctness.  The bound on the peers needs what startNewPeerMaybe  *)
(* found before it began to start one, and that a network which is not     *)
(* started holds no nodes.                                                 *)

Room == pc = "peer" => Cardinality(peers) < MaxOnlinePeers
Tried == pc # "promote" => todo = {}
Idle ==
    pc = "off" => /\ leader = None /\ peers = {}
                  /\ \A n \in Slots : ~alive[n]

TypeInv == TypeOK /\ Room /\ Tried /\ Idle

LEMMA SlotsFinite == IsFiniteSet(Slots) /\ Slots \subseteq Nat /\ None \notin Slots
  BY ConstantsAssumption, FS_Interval DEF Slots, None

LEMMA PeersFinite ==
    ASSUME NEW S \in SUBSET Slots
    PROVE  IsFiniteSet(S) /\ Cardinality(S) \in Nat
  BY SlotsFinite, FS_Subset, FS_CardinalityType

LEMMA InitType == Init => TypeInv
  <1> SUFFICES ASSUME Init PROVE TypeInv
    OBVIOUS
  <1>1. Cardinality(peers) <= MaxOnlinePeers
    BY ConstantsAssumption, FS_EmptySet DEF Init
  <1>2. TypeOK
    BY <1>1, ConstantsAssumption DEF Init, TypeOK
  <1>3. Room /\ Tried /\ Idle
    BY DEF Init, Room, Tried, Idle
  <1> QED BY <1>2, <1>3 DEF TypeInv

\* The new node is in a slot, on the chosen server, and was not a peer.
LEMMA StartedType ==
    ASSUME TypeInv, NEW n \in Slots, NEW b \in BOOLEAN, StartNewPeer(n, b)
    PROVE  /\ addr' \in [Slots -> Addrs]
           /\ alive' \in [Slots -> BOOLEAN] /\ leads' \in [Slots -> BOOLEAN]
           /\ n \notin peers /\ n # leader
  BY DEF TypeInv, TypeOK, StartNewPeer, Free

LEMMA GetServersType ==
    ASSUME NEW up \in BOOLEAN, NEW have \in SUBSET Addrs, GetServers(up, have)
    PROVE  have \subseteq known' /\ known' \subseteq Addrs
  BY DEF GetServers

LEMMA StoppedType ==
    ASSUME TypeInv, Stopped, stored' \subseteq Addrs, torn' \in BOOLEAN
    PROVE  TypeInv'
  <1>1. Cardinality(peers') <= MaxOnlinePeers
    BY ConstantsAssumption, FS_EmptySet DEF Stopped
  <1>2. TypeOK'
    BY <1>1, ConstantsAssumption DEF TypeInv, TypeOK, Stopped, Goto
  <1>3. Room' /\ Tried' /\ Idle'
    BY DEF Stopped, Goto, Room, Tried, Idle
  <1> QED BY <1>2, <1>3 DEF TypeInv

LEMMA NextType == TypeInv /\ [Next]_vars => TypeInv'
  <1> SUFFICES ASSUME TypeInv, [Next]_vars PROVE TypeInv'
    OBVIOUS
  <1> USE DEF TypeInv
  <1>1. CASE Start
    <2> PICK n \in Slots : StartNewPeer(n, TRUE) /\ leader' = n
      BY <1>1 DEF Start
    <2>1. known' \subseteq Addrs
      BY <1>1, GetServersType DEF Start, TypeOK
    <2> QED
      BY <1>1, <2>1, StartedType DEF Start, Goto, TypeOK, Room, Tried, Idle, files
  <1>2. CASE Stop \/ StopInWrite
    BY <1>2, StoppedType DEF Stop, StopInWrite, TypeOK, files
  <1>3. CASE CheckLeader
    BY <1>3 DEF CheckLeader, Goto, TypeOK, Room, Tried, Idle, files, nodes
  <1>4. ASSUME NEW n \in Slots, SkipDead(n) \/ Promote(n) \/ PromoteFails(n)
        PROVE  TypeInv'
    <2>1. CASE SkipDead(n)
      BY <2>1 DEF SkipDead, TypeOK, Room, Tried, Idle, files, nodes
    <2>2. CASE Promote(n)
      BY <2>2 DEF Promote, Goto, TypeOK, Room, Tried, Idle, files, nodes
    <2>3. CASE PromoteFails(n)
      BY <2>3 DEF PromoteFails, Cancelled, TypeOK, Room, Tried, Idle, files, nodes
    <2> QED BY <1>4, <2>1, <2>2, <2>3
  <1>5. ASSUME NEW a \in Addrs, ChooseLeader(a) \/ ChoosePeer(a)
        PROVE  TypeInv'
    <2>1. Cardinality(peers) \in Nat
      BY PeersFinite DEF TypeOK
    <2>2. CASE ChooseLeader(a)
      BY <2>2 DEF ChooseLeader, Goto, TypeOK, Room, Tried, Idle, files, nodes
    <2>3. CASE ChoosePeer(a)
      <3>1. Cardinality(peers) < MaxOnlinePeers
        BY <2>1, <2>3, ConstantsAssumption DEF ChoosePeer, Full
      <3> QED
        BY <2>3, <3>1 DEF ChoosePeer, Goto, TypeOK, Room, Tried, Idle, files, nodes
    <2> QED BY <1>5, <2>2, <2>3
  <1>6. CASE NoServer \/ NoNewPeer
    BY <1>6 DEF NoServer, NoNewPeer, Goto, TypeOK, Room, Tried, Idle, files, nodes
  <1>7. CASE StartLeader
    <2> PICK n \in Slots : StartNewPeer(n, TRUE) /\ leader' = n
      BY <1>7 DEF StartLeader
    <2>1. known' \subseteq Addrs
      BY <1>7, GetServersType DEF StartLeader, TypeOK
    <2> QED
      BY <1>7, <2>1, StartedType, ConstantsAssumption
      DEF StartLeader, Goto, TypeOK, Room, Tried, Idle, files
  <1>8. CASE StartLeaderFails \/ StartPeerFails
    BY <1>8, ConstantsAssumption
    DEF StartLeaderFails, StartPeerFails, RemoveServer, Rewritten, NotOpened, NotWritten,
        Goto, TypeOK, Room, Tried,
        Idle, files, nodes
  <1>9. CASE ReapDeadPeers
    <2>1. IsFiniteSet(peers) /\ peers' \in SUBSET peers
      BY <1>9, PeersFinite DEF ReapDeadPeers, TypeOK
    <2>2. Cardinality(peers') <= Cardinality(peers)
      BY <2>1, FS_Subset
    <2>3. Cardinality(peers') <= MaxOnlinePeers
      BY <2>1, <2>2, PeersFinite, ConstantsAssumption DEF TypeOK
    <2> QED
      BY <1>9, <2>1, <2>3 DEF ReapDeadPeers, Goto, TypeOK, Room, Tried, Idle, files, nodes
  <1>10. CASE StartPeer
    <2> PICK n \in Slots : StartNewPeer(n, FALSE) /\ peers' = peers \cup {n}
      BY <1>10 DEF StartPeer
    <2>1. known' \subseteq Addrs
      BY <1>10, GetServersType DEF StartPeer, TypeOK, NeedsLeader
    <2>2. IsFiniteSet(peers) /\ Cardinality(peers) \in Nat
      BY PeersFinite DEF TypeOK
    <2>3. Cardinality(peers') <= Cardinality(peers) + 1
      BY <2>2, FS_AddElement
    <2>4. peers' \subseteq Slots /\ Cardinality(peers') \in Nat
      BY PeersFinite DEF TypeOK
    <2>5. Cardinality(peers') <= MaxOnlinePeers
      BY <1>10, <2>2, <2>3, <2>4, ConstantsAssumption DEF StartPeer, Room
    <2> QED
      BY <1>10, <2>1, <2>4, <2>5, StartedType, ConstantsAssumption
      DEF StartPeer, Goto, TypeOK, Room, Tried, Idle, files
  <1>11. ASSUME NEW n \in Slots, Die(n) PROVE TypeInv'
    BY <1>11 DEF Die, TypeOK, Room, Tried, Idle, files
  <1>12. CASE UNCHANGED vars
    BY <1>12 DEF vars, TypeOK, Room, Tried, Idle, files, nodes
  <1> QED
    BY <1>1, <1>2, <1>3, <1>4, <1>5, <1>6, <1>7, <1>8, <1>9, <1>10, <1>11, <1>12
    DEF Next, PeersMonitor

LEMMA TypeInvHolds == Spec => []TypeInv
  BY InitType, NextType, PTL DEF Spec

\* Every variable keeps its type and there are never more than MaxOnlinePeers
\* peers (startNewPeerMaybe).
THEOREM TypeCorrect == Spec => []TypeOK
  <1>1. TypeInv => TypeOK
    BY DEF TypeInv
  <1> QED BY <1>1, TypeInvHolds, PTL
-----------------------------------------------------------------------------
(* The nodes.  checkLeader replaces a leader only once its context is      *)
(* cancelled, which is for good, and no live peer can come to be on the    *)
(* server that startNewPeerMaybe chose.                                    *)

LeaderGone == pc \in {"promote", "leader"} => ~LeaderUp
ServerFree == pc = "peer" => \A n \in peers : alive[n] => addr[n] # chosen

NodeInv == LeaderGone /\ ServerFree /\ OneLeader /\ Tracked /\ DistinctPeers

LEMMA InitNode == Init => NodeInv
  BY SlotsFinite
  DEF Init, NodeInv, LeaderGone, ServerFree, OneLeader, Tracked, DistinctPeers, LeaderUp

LEMMA NextNode == TypeInv /\ NodeInv /\ [Next]_vars => NodeInv'
  <1> SUFFICES ASSUME TypeInv, NodeInv, [Next]_vars PROVE NodeInv'
    OBVIOUS
  <1> USE SlotsFinite DEF NodeInv
  <1>0. TypeOK /\ Idle
    BY DEF TypeInv
  <1>1. CASE Start
    <2> PICK n \in Slots : StartNewPeer(n, TRUE) /\ leader' = n
      BY <1>1 DEF Start
    <2> QED
      BY <1>0, <1>1
      DEF Start, StartNewPeer, Goto, TypeOK, Idle, LeaderGone, ServerFree, OneLeader,
          Tracked, DistinctPeers
  <1>2. CASE Stopped
    BY <1>2
    DEF Stopped, Goto, LeaderGone, ServerFree, OneLeader, Tracked, DistinctPeers, LeaderUp
  <1>3. CASE CheckLeader
    BY <1>0, <1>3
    DEF CheckLeader, NeedsLeader, Goto, nodes, TypeOK, LeaderGone, ServerFree, OneLeader,
        Tracked, DistinctPeers, LeaderUp
  <1>4. ASSUME NEW n \in Slots, SkipDead(n) \/ Promote(n) \/ PromoteFails(n)
        PROVE  NodeInv'
    <2>1. CASE SkipDead(n)
      BY <2>1
      DEF SkipDead, nodes, LeaderGone, ServerFree, OneLeader, Tracked, DistinctPeers, LeaderUp
    <2>2. CASE Promote(n)
      BY <1>0, <2>2
      DEF Promote, Goto, TypeOK, LeaderGone, ServerFree, OneLeader, Tracked, DistinctPeers,
          LeaderUp
    <2>3. CASE PromoteFails(n)
      BY <1>0, <2>3
      DEF PromoteFails, Cancelled, TypeOK, LeaderGone, ServerFree, OneLeader, Tracked,
          DistinctPeers, LeaderUp
    <2> QED BY <1>4, <2>1, <2>2, <2>3
  <1>5. ASSUME NEW a \in Addrs, ChooseLeader(a) \/ ChoosePeer(a)
        PROVE  NodeInv'
    BY <1>5
    DEF ChooseLeader, ChoosePeer, Available, Goto, nodes, LeaderGone, ServerFree, OneLeader,
        Tracked, DistinctPeers, LeaderUp
  <1>6. CASE NoServer \/ NoNewPeer \/ StartLeaderFails \/ StartPeerFails
    BY <1>6
    DEF NoServer, NoNewPeer, StartLeaderFails, StartPeerFails, Goto, nodes, LeaderGone,
        ServerFree, OneLeader, Tracked, DistinctPeers, LeaderUp
  <1>7. CASE StartLeader
    <2> PICK n \in Slots : StartNewPeer(n, TRUE) /\ leader' = n
      BY <1>7 DEF StartLeader
    <2>1. n \notin peers
      BY DEF StartNewPeer, Free
    <2> QED
      BY <1>0, <1>7, <2>1
      DEF StartLeader, StartNewPeer, Goto, TypeOK, LeaderGone, ServerFree, OneLeader, Tracked,
          DistinctPeers, LeaderUp
  <1>8. CASE ReapDeadPeers
    BY <1>8
    DEF ReapDeadPeers, Goto, nodes, LeaderGone, ServerFree, OneLeader, Tracked,
        DistinctPeers, LeaderUp
  <1>9. CASE StartPeer
    <2> PICK n \in Slots : StartNewPeer(n, FALSE) /\ peers' = peers \cup {n}
      BY <1>9 DEF StartPeer
    <2>1. n \notin peers /\ n # leader
      BY DEF StartNewPeer, Free
    <2> QED
      BY <1>0, <1>9, <2>1
      DEF StartPeer, StartNewPeer, Goto, TypeOK, LeaderGone, ServerFree, OneLeader, Tracked,
          DistinctPeers
  <1>10. ASSUME NEW n \in Slots, Die(n) PROVE NodeInv'
    BY <1>0, <1>10
    DEF Die, TypeOK, LeaderGone, ServerFree, OneLeader, Tracked, DistinctPeers, LeaderUp
  <1>11. CASE UNCHANGED vars
    BY <1>11
    DEF vars, nodes, LeaderGone, ServerFree, OneLeader, Tracked, DistinctPeers, LeaderUp
  <1> QED
    BY <1>1, <1>2, <1>3, <1>4, <1>5, <1>6, <1>7, <1>8, <1>9, <1>10, <1>11
    DEF Next, PeersMonitor, Stop, StopInWrite

LEMMA NodeInvHolds == Spec => []NodeInv
  BY TypeInvHolds, InitNode, NextNode, PTL DEF Spec

\* At most one live node has pipelines, and it is net.leader (checkLeader,
\* promoteToLeader, startNewLeader).
THEOREM LeaderIsAlone == Spec => []OneLeader
  <1>1. NodeInv => OneLeader
    BY DEF NodeInv
  <1> QED BY <1>1, NodeInvHolds, PTL

\* No live connection is lost by the network (reapDeadPeers, checkLeader).
THEOREM NoNodeLost == Spec => []Tracked
  <1>1. NodeInv => Tracked
    BY DEF NodeInv
  <1> QED BY <1>1, NodeInvHolds, PTL

\* Live peers are on different servers (availableServers).
THEOREM PeersDiffer == Spec => []DistinctPeers
  <1>1. NodeInv => DistinctPeers
    BY DEF NodeInv
  <1> QED BY <1>1, NodeInvHolds, PTL

-----------------------------------------------------------------------------
(* The servers in memory and in the file. *)

ServersInv == StaticKept /\ FileIsKnown

\* A step of the running network that adds servers in memory, or none.
LEMMA ServersGrow ==
    ASSUME ServersInv, pc # "off", known \subseteq known',
           static' = static, UNCHANGED files
    PROVE  ServersInv'
  BY DEF ServersInv, StaticKept, FileIsKnown, files

LEMMA NextServers == TypeInv /\ ServersInv /\ [Next]_vars => ServersInv'
  <1> SUFFICES ASSUME TypeInv, ServersInv, [Next]_vars PROVE ServersInv'
    OBVIOUS
  <1> USE DEF ServersInv, StaticKept, FileIsKnown
  <1>0. stored \subseteq Addrs /\ known \subseteq Addrs /\ alive \in [Slots -> BOOLEAN]
    BY DEF TypeInv, TypeOK
  <1>1. CASE Start
    <2>1. stored \subseteq known'
      BY <1>0, <1>1, GetServersType DEF Start
    <2> QED BY <1>1, <2>1 DEF Start, Goto, files
  <1>2. CASE Stop \/ StopInWrite
    BY <1>2 DEF Stop, StopInWrite, Stopped, Goto, files
  <1>3. CASE StartLeader \/ StartPeer
    <2>1. known \subseteq known'
      BY <1>0, <1>3, GetServersType DEF StartLeader, StartPeer, NeedsLeader
    <2> QED BY <1>3, <2>1, ServersGrow DEF StartLeader, StartPeer, files
  <1>4. CASE StartLeaderFails \/ StartPeerFails
    <2>1. pc # "off" /\ static' = static /\ RemoveServer(chosen)
      <3>1. CASE StartLeaderFails
        BY <3>1 DEF StartLeaderFails
      <3>2. CASE StartPeerFails
        BY <3>2 DEF StartPeerFails
      <3> QED BY <1>4, <3>1, <3>2
    <2>2. CASE static
      <3>1. UNCHANGED <<known, files>>
        BY <2>1, <2>2 DEF RemoveServer
      <3> QED BY <2>1, <3>1, ServersGrow
    <2>3. CASE ~static
      <3>1. /\ known' = known \ {chosen}
            /\ Rewritten(chosen) \/ NotOpened(chosen) \/ NotWritten
        BY <2>1, <2>3 DEF RemoveServer
      <3>2. CASE Rewritten(chosen)
        BY <2>1, <2>3, <3>1, <3>2 DEF Rewritten
      <3>3. CASE NotOpened(chosen)
        BY <2>1, <2>3, <3>1, <3>3 DEF NotOpened
      <3>4. CASE NotWritten
        BY <2>1, <2>3, <3>1, <3>4 DEF NotWritten
      <3> QED BY <3>1, <3>2, <3>3, <3>4
    <2> QED BY <2>2, <2>3
  <1>5. CASE CheckLeader \/ NoServer \/ NoNewPeer \/ ReapDeadPeers
    BY <1>5, ServersGrow DEF CheckLeader, NoServer, NoNewPeer, ReapDeadPeers, files
  <1>6. ASSUME NEW n \in Slots, SkipDead(n) \/ Promote(n) \/ PromoteFails(n) \/ Die(n)
        PROVE  ServersInv'
    BY <1>6 DEF SkipDead, Promote, PromoteFails, Die, Goto, files
  <1>7. ASSUME NEW a \in Addrs, ChooseLeader(a) \/ ChoosePeer(a) PROVE ServersInv'
    BY <1>7, ServersGrow DEF ChooseLeader, ChoosePeer, files
  <1>8. CASE UNCHANGED vars
    BY <1>8 DEF vars, files
  <1> QED
    BY <1>1, <1>2, <1>3, <1>4, <1>5, <1>6, <1>7, <1>8 DEF Next, PeersMonitor

LEMMA ServersInvHolds == Spec => []ServersInv
  <1>1. Init => ServersInv
    BY DEF Init, ServersInv, StaticKept, FileIsKnown
  <1> QED BY <1>1, TypeInvHolds, NextServers, PTL DEF Spec

\* With NoDeleteKnownPeers nothing is deleted from the file or from memory
\* (removeServer), wherever the process dies.
THEOREM StaticIsKept == Spec => []StaticKept
  <1>1. ServersInv => StaticKept
    BY DEF ServersInv
  <1> QED BY <1>1, ServersInvHolds, PTL

\* The file holds only servers known in memory (removeServer, loadKnownServers), and
\* those an I/O error kept in it.
THEOREM FileStaysKnown == Spec => []FileIsKnown
  <1>1. ServersInv => FileIsKnown
    BY DEF ServersInv
  <1> QED BY <1>1, ServersInvHolds, PTL
=============================================================================
