------------------------------ MODULE Network ------------------------------
(***************************************************************************)
(* The network of nodes (electrumx/network.go): one leader, a number of    *)
(* peers that can take over, the servers known in memory and in the file   *)
(* network_servers.json (network_servers.go), and the peers monitor that   *)
(* replaces a leader whose context is cancelled.                           *)
(*                                                                         *)
(* peersMonitor is one goroutine.  Connections break at any time, also     *)
(* while it waits for a server to answer.  A server is its address; it may *)
(* refuse any attempt to start a node on it.  What a node does on its      *)
(* connection is the subject of ServerConn, what a leader does to the      *)
(* headers that of Headers.                                                *)
(***************************************************************************)
EXTENDS Integers, FiniteSets

CONSTANTS
    Addrs,           \* server addresses
    Onions,          \* those that are onion services
    Trusted,         \* config.TrustedPeer
    Stored0,         \* the servers in the file before the program first runs
    Steady,          \* servers on which a node can always be started
    MaxOnlinePeers,
    Proxy            \* there is a socks proxy

ASSUME ConstantsAssumption ==
    /\ IsFiniteSet(Addrs) /\ Trusted \in Addrs
    /\ Onions \subseteq Addrs /\ Stored0 \subseteq Addrs /\ Steady \subseteq Addrs
    /\ MaxOnlinePeers \in Nat /\ Proxy \in BOOLEAN

\* Room for a leader, the peers, and a node that is being started.
Slots == 1..(MaxOnlinePeers + 2)
None == 0

VARIABLES
    static,          \* config.Flags has NoDeleteKnownPeers
    stored, torn,    \* network_servers.json; it cannot be decoded
    stuck,           \* history: servers an I/O error kept in it, since the last Start
    known,           \* net.knownServers
    leader, peers,   \* net.leader, net.peers
    addr, alive,     \* per node: its server; its context is not cancelled
    leads,           \* per node: its notification pipelines were started
    pc,              \* where peersMonitor is ("off": the network is not started)
    todo,            \* peers checkLeader has not tried to promote yet
    chosen           \* the server a node is being started on

files == <<stored, torn, stuck>>
nodes == <<addr, alive, leads>>
vars == <<static, files, known, leader, peers, nodes, pc, todo, chosen>>

-----------------------------------------------------------------------------
\* checkLeader: there is no leader, or its context is cancelled.
OnlyWhenNone == leader = None
AlwaysReplaced == TRUE
NeedsLeader == leader = None \/ ~alive[leader]

\* availableServers: known servers that no live peer is connected to.
Unmatched(forLeader) == {a \in known : a \in Onions => ~forLeader /\ Proxy}
Available(forLeader) ==
    {a \in known : /\ a \in Onions => ~forLeader /\ Proxy
                   /\ \A n \in peers : alive[n] => addr[n] # a}

\* startNewPeerMaybe starts nothing when there are peers enough.
Full == Cardinality(peers) >= MaxOnlinePeers

\* checkLeader cancels a peer it could not promote.
KeepsRunning(n) == alive
Cancelled(n) == [alive EXCEPT ![n] = FALSE]

\* A new node takes a slot that no node of the network holds.
Free(n) ==
    /\ n \in Slots \ (peers \cup {leader})
    /\ \A m \in Slots \ (peers \cup {leader}) : n <= m

\* startNewPeer when the node comes up.
StartNewPeer(n, isLeader) ==
    /\ Free(n)
    /\ addr' = [addr EXCEPT ![n] = chosen]
    /\ alive' = [alive EXCEPT ![n] = TRUE]
    /\ leads' = [leads EXCEPT ![n] = isLeader]

\* getServers and addIncomingServers: the leader names servers; the ones we do
\* not have are added to the slice in memory.  An error is ignored.
GetServers(leaderUp, have) ==
    \E told \in SUBSET Addrs :
      /\ ~leaderUp => told = {}
      /\ known' = have \cup told

\* removeServer: from memory first, then from the file, which may fail to open or to
\* read (then it stays as it is) or, once truncated, to be written.  Nobody looks at
\* the error.
Rewritten(a) == ~torn /\ stored' = stored \ {a} /\ UNCHANGED <<torn, stuck>>
NotOpened(a) == stuck' = stuck \cup (stored \cap {a}) /\ UNCHANGED <<stored, torn>>
NotWritten == ~torn /\ stored' = {} /\ torn' \in BOOLEAN /\ UNCHANGED stuck

ForgetsAnyway(a) == known' = known \ {a} /\ Rewritten(a)
MemoryOnly(a) ==
    /\ known' = IF static THEN known ELSE known \ {a}
    /\ UNCHANGED files

RemoveServer(a) ==
    IF static
    THEN UNCHANGED <<known, files>>
    ELSE known' = known \ {a} /\ (Rewritten(a) \/ NotOpened(a) \/ NotWritten)

Goto(l) == pc' = l

-----------------------------------------------------------------------------
Init ==
    /\ static \in BOOLEAN
    /\ stored = Stored0 /\ torn = FALSE /\ stuck = {}
    /\ known = {} /\ leader = None /\ peers = {}
    /\ addr = [n \in Slots |-> Trusted]
    /\ alive = [n \in Slots |-> FALSE]
    /\ leads = [n \in Slots |-> FALSE]
    /\ pc = "off" /\ todo = {} /\ chosen = Trusted

\* Start: loadKnownServers, the trusted server as leader, and its peers.  Any
\* error leaves the network not started.
Start ==
    /\ pc = "off" /\ ~torn
    /\ chosen = Trusted /\ (Trusted \in Onions => Proxy)
    /\ \E n \in Slots : StartNewPeer(n, TRUE) /\ leader' = n
    /\ GetServers(TRUE, stored)
    /\ Goto("check")
    /\ UNCHANGED <<static, files, peers, todo, chosen>>

-----------------------------------------------------------------------------
(* checkLeader *)

CheckLeader ==
    /\ pc = "check"
    /\ IF NeedsLeader
       THEN Goto("promote") /\ todo' = peers
       ELSE Goto("reap") /\ UNCHANGED todo
    /\ UNCHANGED <<static, files, known, leader, peers, nodes, chosen>>

\* A peer whose context is cancelled is passed over.
SkipDead(n) ==
    /\ pc = "promote" /\ n \in todo
    /\ ~alive[n]
    /\ todo' = todo \ {n}
    /\ UNCHANGED <<static, files, known, leader, peers, nodes, pc, chosen>>

\* promoteToLeader starts the pipelines.  The peer stays in net.peers.
Promote(n) ==
    /\ pc = "promote" /\ n \in todo
    /\ alive[n]
    /\ leads' = [leads EXCEPT ![n] = TRUE]
    /\ leader' = n
    /\ todo' = {}
    /\ Goto("reap")
    /\ UNCHANGED <<static, files, known, peers, addr, alive, chosen>>

\* promoteToLeader fails, before or after it started a pipeline.
PromoteFails(n) ==
    /\ pc = "promote" /\ n \in todo
    /\ alive[n]
    /\ \E b \in BOOLEAN : leads' = [leads EXCEPT ![n] = b]
    /\ alive' = Cancelled(n)
    /\ todo' = todo \ {n}
    /\ UNCHANGED <<static, files, known, leader, peers, addr, pc, chosen>>

\* No peer could be promoted: startNewLeader takes an available server, if any.
ChooseLeader(a) ==
    /\ pc = "promote" /\ todo = {}
    /\ a \in Available(TRUE)
    /\ chosen' = a
    /\ Goto("leader")
    /\ UNCHANGED <<static, files, known, leader, peers, nodes, todo>>

NoServer ==
    /\ pc = "promote" /\ todo = {}
    /\ Available(TRUE) = {}
    /\ Goto("reap")
    /\ UNCHANGED <<static, files, known, leader, peers, nodes, todo, chosen>>

StartLeader ==
    /\ pc = "leader"
    /\ \E n \in Slots : StartNewPeer(n, TRUE) /\ leader' = n
    /\ GetServers(TRUE, known)
    /\ chosen' = Trusted
    /\ Goto("reap")
    /\ UNCHANGED <<static, files, peers, todo>>

StartLeaderFails ==
    /\ pc = "leader"
    /\ chosen \notin Steady
    /\ RemoveServer(chosen)
    /\ chosen' = Trusted
    /\ Goto("reap")
    /\ UNCHANGED <<static, leader, peers, nodes, todo>>

-----------------------------------------------------------------------------
(* reapDeadPeers and startNewPeerMaybe *)

ReapDeadPeers ==
    /\ pc = "reap"
    /\ peers' = {n \in peers : alive[n]}
    /\ Goto("maybe")
    /\ UNCHANGED <<static, files, known, leader, nodes, todo, chosen>>

NoNewPeer ==
    /\ pc = "maybe"
    /\ Full \/ Available(FALSE) = {}
    /\ Goto("check")
    /\ UNCHANGED <<static, files, known, leader, peers, nodes, todo, chosen>>

ChoosePeer(a) ==
    /\ pc = "maybe"
    /\ ~Full
    /\ a \in Available(FALSE)
    /\ chosen' = a
    /\ Goto("peer")
    /\ UNCHANGED <<static, files, known, leader, peers, nodes, todo>>

\* The leader is asked for its servers again, if it is there.
StartPeer ==
    /\ pc = "peer"
    /\ \E n \in Slots : StartNewPeer(n, FALSE) /\ peers' = peers \cup {n}
    /\ GetServers(~NeedsLeader, known)
    /\ chosen' = Trusted
    /\ Goto("check")
    /\ UNCHANGED <<static, files, leader, todo>>

StartPeerFails ==
    /\ pc = "peer"
    /\ chosen \notin Steady
    /\ RemoveServer(chosen)
    /\ chosen' = Trusted
    /\ Goto("check")
    /\ UNCHANGED <<static, leader, peers, nodes, todo>>

-----------------------------------------------------------------------------
\* A connection ends, or a misbehaving server's node is cancelled.
Die(n) ==
    /\ alive[n]
    /\ alive' = [alive EXCEPT ![n] = FALSE]
    /\ UNCHANGED <<static, files, known, leader, peers, addr, leads, pc, todo, chosen>>

\* The program's context ends, or the process does.
Stopped ==
    /\ pc # "off" /\ Goto("off")
    /\ known' = {} /\ leader' = None /\ peers' = {}
    /\ addr' = [n \in Slots |-> Trusted]
    /\ alive' = [n \in Slots |-> FALSE]
    /\ leads' = [n \in Slots |-> FALSE]
    /\ todo' = {} /\ chosen' = Trusted /\ stuck' = {}
    /\ UNCHANGED static

Stop == Stopped /\ UNCHANGED <<stored, torn>>

\* The process dies in writeServerAddrFile, after the file was truncated: it is
\* empty, or holds part of the list and cannot be decoded.
StopInWrite ==
    /\ pc \in {"leader", "peer"} /\ ~static /\ ~torn
    /\ Stopped
    /\ stored' = {}
    /\ torn' \in BOOLEAN

\* What peersMonitor does.
PeersMonitor ==
    \/ CheckLeader
    \/ \E n \in Slots : SkipDead(n) \/ Promote(n) \/ PromoteFails(n)
    \/ \E a \in Addrs : ChooseLeader(a) \/ ChoosePeer(a)
    \/ NoServer \/ StartLeader \/ StartLeaderFails
    \/ ReapDeadPeers \/ NoNewPeer \/ StartPeer \/ StartPeerFails

Next ==
    \/ Start \/ Stop \/ StopInWrite
    \/ PeersMonitor
    \/ \E n \in Slots : Die(n)

Spec == Init /\ [][Next]_vars

\* The ticker fires, requests return, and peersMtx is released by the client's
\* calls.  The list of available servers is shuffled anew every time, so that
\* none is passed over for ever.
FairSpec ==
    /\ Spec
    /\ WF_vars(PeersMonitor)
    /\ \A a \in Steady : SF_vars(ChooseLeader(a))

-----------------------------------------------------------------------------
(* Properties. *)

TypeOK ==
    /\ static \in BOOLEAN
    /\ stored \subseteq Addrs /\ torn \in BOOLEAN
    /\ known \subseteq Addrs /\ stuck \subseteq Addrs
    /\ leader \in Slots \cup {None}
    /\ peers \subseteq Slots /\ Cardinality(peers) <= MaxOnlinePeers
    /\ addr \in [Slots -> Addrs]
    /\ alive \in [Slots -> BOOLEAN] /\ leads \in [Slots -> BOOLEAN]
    /\ pc \in {"off", "check", "promote", "leader", "reap", "maybe", "peer"}
    /\ todo \subseteq peers
    /\ chosen \in Addrs

\* At most one live node feeds the client's channels and the header store, and
\* it is the one the client's requests go to (net.leader), whatever dies while
\* checkLeader promotes.
OneLeader == \A n \in Slots : alive[n] /\ leads[n] => n = leader

\* Every live connection is held by net.leader or net.peers: the monitor loses
\* none that nobody could cancel or replace (checkLeader, reapDeadPeers).
Tracked == \A n \in Slots : alive[n] => n = leader \/ n \in peers

\* Two live peers are never on the same server (availableServers), though peers
\* die while a new one is being started.
DistinctPeers ==
    \A m, n \in peers : alive[m] /\ alive[n] /\ addr[m] = addr[n] => m = n

\* With NoDeleteKnownPeers the servers of the file "are never deleted or removed
\* from the knownServers slice or 'network_servers.json'", also by a kill at any
\* step.
StaticKept ==
    static => stored = Stored0 /\ ~torn /\ (pc # "off" => Stored0 \subseteq known)

\* A server that was removed does not come back from the file at the next Start:
\* removeServer and loadKnownServers keep the file within what is known in memory, in
\* any order of removals and failed writes, but for the servers that an I/O error left.
FileIsKnown == pc # "off" => stored \subseteq known \cup stuck

\* With NoDeleteKnownPeers, and one server in the file that lets nodes start, a
\* network without a live leader gets one again.
LeaderUp == leader # None /\ alive[leader]
LeaderComesBack == (static /\ pc # "off" /\ ~LeaderUp) ~> (pc = "off" \/ LeaderUp)
=============================================================================
