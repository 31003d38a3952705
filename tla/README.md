# Formal models of go-electrum-client

TLA+ modules, TLC configurations and TLAPS proofs for the parts of this
repository in which several goroutines, a server that owes nothing, files and
database buckets have to stay consistent: the block header store and the leader
node that fills it, one connection to an ElectrumX server with everything that
hangs on it, the network of nodes with its failover, the wallet's transaction
store, the client that keeps keys, subscriptions and address histories
together, the way a new tip takes to the user, payments and sweeps, and the
three datastores, which are shown to implement one abstract specification, but for a few
calls that are named.

Paths below are relative to the repository (`src/` in `PROJECT.json`).
`PROJECT.json` maps every definition that models code to its lines, lists the
runs, the mutants that show each property can fail, the hazards and the
theorems.

## 1. Inventory

### How the program hangs together

    api user ── client (client/btc) ── wallet (wallet/wltbtc) ── datastore
    RPC calls        │   ▲                                        (bdb, db, mock)
      pass-through   │   │ clientTipChangeNotify, clientScripthashNotify
      under peersMtx │   │ (unbuffered channels)
                     ▼   │
                 Network (electrumx/network.go) ── peersMonitor goroutine
                     │ leader, peers
                     ▼
                   Node (node.go, node_headers.go, node_scripthash.go)
                     │ forwarder goroutine ─ qchan ─ queue goroutine, per kind
                     ▼
                serverConn (server_connection.go): listen, keepAlive, closer
                     │
                ElectrumX server

| Component | State | Operations | Interacts through |
|---|---|---|---|
| Header store, `electrumx/headers.go` | `blockchain_headers` file; `hdrs` map, `tip`, `synced`, `recovery`, `recoveryTip` | append, truncate, store, removeOne, verify | called by the leader's goroutines, read by the client |
| Leader's header work, `node_headers.go` | one `qchan`, loop variables | sync, subscribe, queue, connectTip, reorgRecovery | requests on its connection; writes file and map; tells the client its tip |
| Server connection, `server_connection.go` | `respHandlers`, response channels, notification channels, `done` | request, listen, keepAlive, cancelRequests | socket, node context, channels |
| Scripthash pipeline, `node_scripthash.go` | `qchan` | forward, queue | from `listen` to `addressStatusNotify` |
| Network, `network.go` | `leader`, `peers`, `started` | Start, checkLeader, reapDeadPeers, startNewPeerMaybe | `peersMtx` shared with every request of the client |
| Known servers, `network_servers.go` | `knownServers`, `network_servers.json` | load, learn, remove | called by the monitor |
| Transaction store, `wallet/wltbtc/txstore.go` | `txids`, `adrs` caches over the utxo, stxo, txn and key buckets | AddTransaction, CheckDoubleSpends, markAsDead, PopulateAdrs | called with address histories |
| Synchronisation, `client/btc/wallet_synchronize.go`, `client_wallet.go`, `rescan.go` | subscriptions bucket | SyncWallet, addressStatusNotify, RescanWallet | requests to the leader; AddTransaction |
| Key manager, `wallet/wltbtc/keys.go`, `wallet/bdb/keys.go` | key bucket | lookahead, GetUnused, MarkKeyAsUsed | AddTransaction, addresses for the user |
| Datastores, `wallet/bdb`, `wallet/db`, `wltbtc/mock.go` | seven tables | puts, gets, deletes and field updates of `wallet/datastore.go` | one `RWMutex` per store |
| Tip changes, `client/btc/blockchain.go` | the user's channel and its mutex | tipChange, Register, Unregister | header queues send on one channel; the user reads another |
| Spending, `send.go`, `sign.go`, `client_wallet.go`, `serve_rpc.go` | none beyond the tables | Spend, SignTx, Broadcast, Freeze, several RPC calls at a time | tables, the leader |
| Import and sweep, `import_sweep.go`, `sweep.go`, `sizes.go` | inputs collected so far | ImportAndSweep, SweepCoins | two requests per key to the leader |
| ElectrumX interface, `electrumx/elx*` | `network` | Start, pass-through calls | Network |
| Secrets, fees, rates, node queries, commands | configuration | | |

The Dash and Firo packages are copies of the Bitcoin ones, line by line where
`TxStore`, `Client`, `Tips`, `Spend` and `Sweep` are concerned. A definition stands
for all three. The map divides the definitions over the three copies, and names
for each one of them the lines it translates, which read the same in the others.

### What is hard

* A cancelled leader's header queue goes on while the next leader syncs the same
  store; check, file write and map write are three steps.
* A kill between file and map, inside a write, or between the buckets.
* Requests, pings and notifications share one reader goroutine, which hands
  notifications to unbuffered channels whose readers make requests.
* Contexts: requests of the node end with the node's context, requests of the
  client with the program's; the latter hold `peersMtx`.
* Nodes die while the monitor promotes or connects.
* Address histories come in any order, and a confirmed transaction is looked at
  once only.
* A subscription is three things that are not changed together: a row, an entry
  at the server, and notifications under way to a goroutine that gives up for
  good when the row is missing.
* Keys are stored one at a time, marked by one goroutine and handed out by another.
* tipChange holds a read lock while it waits for the user, whose Unregister needs
  the write lock, while leaders wait for tipChange.
* Payments gather coins, look up a change key and are sent in steps that nothing
  locks together, while AddTransaction deletes and puts the same coins.
* Three datastores with different ways of changing a field, keeping flags and
  ordering keys stand behind one interface.
* A sweep reads the coins of a key in two requests and charges for a size it
  estimates before the transaction is complete.

### What correct means, per component

* Headers: the verified chain is linked and complete in every state, file and map
  agree, a reorg ends with the server's chain.
* Connection: an answer reaches its own request, silence is noticed, everybody
  ends, requests are passed back, notifications stay in order.
* Network: one leader, no connection lost, peers on different servers, a leader
  comes back, the static server list is kept.
* Transaction store: no double spend alive, dead transactions leave nothing, no
  coin of a stored transaction is lost, and once everything has settled the
  wallet lists exactly its unspent outputs.
* Client: an open wallet always has an unused key, a notification finds its row,
  no change of a subscribed address is missed unnoticed, a rescan finds what was paid.
* Tip changes: no send on a closed channel, every tip in order, nobody waits for good
  while the user reads.
* Datastores: each implements the interfaces, where it does not is known call by call, sqlite's row
  order is the key order.
* Spending: the balance adds up, a stored payment's coins and frozen coins are not
  offered again, change goes to a new key.
* Sweep: a key is swept whole or not at all, the fee is relayed.

## 2. Modules

| Module | Models | Theorems |
|---|---|---|
| `Headers` | header store, leader's sync, header queue, reorg recovery | `HeadersProofs` |
| `MCHeaders`, `MCHeadersLead` | two forks; leaders in turn, and a running leader that sees a reorg | |
| `ServerConn` | one connection, its callers, the two pipelines, failover's wait for `peersMtx` | `ServerConnProofs` |
| `MCServerConn`, `MCServerConnEnds` | which pipelines and callers there are; how a leader's and a peer's connection end | |
| `Network` | nodes, monitor, known servers and their file | `NetworkProofs` |
| `TxStore` | AddTransaction over its buckets, histories, the server's mempool and chain, freezing, Balance | `TxStoreProofs` |
| `MCTxStore`, `MCTxStoreUse` | small sets of transactions; a wallet in use, one that is killed, one that sees chains of double spends | |
| `Client` | a wallet's life, its keys and lookahead window, subscriptions, SyncWallet, RescanWallet, new addresses, Broadcast, the notification goroutine | `ClientProofs` |
| `Tips` | header queues of successive leaders, tipChange, Register and Unregister, the user | `TipsProofs` |
| `StoreTypes`, `Datastore` | the tables of `wallet/datastore.go` and what its interfaces promise | |
| `BoltStore`, `SqliteStore`, `MockStore` | the three implementations | |
| `Stores`, `MCStores` | a wallet with one of them, and the refinement to `Datastore` | `StoresProofs` |
| `Spend` | concurrent Spend, SignTx, Broadcast, Freeze and AddTransaction over the coins | `SpendProofs` |
| `Sweep` | ImportAndSweep and SweepCoins | `SpendProofs` |
| `Payments`, `MCSpend` | `Spend` next to `Sweep`; instances of both in one run | |

### Headers

`file`, `torn` are the disk; `hdrs`, `tip`, `synced`, `recovery`, `recoveryTip` the
fields of `headers`. Each element of `Nodes` is a slot for the goroutines of a
leader: `pc` walks through `gather` (one `blockHeaders` request and its append),
`load`, `verify`, `subscribe`, then `idle`, `fetch`/`chunk`, `check`, `append`,
`storeOne`, `truncate`, `remove`, `notify`. A step is what happens between two
writes or requests. Every answer is a slice of one of `Chains`, chosen anew, so
servers reorganise between any two answers; `CountError` lets the declared
`Count`, which the code takes for the number of headers that came, be wrong, and
`miscounted` remembers that one was. `VerifyAll` walks down from `tip` as
`verifyFromTip` does: it looks at what lies between (`Looked`), fails on a hole or a broken
link, and finds nothing wrong where there is nothing to look at, so that a wrong count
can make an empty store pass for synced. A panic (near the start point, or on a missing header) and a
kill are `Restart`; `CrashInWrite` leaves part of a header. With one slot leaders
follow each other; with two the old queue may still be draining.

Left out: the reverse map `blkHdrs` (written, never read by the program), header
contents other than the previous hash, proof of work (the code does not check it).

### ServerConn

`listen` is at `check`, `read`, `push` (handing on a notification), `close`,
`cancel` or `ended`. A caller of `request` is at `begin`, `send` or `wait`;
`chan[i]` is the buffered response channel of an id. Callers are `ping`
(keepAlive), `headers` (the header queue's own requests), `scripthash`
(`addressStatusNotify`, which asks for a history before it takes the next
notification) and `Users`. `fwd` and `qpc` are the two goroutines of a pipeline.
JSON is reduced to which request a message answers; a message that does not parse
is skipped by `listen` and is not modelled. Ids are a counter in the code; the
model takes the least id no answer can still come for, which is the same up to
renaming.

### Network

Nodes are slots; `alive` says that the node's context is not cancelled, `leads`
that its pipelines were started. `pc` is where `peersMonitor` is: `check`,
`promote` (the loop of `checkLeader`), `leader` and `peer` (a connection is being
made on `chosen`), `reap`, `maybe`. Nodes die between any two steps. `static` is
the flag `NoDeleteKnownPeers`; both values are initial states. A server is its
address (the code compares `Address` in the lists and `Addr` with `Net` for
peers; with one port per protocol the two agree). Order within the lists is left
open: the code shuffles both. `removeServer` takes a server from memory before it reads
and rewrites the file; either may fail, and nobody looks at the error (`stuck` are the
servers a failure left in the file). A network is started once: `ElectrumXInterface.Start`
makes a new one each time.

### TxStore

A transaction is the outputs it spends and the outputs it has. `utxos`, `stxos`,
`txns`, `nkeys`, `used` are the buckets, `txids` and `adrs` the caches. The
synchronising goroutine takes a history (`GetHistory`), and for each entry, mined
ones first in block order, skips it, fails to fetch it, or calls `AddTransaction`, whose steps are
the early returns with the double spend check and `markAsDead`
(`AddTransaction`), outputs and lookahead (`PutOutputs`), inputs (`SpendInputs`),
spend heights (`UpdateSpendHeight`), and the store with `PopulateAdrs`
(`PutTxn`). `Freeze`/`UnFreeze` are two steps each, as they are two database
transactions. `BalanceConfirmed` are the coins Balance adds up as confirmed when nothing is
written between its two reads. The server (`Broadcast`, `Evict`, `Mine`) is external; its
chain does not reorganise.

`markAsDead` is one step, the least set closed under "spends an output of" (`Dead`), or
with `Steps` what the code does: `doubles` are the double spends it is still to be called
for, `stack` the calls under way, each with the snapshot of stxos it works through
(`rows`), the row at hand and the outputs left to delete (`outs`); one step is one
database write (`DeleteDeadStxo`, `MarkSpender`, `PutBack`, `DeleteDeadUtxo`,
`MarkReturns`), and a kill or a `Freeze` may come before any of them. An assumption asks for
`Steps` where there is something that could come between; without, both forms have the same
outcome (`WalkIsDeath`: `goal` is what the first would have left). Two histories name what the
code does not keep: `torn` are the coins that a kill caught after `Stxos().Delete` and before
`Utxos().Put`, `gaveUp` the double spends for which `markAsDead` returned an error, since a
spender has a spent record and is not stored; `AddTransaction` does not look at that error.

`SoleWallet` is an assumption on use: addresses come from the window and coins
are spent through this wallet's `Spend`. With another copy of the seed, or after
a restore, it is false. `MempoolChains` lets mempool transactions spend one
another. AddTransaction runs on one goroutine, though each SyncWallet adds histories itself
and starts one more reader (see `Client`).

Left out: amounts and fees (see `Spend`), scripts, signatures, watch-only outputs
(no caller sets them); the store is the bbolt one.

### Client

An address is its key, a purpose and an index; its history is the number of changes
it went through, `hist` at the server and `seen` in the wallet. `pc` is where the
api user's call is: opening (`secret`, `keys`, `date`), `idle`, `rescan`, `sync` and
`history` (SyncWallet), `put` and `subscribe` (getNewAddress and the end of
Broadcast), `remove`. Each step is one request or one database write; failed
requests may have reached the server. `reader` are the goroutines of
addressStatusNotify, one more for each SyncWallet that gets to its end. `watched` are the
leader's subscriptions and `pending` the notifications under way (their pipeline is
the subject of `ServerConn`, so here they keep their order). `store` says how far
makeBtcElectrumWallet got, so that a stopped process leaves every prefix behind.

Three variables are history only: `dropped` (changes the client learned of and let go,
by a failed request or by not looking at the status a subscription returned),
`removed` (rows deleted in this session) and `owed` (what the rescan under way has to
find; emptied by a failed request).

The transactions of a history are one step here, since `TxStore` takes it apart;
they mark the address they were fetched for and any others they pay. The user
makes one call at a time. `Sqlite` selects how the lookahead window is
counted. Left out: watched foreign addresses (they go through
SubscribeAddressNotify as well), the lock on the bbolt file.

### Tips

Slots are the header queues of successive leaders (`qpc`); a cancelled leader's queue
may still have a tip to send when its successor runs. All send on one unbuffered
channel that tipChange receives from (`tpc`: `select`, `lock`, `send`, `ended`), so a
send and a receive are one step. `buf` is the user's channel of capacity one, `reg`
that one is registered; `upc` are user goroutines waiting for the mutex. A tip is its
number modulo `Turn`, given on receipt, which is all `EveryTip` needs. Stop and
failover come at any time. The wallet's own update of its tip happens before the
lock and has no effect here.

### Datastore, BoltStore, SqliteStore, MockStore, Stores

`Datastore` is the abstract specification: seven tables, one action per interface
call, `last` the call just completed and what it returned. `BoltStore` takes the calls
that change a field apart into `Get...` and `Put...`, with other calls and `Crash` in
between; calls that fail change nothing. `SqliteStore` keeps flags as integers, reads
them back with the three tests the queries use, has no column for the frozen mark of
a spent coin and orders keys by rowid. `MockStore` keeps secrets reversed. `Stores`
chooses one of them at the start and maps its tables to what a caller sees
(`UtxosSeen`, `StxosSeen`, `TxnsSeen`, `KeysSeen`, `EncSeen`); `Implements` is
`Datastore`'s specification under that mapping, but for the calls that do something else,
which `Diverges` names one by one:

* `LostUpdate`: bbolt's put of a record (SetWatchOnly, Freeze, UnFreeze, UpdateHeight) that another
  call has changed or deleted since the get. `wallet.go:494` and `txstore.go:148`, `:172` do
  that to one another.
* `CountsAllUnused`: bbolt's lookahead window while an unused key is below a used one, where the
  interface says "unused keys following the last used key" (`datastore.go:189`).
* `MockUnFreeze`: the mock's UnFreeze clears WatchOnly and leaves Frozen.
* `MockStxos`: the mock files stxos by their spender, and puts, deletes and lists something else
  once a coin has two spenders or a spender two coins.

sqlite has no exception. The frozen mark of a spent coin, for which it has no column, is not
part of what is seen. Returned errors are left out: a call for a missing row changes nothing,
in all three, but bbolt and the mock return an error and sqlite does not. Also left out:
GetDbg, and unreadable records.

### Spend

Coins have values; a transaction of the model has one payment, a change output and a
fee. `Spend` gathers and selects (value-age order with some tip the leader has had),
`BuildTx` looks up the change key and signs, `Broadcast` sends, each for one of
`Callers`; `Sign` is SignTx. AddTransaction goes through `PutOutputs`, `SpendInputs`,
`PutTxn` for a transaction the server has, unconfirmed or mined; the fee is charged for
the inputs `inputSource` returns scripts for, none. The store is sqlite's, whose Freeze is one
statement; this is the only wallet with its seed, and blocks are not reorganised. `locked`,
`knew`, `kept` are history: what users froze, and what was stored and locked when a
call gathered its coins.

### Sweep

`keys` are the imported strings not yet looked at; `pc` is `next`, `pkh` and `wpkh` (the
two requests of a key), `sweep`, `signed` or `error`. Coins come and go at the server
between any two steps, a request may fail, strings may not decode, keys may repeat.
Sizes and the fee are the code's arithmetic with its constants. `answered`, `always`,
`list` are history. Signatures, and the script engine that checks them, are left out.

## 3. Runs

| Run | Instance | Shows |
|---|---|---|
| `headers_lead` | mode `any`: one slot, two forks of 5 and 6 headers parting after the second, `REWIND` 2, chunks of 2, queue of 1, kills at every step; mode `miscount`: forks of 3 and 4, the declared count up to one off; mode `reorg`: a synced leader whose server has moved to the other fork | `ChainLinked` (wrong counts or not), `FileMatchesMap`, `FileLinked`; `CatchesUp`: map and file end up as the server's chain, over more than one rewind |
| `headers_race` (violation) | two slots | `StoredHeaderConnects` fails: a header is stored on one it does not name |
| `txstore_use` | mode `live`: two payments, a double spend, a spend of both, one key of lookahead; mode `kill`: a payment and a spend with two outputs, freezing, kills between writes; mode `chain`: the transactions of `live`, chained in the mempool and made by others too, so that a payment dies with what spends it, kills between the writes of `markAsDead` | `NoConflict`, `DeadLeavesNothing`, `WalkIsDeath`, `LiveBalance`, `NoCoinLost`, `ThawedByUser` |
| `txstore_restore` (violation) | two payments and a spend of both, seen by a restored wallet | `SettledBalance` fails |
| `conn_order` | scripthash pipeline, queue of 2, pings, repeated answers, cancellation, failover | `OwnAnswer`, `SendCannotBlock`, `InOrder` |
| `conn_ends` | a leader with its header pipeline, failover included; a peer with pings and a client's requests | `HeaderQueueEnds`; `PeerWindsUp`, `PeerPassedBack` |
| `conn_late` (violation) | a peer, failover watched | `FailoverHappens` fails |
| `network_failover` | three servers (one onion, one steady), two peers, both strategies, errors and kills in the server file | `OneLeader`, `Tracked`, `DistinctPeers`, `StaticKept`, `FileIsKnown`, `LeaderComesBack` |
| `client_wallet` | `GAP_LIMIT` 1, indices 0 to 2 of both purposes, two changes, one goroutine, bbolt | `TypeOK` (with it: lookahead stops growing), `GapKept`, `RowForNotification`, `NothingMissed`, `RescanFindsAll` |
| `tips` | two queues, two user goroutines, numbers modulo 3 | `NoSendOnClosed`, `EveryTip`, `QueueNotHeldUp`, `CallsReturn`, `TipChangeStops` |
| `stores` | two of each row, three key indexes of two purposes, two passwords, two callers, on the same record too; one table at a time | `Implements` for the three stores |
| `spend` | mode `pay`: two callers, two coins, two payments taken, heights up to 3; mode `sweep`: four coins of two keys, an undecodable string, an empty list, a repeated key, the lowest rate that is relayed | `BalanceAddsUp`, `RivalUnknown`, `FrozenNotSpent`, `ChangeToNewKey`; `SweepComplete`, `RelayFeePaid` |

Runs with modes check several instances in one: the mode is chosen in the initial state and
never changes. `conn_ends` does the same without a mode: `sent` is `Nil` for a peer,
which has subscribed to nothing and gets no notifications. `LiveBalance` is `SettledBalance` and
`ConfirmedShown`; a Freeze that races AddTransaction, or a kill inside it, breaks them
(below). In modes `kill` and `chain` not all keys of the constants occur, so that "every history
has been worked through", its premise, is met in mode `live` only; an `ASSUME` of `MCTxStoreUse`
says so, and that the live instance meets the conditions of the theorem. In those two modes the
`VIEW` leaves out `seen`, `fresh` and `valid`, which no other property and no guard reads.
`PeerWindsUp` and `PeerPassedBack` are `WindsUp` and `PassedBack` for a connection
without a pipeline: with one, `listen` may stay blocked (below).

### Why the bounds are enough

* Headers: `REWIND` is 8 in the code, 2 here; the forks part three and more headers
  below the tip, so that one rewind is not enough, and the panic near the start
  point is reached. `ChunkSize` 2 against 5 and 6 headers gives full, partial and
  empty chunks. A queue of 1 fills up; the queue's capacity is a parameter of the
  theorems. One header too many or too few is enough for the tip to leave the map.
* TxStore: four transactions are the least that have a double spend, a descendant
  of one of the rivals and a spend of two coins; `Gap` 1 makes every payment move
  the window. Keys 0 to 2 are used, so the window grows twice. In mode `chain` a payment, its
  rival and a spend of the payment are what `markAsDead` recurses over; the rival confirms
  while payment and spend are stored.
* ServerConn: a stream of one message is enough for the order of arrival to be
  arbitrary, because the server answers in any order. `Turn` 3 tells a swap or a
  gap of one from the right order.
* Network: two peers and three servers give a promotion that fails with another
  peer left, a dead leader still listed as a peer, and a full list.
* Client: with `GAP_LIMIT` 1 each first payment moves the window, and the second of two
  changes can pay a key the first one brought in; the rescan then has to go past
  an index without history. `highestKeyIndex` is 100 in the code. A second goroutine,
  larger gaps and the sqlite window are covered by the theorems.

* Tips: two queues are a cancelled leader and its successor, two users can call Register
  and Unregister at once; a third number tells a lost tip from a repeated one.
* Stores: no call reads or writes two tables, so they are checked one at a time; three
  indexes give a gap, and both purposes alternate in the rowids. Two callers can be between get
  and put on two records.
* Spend: two coins of different value are selected singly and together; the amounts give
  change, change too small to pay out, and a payment of everything. Two callers compete
  for the coins; with heights up to 3 the second payment can spend the change of the
  first, both confirmed.
* Sweep: values are such that a key alone is dust, its coins together are not, and a
  coin of 900 costs more than it brings. 4 is the lowest rate at which the estimate pays the
  relay fee for any number of inputs (`RelayRate`); one input's share less, and it does not.

### Fairness

* `headers_lead`, mode `reorg`: the leader's goroutines go on; requests are answered or fail; the
  server keeps announcing its tip (every block brings a notification), strong
  fairness because the queue may be full at times.
* `conn_ends`, `conn_late`: weak fairness for every goroutine that can run (Go's scheduler), strong for
  `Failover`, because Go's mutex hands itself to a waiter after 1 ms (starvation
  mode). No fairness for the server, for its resets or for the client's wish to
  ask something.
* `network_failover`: weak fairness for the monitor, which assumes that the client's
  calls release `peersMtx` (see `conn_late` for when they do not); strong
  fairness for choosing a steady server because the list is shuffled at random
  each time.
* `tips`: weak fairness for tipChange's steps and for queues that end; strong for what
  a select or a channel serves in turn (a leader's tip, the cancelled context) and for
  the mutex, which readers cannot keep from a waiting writer. None for leaders, servers,
  Stop or the user; that the user empties its channel again and again is a premise of
  the properties (`Takes`).
* `spend`, `txstore_use`, `stores`, `conn_order`, `client_wallet`: none, their properties are about
  safety. That a spent coin is ever deleted cannot be promised: a failed fetch is passed over
  (`wallet_synchronize.go:307`), and after a failover nothing is subscribed.

`CHECK_DEADLOCK FALSE` is set where a state without successor is a proper end: a
connection that is over, a network whose server file cannot be decoded, a client that
failed to start, payments and blocks used up.

## 4. Proofs

All theorems hold for every value of the constants within the named `ASSUME`s.
`TypeCorrect` is the type invariant of each module, with the bounds of its queues and
lists; since it is proved, the runs repeat only the one of `Client`.

* `HeadersProofs`: `TypeCorrect`; for leaders that do not overlap (one slot)
  `ChainStaysLinked` and `StoredConnects`, however wrong the counts are, and
  `FileAgreesWithMap` and `FileStaysLinked`, from a sync that counted right on
  (`~miscounted`). `ChainLinked` is not inductive: between check and store the header at
  hand must still connect (`ChainInv`); during a rewind the file is shorter than the map by
  what is left to remove, after an append longer by one (`FileInv`). A sync that counted
  wrong and passed `verifyAll` left linked headers, or none, above the start point, since
  `verifyFromTip` looks at each of them; that is all `ChainStaysLinked` claims of it.
* `ServerConnProofs`: `TypeCorrect`; `ResponseNeverBlocks`; `AnswersMatchRequests`;
  `NotificationsInOrder`. The invariant of the third: ids of requests under way differ
  (`IdsApart`), what the server was asked, what is in the stream and what is in a channel under
  an id is for the caller that has the id, if any (`AskedOwn`, `StreamOwn`, `ChanOwn`). That
  of the last (`OrderInv`): along stream, `listen`, forwarder, queue and the item at hand
  each notification is the successor of the one ahead of it (`StreamLinked`, `FwdLinked`,
  `QueueLinked`), and the queue's end mark is last (`NilLast`).
* `NetworkProofs`: `TypeCorrect` (never more than `MaxOnlinePeers` peers, from what
  startNewPeerMaybe found before it connected), `LeaderIsAlone`, `NoNodeLost`,
  `PeersDiffer` (from `LeaderGone`: while checkLeader looks for a leader none is
  live, and `ServerFree`: no live peer comes to be on the chosen server),
  `StaticIsKept`, `FileStaysKnown` (but for what an I/O error left, `stuck`).
* `TxStoreProofs`: `TypeCorrect`, and for `markAsDead` in one step or write by write, with kills
  and freezing between the writes: `NoDoubleSpendStored` (with: while a call is under way whatever
  conflicts with it is dead, given up, or still to be marked by a call on the stack);
  `DeadStayDead`, assuming nobody freezes coins. Of a call on the stack: its rows have all that
  its transaction spent and all that spent its outputs, its list of outputs all that is left of
  them (`CallInv`), and calls go from a transaction to what spends it, so that the innermost
  one cannot undo what an outer one relies on (`StackInv`, by an order of the transactions,
  `Age`, that an assumption on the constants provides). `CoinsAreKept`, assuming `SoleWallet`:
  outputs pay keys that exist, the address cache is current; what `markAsDead` is
  called for is not confirmed (`Dying`), since nothing stored as confirmed conflicts with
  what the server ever listed and mined (`ChainAgrees`); and each output of a confirmed
  transaction is on record, in `markAsDead`'s hand, or was when the process was killed
  (`OnRecord`, `torn`). `OnlyUserThaws`, as long as there are no double spends or no Freeze has
  raced a spend (with both, `markAsDead` writes a spent record over a frozen coin);
  `BalanceIsRight` and `ConfirmedIsRight`, assuming `Undisturbed` (the only wallet with its
  seed, no spending of the mempool, no freezing, no kill inside a call, `markAsDead` in one
  step) and, for the former,
  `Visible` (a double spend of what touches the wallet touches it too). `BalanceIsRight`
  needs each condition: without it TLC finds a counterexample (section 5). Their invariant
  `LiveInv`, checked by TLC on the instance of `txstore_use` first: heights, wherever they are
  kept, are those of the chain (`TrueHeights`, `OurCoins`, `OurSpent`); a coin has a height
  exactly if its transaction is stored as confirmed or the call under way will store it so, and
  only such coins are spent (`HeightKept`, `SpentKept`); coins are of live transactions and
  not spent by one (`Living`, `SpentAway`); a call for a mined transaction of the wallet ends as a
  hit (`Hit`); and what was mined for a key is stored once its history is worked through,
  and still to come before (`Done`). What `markAsDead` kills was never mined, so nothing
  spends it (`OnlyDoubles`).

* `ClientProofs`: `TypeCorrect`; `AddressesAvailable`; `NotificationsHaveRows`;
  `ChangesNotMissed`, for any gap, either datastore and any number of goroutines. That
  key indices stay within the bound needs: used keys were paid, paid keys lie a gap
  below the bound, and the window is never wider than `GAP_LIMIT` (`KeyInv`); the lemmas
  `WindowGrows` and `WindowShrinks` say what new and marked keys do to it. Rows need:
  nothing is subscribed while no wallet is open, and the call under way has put
  the row of the address it subscribes (`Quiet`, `CallRows`). `RescanComplete`: whatever the
  rescan still owes lies ahead, within `GAP_LIMIT` of the last hit or of another address it
  owes (`RescanInv`), because addresses with a history leave no wider gap (`GapChain`).

* `TipsProofs`: `TypeCorrect`; `NeverOnClosed`; `NoTipLost`, for any number of leaders and users.
  `EveryTip` is inductive only with: a held tip is the last one received, before the first
  receipt nobody has a tip, and tipChange runs only in a client that has started
  (`InOrder`, `Started`). A third number is needed so that a tip and the next but one
  differ (`Turn > 2`).
* `StoresProofs`: `TypeCorrect`; `RowidsOrdered`; `Implementation`, that is
  `Spec => Implements`: every step of the chosen store is one of `Datastore`, leaves what a
  caller sees as it is, or is one of the calls that `Diverges` names (section 2). It needs the
  types, that a key bbolt has read is still there when it is written back (keys are never
  deleted; `KeyCurrent`), and for sqlite that rowids of a purpose grow with the indexes
  (`Ordered`). For a put of a coin or a transaction nothing is assumed: if the record is still
  the one that was read the put does what the interface says, else it is a `LostUpdate`.
* `SpendProofs`: `TypeCorrect`; `RivalsUnknown`; `FrozenStays`; `NewChangeKey`, for any callers,
  values, amounts and fees. The invariant: what AddTransaction is working on is a
  transaction the server has, at a height it had (`Working`); no coin of a stored
  transaction is in the wallet again, outside the steps that put outputs (`NoneBack`,
  `PutOnce`); marks of locked coins are set (`LocksHold`); the change key of a
  stored payment is marked (`KeysKnown`). `BalanceRight`: what is unspent, with what was paid and
  the fees, is what there was (`Conserved`), every transaction under way balances (`AllBalanced`),
  coins have their values and none is left out (`ValuesRight`, `NoneLost`). The sums are the
  library's folds; what they do (`SumStep`, `SumSplit`, `SumEqual`...) is proved first.
  `SweptWhole` and `SweepRelayed` are about `Sweep`: an answered key's coins are among the
  inputs, between its two requests the first answer is at hand, no answered key is left in a
  list without repetition (`Whole`, `HalfWay`, `OnceEach`). The relay fee is paid for any
  number of inputs from a rate of 4 on (`RelayRate`; `wallet/fees.go` has 20, 30 and 50); at 3
  it fails from seven P2PKH inputs on.

Induction over data. The provers cannot instantiate the library's induction rules. Where an
induction over numbers or finite sets is needed (the gap chain of a rescan, sums), it is
done by the least counterexample: `WFMin` with `NatLessThanWellFounded` or
`FS_StrictSubsetOrderingWellFounded`, whose parameters are sets.

Only model-checked: everything about liveness (`CatchesUp`, `PeerWindsUp`, `PeerPassedBack`,
`HeaderQueueEnds`, `LeaderComesBack`, `QueueNotHeldUp`, `CallsReturn`, `TipChangeStops`), since fairness is
outside what the prover handles, and `WalkIsDeath`, that the recursion of `markAsDead` comes to
the least set `Dead`. Every other safety property of a passing run is a theorem.

## 5. Observations

The three violation runs are the findings in `PROJECT.json`. While modelling,
further disagreements between code and comments were met; they are not runs:

* Headers. A second rewind during a recovery sets `recoveryTip` to the rewound
  tip, so `getClientTip` falls below what the client was sent
  (`node_headers.go`, `reorgRecovery`; `headers.go:226`). A later leader's sync
  that fails `verifyAll` leaves its headers in file and map while `synced` stays
  true. An answer without headers that declares one makes `verifyAll` pass with no header at
  the start point, and `synced` is set (`headers.go:280`).
* TxStore. A payment to a key outside the window, in a transaction stored as
  confirmed, is left out for good (restored wallets, `rescan.go:14`). A mempool
  transaction listed at height -1 is stored with the height of dead ones and passed
  over by `CheckDoubleSpends`. A coin frozen while unconfirmed is thawed when its
  transaction confirms. bbolt's `Freeze`/`UnFreeze` write back a record that may
  have been spent or confirmed meanwhile. Only the first stxo of a transaction
  gets its spend height. A payment replaced by a double spend that touches none of the
  wallet's addresses stays a coin for good: no history lists the double spend, and
  nothing is dropped for no longer being listed; the same when the double spend replaces
  an unconfirmed transaction that the payment spends. After a kill between `PutOutputs` and `PutTxn` the
  coin is offered to Spend though its transaction is not stored; if its spender is then added
  first, adding the transaction again brings the spent coin back for good. `markAsDead` deletes
  the spent record (`txstore.go:238`) and puts the coin back (`:254`) in two transactions of the
  database: a kill between them loses the coin, whose transaction may be confirmed and is then
  never looked at again. After a kill a spender may have a spent record and not be stored; then
  `markAsDead` returns the error of `UpdateHeight` half way, `AddTransaction` ignores it, and
  the double spend stays alive next to what it conflicts with.
* ServerConn. `headerQueue` waits for an answer that `listen`, blocked on
  `headersNotify`, does not read; `WindsUp` fails with a header pipeline. The
  forwarder may leave while `listen` hands it a notification; `PassedBack` fails with
  a scripthash pipeline. `done` is closed while `listen` may still run.
* Network. `availableServers` leaves out the servers of live peers "that have not
  yet been started" (`network.go:355`), but the leader started by `Start` or
  `startNewLeader` is not in `net.peers`: its own server is offered again, and when it
  fails the leader and the peer that should take over fail together. Learned servers are never written to `network_servers.json`
  (`updateStoredServers` has no caller; `electrumx.go:54-58` says they are). With the
  default strategy every server that refuses once is dropped, so the network can
  be left without any; a kill or a failed write after the truncation loses the file or
  leaves one that every later `Start` refuses. A removal whose error nobody looks at leaves
  the server in the file.

* Client. The goroutine that should "serve until done"
  (`wallet_synchronize.go:197`) returns when a row is missing. Two orders of calls
  lead there: UnsubscribeAddressNotify while a notification is under way, and
  UnusedAddress called again for an address already handed out, whose subscription
  fails: the row goes though the server still notifies. `isSubscribed` returns true
  when there is no row (`wallet_synchronize.go:125`), so a row that exists is put again. Each
  SyncWallet starts one more goroutine on the same channel. getNewAddress and
  Broadcast do not look at the status they get. After a failover nobody subscribes
  again. A process stopped before the creation date is stored leaves a file that
  CreateWallet refuses to replace and LoadWallet refuses to open. RescanWallet goes
  on after a failed request and returns no error, and looks at no index above 100.

* Tips. With a channel that is full and that nobody reads, tipChange holds the read lock for
  good: UnregisterTipChangeNotify never returns, after Stop neither, and the
  leader's header queue stands still behind it (`blockchain.go:33`).
* Datastores. The exceptions of `Implements` (section 2). bbolt's lookahead window counts every unused
  key, `datastore.go:189` and the other two those after the last used one. sqlite has no column for the frozen mark of a spent coin.
  GetDecrypted of a bbolt store without a value panics. sqlite's PutCreationDate writes under the
  read lock; its GetLastKeyIndex returns index 0 with an error for an empty table. The
  mock's UnFreeze clears WatchOnly, and its stxos are kept by spender, so a transaction
  with two inputs keeps one of them.
* Spend. `inputSource` returns no scripts, so NewUnsignedTransaction charges the fee of a
  transaction without inputs (`send.go:167`). The change index Spend returns is the one
  before the BIP 69 sort, and -1 without change, where `client_wallet.go:71-73` says
  "index of any change output or 0 if none". Two Spends before a synchronisation may share
  coins and a change key. SignTx signs for frozen coins. Confirmations are negative
  when the wallet's tip is behind. Broadcast returns an error after the server took the
  transaction, if the subscription that follows fails. GetUnusedAddress returns neither an
  address nor an error when there is no key. GetWalletTx of a dead transaction answers
  "txns db error". BumpFee returns an error: its code is commented out.
* Sweep. ImportAndSweep builds, signs and serialises the transaction and drops it. The
  "worst case" size (`sizes.go:160`) counts one witness: each further P2WPKH input
  falls short by 27 virtual bytes, each P2PKH input by 108, so the rate paid is below the
  one asked for, though `RelayFeePaid` holds. `maxTxInputs` is not looked at. A key
  imported twice gives its coins twice, which no server accepts.
* Fees. `selectFee` is always given `PRIORITY` (`fees.go:82-88`), so a fee API that answers 0
  for a level yields the default of another; no wallet sets the API.

## 6. Not modelled

* Node queries, `electrumx.go` and the pass-through calls of the interfaces: one request each,
  which is a caller of `ServerConn`.
* Parsing of headers and JSON, encryption, derivation of keys, scripts and signatures:
  computation without state shared between actors.
* The fee API with its cache and the exchange rates: no wallet sets the one, nothing calls
  the other. Session cost: a counter nobody reads.
* The RPC methods that format one read, and the commands but for removing a wallet file: I/O.
* A chain that reorganises under `TxStore` and `Spend`: the code has nothing for it; heights
  once stored are kept.

## 7. Plan

1. An abstract specification of what a connection promises its callers, and of the header
   store as a chain that grows at the tip and is cut back, with their refinements as theorems.
2. Watched foreign addresses in `Client`; `Spend` over the bbolt store, composed with `TxStore`.
