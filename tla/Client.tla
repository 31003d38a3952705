------------------------------ MODULE Client ------------------------------
(***************************************************************************)
(* The client between the node and the wallet (client/btc): the life of a  *)
(* wallet (create, recreate, load, remove), its keys with the lookahead    *)
(* window (wallet/wltbtc/keys.go), the subscriptions bucket, and the calls *)
(* that keep the bucket, the server's subscriptions and the wallet's       *)
(* knowledge of address histories together: SyncWallet, UnusedAddress,     *)
(* ChangeAddress, Broadcast, UnsubscribeAddressNotify, RescanWallet and    *)
(* the goroutine of addressStatusNotify.                                   *)
(*                                                                         *)
(* An address is its key, <<purpose, index>>.  Its history is the number   *)
(* of changes it went through; a status is empty when there were none.     *)
(* The api user makes one call at a time, while the notification           *)
(* goroutines, the server, failover and the end of the process interleave  *)
(* with every request and every database write of it.  What a fetched      *)
(* history does to the transaction buckets is the subject of TxStore.      *)
(***************************************************************************)
EXTENDS Integers, Sequences, FiniteSets

CONSTANTS
    GAP_LIMIT,
    highestKeyIndex,   \* the last index RescanWallet tries
    Sqlite,            \* the datastore is the sqlite one, not the bbolt one
    Readers,           \* bound: goroutines addressStatusNotify starts in one session
    MaxIndex,          \* bound: indices of keys
    MaxChanges         \* bound: changes of addresses, altogether

ASSUME ConstantsAssumption ==
    /\ GAP_LIMIT \in Nat \ {0} /\ Sqlite \in BOOLEAN
    /\ MaxIndex \in Nat /\ GAP_LIMIT <= MaxIndex + 1
    /\ highestKeyIndex \in 0..MaxIndex
    /\ MaxChanges \in Nat

Purpose == {0, 1}              \* wallet.EXTERNAL, wallet.INTERNAL
Key == Purpose \X (0..MaxIndex)

VARIABLES
    store,             \* what makeBtcElectrumWallet has put on disk so far
    nkeys, used,       \* the keys bucket: how many per purpose, those marked
    subs,              \* the subscriptions bucket
    seen,              \* per key: the history the wallet has worked through
    pc, op,            \* where the api user's call is; how the wallet was opened
    key, todo,         \* the address at hand, those the call still has to do
    hit,               \* RescanWallet's historyHitIndex
    reader, rkey,      \* per notification goroutine: where it is, its address
    hist,              \* the server: changes of each address
    watched,           \* the leader's server: subscriptions of this session
    pending,           \* notifications on their way to clientScripthashNotify
    dropped,           \* addresses whose change was learned of and let go
    removed,           \* addresses whose row was deleted in this session
    owed               \* what the rescan under way has to find

disk == <<store, nkeys, used, subs, seen>>
call == <<pc, op, key, todo, hit>>
readers == <<reader, rkey>>
server == <<hist, watched, pending>>
history == <<dropped, removed, owed>>
vars == <<disk, call, readers, server, history>>

Goto(l) == pc' = l
None == <<0, 0>>

-----------------------------------------------------------------------------
(* Keys.                                                                   *)

\* Of n keys, those not marked as used, with u the marked ones.
Unused(c, n, u) == {i \in 0..(n - 1) : <<c, i>> \notin u}

\* GetLookaheadWindows counts all of them (bbolt), or those after the last
\* marked one (sqlite).
Ahead(c, n, u) ==
    {i \in Unused(c, n, u) : Sqlite => \A j \in i..(n - 1) : <<c, j>> \notin u}
Window(c, n, u) == Cardinality(Ahead(c, n, u))

Narrow(c) == Window(c, nkeys[c], used) < GAP_LIMIT

\* lookahead: the keys a purpose has afterwards.
AnotherWindow(n, w) == n + GAP_LIMIT
Extended(n, w) == IF w < GAP_LIMIT THEN n + (GAP_LIMIT - w) ELSE n

\* KeyManager.MarkKeyAsUsed for the keys in M, which are in the bucket: mark,
\* then lookahead.  After the last one it comes to the same as after each.
NoLookahead(M) == used' = used \union M /\ UNCHANGED nkeys
MarkKeyAsUsed(M) ==
    /\ used' = used \union M
    /\ nkeys' = [c \in Purpose |->
                    IF M = {} THEN nkeys[c]
                    ELSE Extended(nkeys[c], Window(c, nkeys[c], used \union M))]

Owned == {k \in Key : k[2] < nkeys[k[1]]}
Paid == {k \in Owned : hist[k] > 0}

\* The history of k is fetched and its transactions are added to the wallet.
\* They mark k, and other keys they pay.
AddTxHistoryToWallet(k) ==
    /\ seen' = [seen EXCEPT ![k] = hist[k]]
    /\ dropped' = dropped \ {k}
    /\ \E M \in SUBSET Paid : {k} \intersect Paid \subseteq M /\ MarkKeyAsUsed(M)

\* The client will not look at what k went through.
LetGo(k) ==
    dropped' = IF k \in watched /\ seen[k] < hist[k] THEN dropped \union {k} ELSE dropped

\* Transactions that could not be fetched are passed over.
AddSomeOfHistory(k) ==
    /\ LetGo(k)
    /\ \E M \in SUBSET Paid : MarkKeyAsUsed(M)
    /\ UNCHANGED seen

-----------------------------------------------------------------------------
(* Subscriptions: the row in the bucket, and the server's.                 *)

AddSubscription(k) == subs' = subs \union {k} /\ removed' = removed \ {k}
RemoveSubscription(k) == subs' = subs \ {k} /\ removed' = removed \union {k}

\* The status that comes with a new subscription is not followed up.
StatusIgnored(k) ==
    dropped' = IF k \notin watched /\ seen[k] < hist[k] THEN dropped \union {k} ELSE dropped

SubscribeScripthashNotify(k) == watched' = watched \union {k}

\* A request that fails may have reached the server all the same.
SubscribeFailed(k) ==
    \/ watched' = watched /\ UNCHANGED dropped
    \/ SubscribeScripthashNotify(k) /\ StatusIgnored(k)

Changes == Cardinality({c \in Key \X (1..MaxChanges) : c[2] <= hist[c[1]]})

\* The server's view of the addresses in S changes.
Change(S) ==
    /\ \A k \in S : hist[k] < MaxChanges /\ k[2] + GAP_LIMIT <= MaxIndex
    /\ Cardinality(S) + Changes <= MaxChanges
    /\ hist' = [k \in Key |-> IF k \in S THEN hist[k] + 1 ELSE hist[k]]

-----------------------------------------------------------------------------
(* Opening a wallet.                                                       *)

Init ==
    /\ store = "none" /\ nkeys = [c \in Purpose |-> 0] /\ used = {} /\ subs = {}
    /\ seen = [k \in Key |-> 0] /\ hist = [k \in Key |-> 0]
    /\ pc = "closed" /\ op = "load" /\ key = None /\ todo = {} /\ hit = 0
    /\ reader = [r \in Readers |-> "none"] /\ rkey = [r \in Readers |-> None]
    /\ watched = {} /\ pending = <<>>
    /\ dropped = {} /\ removed = {} /\ owed = {}

\* A new seed's addresses have no history; a mnemonic may be any wallet's.
MakeWallet(o) ==
    /\ pc = "closed" /\ store = "none"
    /\ o = "create" => \A k \in Key : hist[k] = 0
    /\ store' = "file" /\ op' = o /\ Goto("secret")
    /\ UNCHANGED <<nkeys, used, subs, seen, key, todo, hit, readers, server, history>>

CreateWallet == MakeWallet("create")
RecreateWallet == MakeWallet("recreate")

PutSecret ==
    /\ pc = "secret"
    /\ store' = "secret" /\ Goto("keys")
    /\ UNCHANGED <<nkeys, used, subs, seen, op, key, todo, hit, readers, server, history>>

\* Without the secret, or without a file, LoadWallet returns an error.
LoadWallet ==
    /\ pc = "closed" /\ store \in {"secret", "ready"}
    /\ op' = "load" /\ Goto("keys")
    /\ UNCHANGED <<disk, key, todo, hit, readers, server, history>>

\* NewKeyManager: lookahead puts one key at a time.
GetFreshKey(c) ==
    /\ pc = "keys" /\ Narrow(c)
    /\ nkeys' = [nkeys EXCEPT ![c] = @ + 1]
    /\ UNCHANGED <<store, used, subs, seen, call, readers, server, history>>

\* The rest of makeBtcElectrumWallet and loadBtcElectrumWallet.  Without a
\* creation date the wallet is not loaded.
KeysReady ==
    /\ pc = "keys" /\ \A c \in Purpose : ~Narrow(c)
    /\ Goto(CASE op # "load" -> "date"
              [] op = "load" /\ store = "ready" -> "idle"
              [] OTHER -> "closed")
    /\ UNCHANGED <<disk, op, key, todo, hit, readers, server, history>>

\* RescanWallet begins: it owes the addresses that have a history now.
BeginRescan ==
    /\ key' = None /\ hit' = 0
    /\ owed' = {k \in Key : hist[k] > 0 /\ k[2] <= highestKeyIndex}
    /\ Goto("rescan")

PutCreationDate ==
    /\ pc = "date"
    /\ store' = "ready" /\ op' = "load"
    /\ IF op = "recreate" THEN BeginRescan
                          ELSE Goto("idle") /\ UNCHANGED <<key, hit, owed>>
    /\ UNCHANGED <<nkeys, used, subs, seen, todo, readers, server, dropped, removed>>

-----------------------------------------------------------------------------
(* RescanWallet.                                                           *)

RescanWallet ==
    /\ pc = "idle" /\ BeginRescan
    /\ UNCHANGED <<disk, op, todo, readers, server, dropped, removed>>

\* No more history for another GAP_LIMIT indices.
FirstGap(h) == key[2] >= h
Finished(h) == key[2] > h + GAP_LIMIT

\* On to the other purpose of the index, to the next index, or to the end,
\* with h the highest index that had a history.
NextKey(h) ==
    \/ /\ key[1] = 0
       /\ key' = <<1, key[2]>> /\ hit' = h /\ UNCHANGED pc
    \/ /\ key[1] = 1 /\ ~Finished(h) /\ key[2] < highestKeyIndex
       /\ key' = <<0, key[2] + 1>> /\ hit' = h /\ UNCHANGED pc
    \/ /\ key[1] = 1 /\ (Finished(h) \/ key[2] = highestKeyIndex)
       /\ key' = None /\ hit' = 0 /\ Goto("idle")

\* An address without history is passed over.
RescanMiss ==
    /\ pc = "rescan" /\ hist[key] = 0
    /\ NextKey(hit)
    /\ UNCHANGED <<disk, op, todo, readers, server, history>>

RescanHit ==
    /\ pc = "rescan" /\ hist[key] > 0
    /\ AddSubscription(key) /\ owed' = owed \ {key}
    /\ NextKey(key[2])
    /\ UNCHANGED <<store, nkeys, used, seen, op, todo, readers, server, dropped>>

\* So is one whose history could not be fetched: the rescan goes on.
RescanFails ==
    /\ pc = "rescan"
    /\ owed' = {}
    /\ NextKey(hit)
    /\ UNCHANGED <<disk, op, todo, readers, server, dropped, removed>>

-----------------------------------------------------------------------------
(* SyncWallet.                                                             *)

SyncWallet ==
    /\ pc = "idle"
    /\ todo' = subs /\ Goto("sync")
    /\ UNCHANGED <<disk, op, key, hit, readers, server, history>>

\* SubscribeAddressNotify, which puts the row that is there again.  With an
\* empty status there is nothing to fetch.
SkipsKnown(k) == hist[k] = 0 \/ seen[k] > 0
NothingToFetch(k) == hist[k] = 0

SyncSubscribe(k) ==
    /\ pc = "sync" /\ k \in todo /\ k \in subs
    /\ SubscribeScripthashNotify(k)
    /\ todo' = todo \ {k}
    /\ IF NothingToFetch(k) THEN UNCHANGED <<pc, key>>
                            ELSE key' = k /\ Goto("history")
    /\ UNCHANGED <<disk, op, hit, readers, hist, pending, history>>

\* SyncWallet returns the error and starts no notification goroutine.
SyncSubscribeFails(k) ==
    /\ pc = "sync" /\ k \in todo
    /\ SubscribeFailed(k)
    /\ todo' = {} /\ Goto("idle")
    /\ UNCHANGED <<disk, op, key, hit, readers, hist, pending, removed, owed>>

SyncHistory ==
    /\ pc = "history"
    /\ AddTxHistoryToWallet(key)
    /\ key' = None /\ Goto("sync")
    /\ UNCHANGED <<store, subs, op, todo, hit, readers, server, removed, owed>>

SyncHistoryFails ==
    /\ pc = "history"
    /\ LetGo(key)
    /\ todo' = {} /\ key' = None /\ Goto("idle")
    /\ UNCHANGED <<disk, op, hit, readers, server, removed, owed>>

SyncHistoryPartly ==
    /\ pc = "history"
    /\ AddSomeOfHistory(key)
    /\ key' = None /\ Goto("sync")
    /\ UNCHANGED <<store, subs, op, todo, hit, readers, server, removed, owed>>

\* Every call that gets here starts one more goroutine on the same channel.
AddressStatusNotify(r) ==
    /\ pc = "sync" /\ todo = {}
    /\ reader[r] = "none"
    /\ reader' = [reader EXCEPT ![r] = "wait"]
    /\ Goto("idle")
    /\ UNCHANGED <<disk, op, key, todo, hit, rkey, server, history>>

-----------------------------------------------------------------------------
(* UnusedAddress, ChangeAddress, Broadcast.                                *)

\* GetUnusedKey takes the first unused key; the row is put before the request.
NewAddressNoRow(c) ==
    /\ pc = "idle"
    /\ \E i \in Unused(c, nkeys[c], used) :
          /\ \A j \in Unused(c, nkeys[c], used) : i <= j
          /\ key' = <<c, i>>
    /\ Goto("subscribe")
    /\ UNCHANGED <<disk, op, todo, hit, readers, server, history>>

GetNewAddress(c) ==
    /\ pc = "idle"
    /\ \E i \in Unused(c, nkeys[c], used) :
          /\ \A j \in Unused(c, nkeys[c], used) : i <= j
          /\ key' = <<c, i>> /\ AddSubscription(<<c, i>>)
    /\ Goto("subscribe")
    /\ UNCHANGED <<store, nkeys, used, seen, op, todo, hit, readers, server, dropped, owed>>

Subscribed ==
    /\ pc = "subscribe"
    /\ SubscribeScripthashNotify(key) /\ StatusIgnored(key)
    /\ key' = None /\ Goto(IF todo = {} THEN "idle" ELSE "put")
    /\ UNCHANGED <<disk, op, todo, hit, readers, hist, pending, removed, owed>>

\* The row goes, whoever put it, and the call ends.
NotSubscribed ==
    /\ pc = "subscribe"
    /\ RemoveSubscription(key) /\ SubscribeFailed(key)
    /\ key' = None /\ todo' = {} /\ Goto("idle")
    /\ UNCHANGED <<store, nkeys, used, seen, op, hit, readers, hist, pending, owed>>

\* One notification for each address in S, in any order.
Announcements(S) ==
    {s \in [1..Cardinality(S) -> S] : \A k \in S : \E i \in DOMAIN s : s[i] = k}

\* The server takes a transaction with outputs that pay S of this wallet.
Broadcast(S) ==
    /\ pc = "idle" /\ S # {}
    /\ Change(S)
    /\ \E s \in Announcements(S \intersect watched) : pending' = pending \o s
    /\ todo' = S /\ Goto("put")
    /\ UNCHANGED <<disk, op, key, hit, readers, watched, history>>

PutBack(k) ==
    /\ pc = "put" /\ k \in todo
    /\ AddSubscription(k)
    /\ key' = k /\ todo' = todo \ {k} /\ Goto("subscribe")
    /\ UNCHANGED <<store, nkeys, used, seen, op, hit, readers, server, dropped, owed>>

-----------------------------------------------------------------------------
(* UnsubscribeAddressNotify.                                               *)

\* Whether the request reached the server is not looked at.
UnsubscribeAddressNotify(k) ==
    /\ pc = "idle" /\ k \in subs
    /\ watched' \in {watched, watched \ {k}} /\ dropped' = dropped \intersect watched'
    /\ key' = k /\ Goto("remove")
    /\ UNCHANGED <<disk, op, todo, hit, readers, hist, pending, removed, owed>>

RemoveRow ==
    /\ pc = "remove"
    /\ RemoveSubscription(key)
    /\ key' = None /\ Goto("idle")
    /\ UNCHANGED <<store, nkeys, used, seen, op, todo, hit, readers, server, dropped, owed>>

-----------------------------------------------------------------------------
(* The goroutine of addressStatusNotify.                                   *)

TakeNotification(r) ==
    /\ reader[r] = "wait" /\ pending # <<>> /\ Head(pending) \in subs
    /\ pending' = Tail(pending)
    /\ reader' = [reader EXCEPT ![r] = "fetch"]
    /\ rkey' = [rkey EXCEPT ![r] = Head(pending)]
    /\ UNCHANGED <<disk, call, hist, watched, history>>

\* Without a row for the scripthash the goroutine returns.
NoSubscription(r) ==
    /\ reader[r] = "wait" /\ pending # <<>> /\ Head(pending) \notin subs
    /\ pending' = Tail(pending)
    /\ reader' = [reader EXCEPT ![r] = "gone"]
    /\ LetGo(Head(pending))
    /\ UNCHANGED <<disk, call, rkey, hist, watched, removed, owed>>

ReaderHistory(r) ==
    /\ reader[r] = "fetch"
    /\ AddTxHistoryToWallet(rkey[r])
    /\ reader' = [reader EXCEPT ![r] = "wait"] /\ rkey' = [rkey EXCEPT ![r] = None]
    /\ UNCHANGED <<store, subs, call, server, removed, owed>>

\* None of the history, or some of it.
ReaderFails(r) ==
    /\ reader[r] = "fetch"
    /\ AddSomeOfHistory(rkey[r])
    /\ reader' = [reader EXCEPT ![r] = "wait"] /\ rkey' = [rkey EXCEPT ![r] = None]
    /\ UNCHANGED <<store, subs, call, server, removed, owed>>

-----------------------------------------------------------------------------
(* The server, the network and the process.                                *)

\* Somebody pays an address of the wallet or spends from it, or a block comes.
Pay(k) ==
    /\ k \in Owned \/ hist[k] > 0
    /\ Change({k})
    /\ pending' = IF k \in watched THEN Append(pending, k) ELSE pending
    /\ UNCHANGED <<disk, call, readers, watched, history>>

\* Another leader: nobody subscribes again, and what the old one's pipeline
\* holds may still come through.
Failover ==
    /\ watched # {}
    /\ watched' = {} /\ dropped' = {}
    /\ pending' \in {pending, <<>>}
    /\ UNCHANGED <<disk, call, readers, hist, removed, owed>>

Stop ==
    /\ pc # "closed"
    /\ Goto("closed") /\ op' = "load" /\ key' = None /\ todo' = {} /\ hit' = 0
    /\ reader' = [r \in Readers |-> "none"] /\ rkey' = [r \in Readers |-> None]
    /\ watched' = {} /\ pending' = <<>>
    /\ dropped' = {} /\ removed' = {} /\ owed' = {}
    /\ UNCHANGED <<disk, hist>>

\* rmwallet, or the loss of the disk.
RmWallet ==
    /\ pc = "closed" /\ store # "none"
    /\ store' = "none" /\ nkeys' = [c \in Purpose |-> 0] /\ used' = {} /\ subs' = {}
    /\ seen' = [k \in Key |-> 0]
    /\ UNCHANGED <<call, readers, server, history>>

-----------------------------------------------------------------------------
Opening ==
    \/ CreateWallet \/ RecreateWallet \/ LoadWallet
    \/ PutSecret \/ KeysReady \/ PutCreationDate
    \/ \E c \in Purpose : GetFreshKey(c)

Rescanning == RescanWallet \/ RescanMiss \/ RescanHit \/ RescanFails

Syncing ==
    \/ SyncWallet \/ SyncHistory \/ SyncHistoryFails \/ SyncHistoryPartly
    \/ \E k \in Key : SyncSubscribe(k) \/ SyncSubscribeFails(k)
    \/ \E r \in Readers : AddressStatusNotify(r)

Subscribing ==
    \/ \E c \in Purpose : GetNewAddress(c)
    \/ \E S \in SUBSET Owned : Broadcast(S)
    \/ \E k \in Key : PutBack(k) \/ UnsubscribeAddressNotify(k)
    \/ Subscribed \/ NotSubscribed \/ RemoveRow

Reading ==
    \E r \in Readers :
        TakeNotification(r) \/ NoSubscription(r) \/ ReaderHistory(r) \/ ReaderFails(r)

Next ==
    \/ Opening \/ Rescanning \/ Syncing \/ Subscribing \/ Reading
    \/ \E k \in Key : Pay(k)
    \/ Failover \/ Stop \/ RmWallet

Spec == Init /\ [][Next]_vars

-----------------------------------------------------------------------------
(* Properties.                                                             *)

\* Values of the variables.
TypeOK ==
    /\ store \in {"none", "file", "secret", "ready"}
    /\ nkeys \in [Purpose -> 0..(MaxIndex + 1)]
    /\ used \subseteq Key /\ subs \subseteq Key
    /\ seen \in [Key -> 0..MaxChanges] /\ hist \in [Key -> 0..MaxChanges]
    /\ pc \in {"closed", "secret", "keys", "date", "idle", "rescan", "sync",
               "history", "put", "subscribe", "remove"}
    /\ op \in {"create", "recreate", "load"}
    /\ key \in Key /\ todo \subseteq Key /\ hit \in 0..MaxIndex
    /\ reader \in [Readers -> {"none", "wait", "fetch", "gone"}]
    /\ rkey \in [Readers -> Key]
    /\ watched \subseteq Key /\ pending \in Seq(Key)
    /\ dropped \subseteq Key /\ removed \subseteq Key /\ owed \subseteq Key

\* GetUnusedKey always finds a key while a wallet is open: each purpose has
\* at least GAP_LIMIT unused keys, wherever the process was stopped before and
\* whichever goroutine marks keys as used.
GapKept ==
    pc \notin {"closed", "secret", "keys"} => \A c \in Purpose : ~Narrow(c)

\* addressStatusNotify returns for good when it finds no row for a
\* notification.  Every address the server sends notifications for, or sent
\* one for that is still on its way, has a row, unless the client itself
\* deleted it in this session.
RowForNotification ==
    /\ watched \subseteq subs \union removed
    /\ \A i \in DOMAIN pending : pending[i] \in subs \union removed

\* No change of a watched address gets lost between the subscription, the
\* history request and the notifications: it has been worked through, a
\* notification is on its way, its history is about to be requested, or the
\* client learned of it and let it go (a failed request, an ignored status).
NothingMissed ==
    \A k \in watched :
        seen[k] < hist[k] =>
            \/ k \in dropped
            \/ \E i \in DOMAIN pending : pending[i] = k
            \/ \E r \in Readers : reader[r] = "fetch" /\ rkey[r] = k
            \/ pc = "history" /\ key = k

\* RescanWallet stops GAP_LIMIT after the last address with a history.  The
\* lookahead window is such that no address in use lies beyond, within the
\* indices it tries: a rescan without failed requests finds all of them.
RescanFindsAll == pc # "rescan" => owed = {}

=============================================================================
