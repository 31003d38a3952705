------------------------------ MODULE TxStore ------------------------------
(***************************************************************************)
(* The wallet's transaction store (wallet/wltbtc/txstore.go) over its bbolt *)
(* buckets, fed by the client with the address histories of an ElectrumX   *)
(* server (client/btc/wallet_synchronize.go).                              *)
(*                                                                         *)
(* A transaction is known by the outputs it spends and the outputs that    *)
(* are its own; an output by the wallet key it pays, if any.  The server   *)
(* keeps a mempool and a chain without reorganisations.  AddTransaction    *)
(* runs on one goroutine, in the steps between its database writes; the    *)
(* user freezes and unfreezes coins from others.  markAsDead is one step,  *)
(* or with Steps a recursion of one step per write, whose outcome is the   *)
(* same if nothing comes between (WalkIsDeath).                            *)
(***************************************************************************)
EXTENDS Integers, FiniteSets, Sequences

CONSTANTS
    Tx,             \* transactions
    Op,             \* outputs
    TxOf,           \* TxOf[o]: the transaction that has output o, or Foreign
    Foreign,
    Ins,            \* Ins[t]: the outputs t spends
    Owner,          \* Owner[o]: index of the wallet key o pays, or NotOurs
    Gap,            \* GAP_LIMIT
    SoleWallet,     \* no other copy of the seed is, or was, in use
    MempoolChains,  \* a mempool transaction may spend outputs of another
    Freezing,       \* the user freezes coins
    Steps,          \* markAsDead's writes are steps of their own
    Crashes         \* the process may be killed between any two writes of AddTransaction

NotOurs == -1

\* A transaction's id is a hash over those of the outputs that it spends, so that none
\* comes after itself.  Where there are writes of markAsDead for something to come between,
\* they are steps.
ASSUME ConstantsAssumption ==
    /\ IsFiniteSet(Tx) /\ IsFiniteSet(Op) /\ Foreign \notin Tx
    /\ TxOf \in [Op -> Tx \cup {Foreign}]
    /\ Ins \in [Tx -> SUBSET Op]
    /\ Owner \in [Op -> Nat \cup {NotOurs}]
    /\ Gap \in Nat \ {0}
    /\ {SoleWallet, MempoolChains, Freezing, Steps, Crashes} \subseteq BOOLEAN
    /\ (Freezing \/ Crashes) /\ (\E t, u \in Tx : t # u /\ Ins[t] \cap Ins[u] # {}) => Steps
    /\ \E after \in [Tx -> 0..Cardinality(Tx)] : \A t \in Tx : \A o \in Ins[t] :
         TxOf[o] \in Tx => after[TxOf[o]] < after[t]

VARIABLES
    net,            \* server: transaction -> height, 0 in the mempool
    seen,           \* history: transactions that were in the mempool once
    utxos,          \* bucket: output -> [height, frozen]
    stxos,          \* bucket: output -> [utxo, spendHeight, spender]
    txns,           \* bucket: transaction -> height
    nkeys, used,    \* bucket: how many keys there are, which are used
    txids, adrs,    \* memory: TxStore.txids; how many keys TxStore.adrs holds
    pc,             \* where the synchronising goroutine is
    key, todo,      \* the address it works on, the history entries left
    tx, height,     \* arguments of AddTransaction
    hits,           \* hits > 0
    doubles,        \* double spends markAsDead is still to be called for
    stack,          \* the calls of markAsDead, the innermost last
    goal,           \* history: what the buckets are once it has returned
    valid,          \* history: the entries fetched are still what the server lists
    killed,         \* history: transactions markAsDead is done with, not added again since
    torn,           \* history: coins a kill caught between the stxo and the utxo bucket
    gaveUp,         \* history: double spends markAsDead returned an error for, last time
    fresh,          \* history: keys whose current history has been worked through
    freeze          \* Freeze or UnFreeze between its get and its put

buckets == <<utxos, stxos, txns, nkeys, used>>
db == <<buckets, killed, torn, gaveUp>>
cache == <<txids, adrs>>
walk == <<doubles, stack, goal>>
call == <<tx, height, hits, walk>>
job == <<pc, key, todo, call, valid>>
user == <<freeze>>
server == <<net, seen>>
vars == <<server, db, cache, job, fresh, user>>

-----------------------------------------------------------------------------
Keys == {Owner[o] : o \in Op} \ {NotOurs}
Utxo == [height : Int, frozen : BOOLEAN]
Stxo == [utxo : Utxo, spendHeight : Int, spender : Tx]
Idle == pc = "idle"
NoFreeze == <<>>

Conflict(t, u) == t # u /\ Ins[t] \cap Ins[u] # {}
Parents(t) == {TxOf[o] : o \in Ins[t]} \ {Foreign}
Touches(t, k) == \E o \in Op : Owner[o] = k /\ (TxOf[o] = t \/ o \in Ins[t])

\* Partial functions: f with the mappings of g added, f without the keys in S.
Put(f, g) == [x \in DOMAIN f \cup DOMAIN g |-> IF x \in DOMAIN g THEN g[x] ELSE f[x]]
Delete(f, S) == [x \in DOMAIN f \ S |-> f[x]]
Single(x, v) == [y \in {x} |-> v]

-----------------------------------------------------------------------------
(* The server. *)

Mined == {t \in DOMAIN net : net[t] > 0}

\* The height in an address history: -1 for a mempool transaction that spends
\* an output of another mempool transaction.
Listed(t) == IF net[t] = 0 /\ Parents(t) \cap (DOMAIN net \ Mined) # {} THEN -1 ELSE net[t]

\* blockchain.scripthash.get_history
History(k) == {[tx |-> t, height |-> Listed(t)] : t \in {t \in DOMAIN net : Touches(t, k)}}

\* A new status is announced for every address whose history changes.
Restatus ==
    LET same == {k \in Keys : History(k)' = History(k)} IN
    /\ fresh' = fresh \cap same
    /\ valid' = (valid /\ key \in same)

\* What gatherCoins offers Spend: confirmed coins that are not frozen.
Spendable(o) == o \in DOMAIN utxos /\ utxos[o].height > 0 /\ ~utxos[o].frozen

\* Addresses are handed out of the lookahead window, and the wallet's coins are
\* spent by Spend, when this is the only wallet with its seed.
Plausible(t) ==
    /\ \A o \in Ins[t] : Owner[o] # NotOurs => Spendable(o)
    /\ \A o \in Op : TxOf[o] = t => Owner[o] < nkeys

\* A transaction enters the mempool.
Broadcast(t) ==
    /\ t \notin DOMAIN net
    /\ Parents(t) \subseteq (IF MempoolChains THEN DOMAIN net ELSE Mined)
    /\ \A u \in DOMAIN net : ~Conflict(t, u)
    /\ SoleWallet => Plausible(t)
    /\ net' = Put(net, Single(t, 0)) /\ seen' = seen \cup {t}
    /\ Restatus
    /\ UNCHANGED <<db, cache, pc, key, todo, call, user>>

\* The mempool drops a transaction (it expired or was replaced).
Evict(t) ==
    /\ t \in DOMAIN net \ Mined
    /\ \A u \in DOMAIN net : t \notin Parents(u)
    /\ net' = Delete(net, {t})
    /\ Restatus
    /\ UNCHANGED <<seen, db, cache, pc, key, todo, call, user>>

\* A block with one transaction.
Mine(t) ==
    /\ t \in DOMAIN net \ Mined
    /\ Parents(t) \subseteq Mined
    /\ net' = [net EXCEPT ![t] = Cardinality(Mined) + 1]
    /\ Restatus
    /\ UNCHANGED <<seen, db, cache, pc, key, todo, call, user>>

-----------------------------------------------------------------------------
(* Working through an address history. *)

\* A status change (or SyncWallet) makes the client fetch the history of an
\* address; entries come with the mined ones first, in block order.
GetHistory(k) ==
    /\ Idle
    /\ key' = k /\ todo' = History(k) /\ valid' = TRUE
    /\ pc' = "next"
    /\ UNCHANGED <<server, db, cache, call, fresh, user>>

Precedes(e, f) == e.height > 0 /\ (f.height <= 0 \/ e.height < f.height)
IsNext(e) == e \in todo /\ \A f \in todo : ~Precedes(f, e)

\* addTxHistoryToWallet leaves out what the wallet has as confirmed.
HasConfirmed(t) == t \in DOMAIN txns /\ txns[t] > 0

SkipConfirmed(e) ==
    /\ pc = "next" /\ IsNext(e)
    /\ HasConfirmed(e.tx)
    /\ todo' = todo \ {e}
    /\ UNCHANGED <<server, db, cache, pc, key, call, valid, fresh, user>>

\* GetRawTransactionFromNode returns an error: the entry is passed over.
FetchFails(e) ==
    /\ pc = "next" /\ IsNext(e)
    /\ ~HasConfirmed(e.tx)
    /\ todo' = todo \ {e} /\ valid' = FALSE
    /\ UNCHANGED <<server, db, cache, pc, key, call, fresh, user>>

HistoryDone ==
    /\ pc = "next" /\ todo = {}
    /\ pc' = "idle" /\ key' = NotOurs
    /\ fresh' = IF valid THEN fresh \cup {key} ELSE fresh
    /\ valid' = FALSE
    /\ UNCHANGED <<server, db, cache, todo, call, user>>

-----------------------------------------------------------------------------
(* AddTransaction. *)

\* "already processed this tx up to confirmed state", by the cache
ProcessedOnce(t, h) == t \in DOMAIN txids
Processed(t, h) == t \in DOMAIN txids /\ (txids[t] > 0 \/ (txids[t] = 0 /\ h = 0))

\* CheckDoubleSpends: dead transactions do not count.
ConfirmedDoubles(t) == {u \in DOMAIN txns : txns[u] > 0 /\ Conflict(t, u)}
DoubleSpends(t) == {u \in DOMAIN txns : txns[u] >= 0 /\ Conflict(t, u)}

\* The transactions markAsDead reaches from those in D: whatever spends an
\* output of a dead transaction is dead.
Closed(S) == \A o \in DOMAIN stxos : TxOf[o] \in S => stxos[o].spender \in S
Dead(D) == {u \in Tx : \A S \in SUBSET Tx : D \subseteq S /\ Closed(S) => u \in S}

\* The coins dead transactions had spent come back, their own outputs go.
DeadSpends(D) == {o \in DOMAIN stxos : stxos[o].spender \in D}
DeadOutputs(D) == {o \in Op : TxOf[o] \in D}
UtxosAfterDeath(D) ==
    Delete(Put(utxos, [o \in DeadSpends(D) |-> stxos[o].utxo]), DeadOutputs(D))

StxosAfterDeath(D) == Delete(stxos, DeadSpends(D))
TxnsAfterDeath(D) == [t \in DOMAIN txns |-> IF t \in D THEN -1 ELSE txns[t]]

MarkAsDead(D) ==
    /\ utxos' = UtxosAfterDeath(D)
    /\ stxos' = StxosAfterDeath(D)
    /\ txns' = TxnsAfterDeath(D)

\* The first seen rule applies to unconfirmed transactions only.
FirstSeen(t, h) == h = 0 /\ DoubleSpends(t) # {}

\* The call returns before it writes anything.
AddTransactionReturns(e) ==
    /\ pc = "next" /\ IsNext(e)
    /\ ~HasConfirmed(e.tx)
    /\ Processed(e.tx, e.height) \/ FirstSeen(e.tx, e.height)
    /\ todo' = todo \ {e}
    /\ UNCHANGED <<server, db, cache, pc, key, call, valid, fresh, user>>

Begins(e) ==
    /\ pc = "next" /\ IsNext(e)
    /\ ~HasConfirmed(e.tx)
    /\ ~Processed(e.tx, e.height) /\ ~FirstSeen(e.tx, e.height)
    /\ todo' = todo \ {e}
    /\ tx' = e.tx /\ height' = e.height /\ hits' = FALSE
    /\ UNCHANGED <<server, nkeys, used, cache, key, valid, fresh, user>>

\* The call up to the first write of its own, with markAsDead in one step.
AddTransaction(e) ==
    /\ ~Steps
    /\ Begins(e)
    /\ LET D == Dead(DoubleSpends(e.tx)) IN
       MarkAsDead(D) /\ killed' = (killed \cup D) \ {e.tx}
    /\ pc' = "outputs"
    /\ UNCHANGED <<torn, gaveUp, walk>>

\* The same in steps.  What they are to come to is known when all that they will
\* mark is stored and the user does not write to the utxos meanwhile.
NoGoal == <<>>
Goal(D) ==
    IF D \subseteq DOMAIN txns /\ ~Freezing
    THEN <<UtxosAfterDeath(D), StxosAfterDeath(D), TxnsAfterDeath(D)>> ELSE NoGoal

AddTransactionSteps(e) ==
    /\ Steps
    /\ Begins(e)
    /\ doubles' = DoubleSpends(e.tx) /\ stack' = <<>>
    /\ goal' = Goal(Dead(DoubleSpends(e.tx)))
    /\ killed' = killed \ {e.tx}
    /\ pc' = "dead"
    /\ UNCHANGED <<utxos, stxos, txns, torn, gaveUp>>

-----------------------------------------------------------------------------
(* markAsDead, write by write. *)

\* The rows of Stxos().GetAll() that the loop does something about: what t spent,
\* and what spends an output of t.
Row(o) == [op |-> o, utxo |-> stxos[o].utxo, spender |-> stxos[o].spender]
SpentBy(t) == {Row(o) : o \in {o \in DOMAIN stxos : stxos[o].spender = t}}
Concerned(t) ==
    {Row(o) : o \in {o \in DOMAIN stxos : stxos[o].spender = t \/ TxOf[o] = t}}

\* A call: the rows left, the one being worked on, the outputs left to delete.
NoRow == <<>>
Frame(t) == [tx |-> t, at |-> "rows", rows |-> Concerned(t), row |-> NoRow, outs |-> {}]
Top == stack[Len(stack)]
Walking(at) == Steps /\ pc = "dead" /\ stack # <<>> /\ Top.at = at
SetTop(f) == stack' = [stack EXCEPT ![Len(stack)] = f]

rest == <<server, nkeys, used, cache, pc, key, todo, tx, height, hits, goal, valid, fresh, user>>

MarkDouble(d) ==
    /\ Steps /\ pc = "dead" /\ stack = <<>>
    /\ doubles' = doubles \ {d}
    /\ stack' = <<Frame(d)>>
    /\ UNCHANGED <<rest, utxos, stxos, txns, killed, torn, gaveUp>>

\* markStxoAsDead deletes the row ...
DeleteDeadStxo(w) ==
    /\ Walking("rows")
    /\ stxos' = Delete(stxos, {w.op})
    /\ SetTop([Top EXCEPT !.at = "height", !.rows = @ \ {w}, !.row = w])
    /\ UNCHANGED <<rest, utxos, txns, killed, torn, gaveUp, doubles>>

\* ... and sets the spender's height; then the coin is put back, or markAsDead is
\* called for the spender.
MarkSpender ==
    /\ Walking("height")
    /\ LET t == Top.row.spender IN
       /\ t \in DOMAIN txns
       /\ txns' = [txns EXCEPT ![t] = -1]
       /\ IF t = Top.tx
          THEN SetTop([Top EXCEPT !.at = "put"])
          ELSE stack' = Append([stack EXCEPT ![Len(stack)] = [Top EXCEPT !.at = "rows"]], Frame(t))
    /\ UNCHANGED <<rest, utxos, stxos, killed, torn, gaveUp, doubles>>

\* A spender that is not stored is an error, with which every call returns.
\* AddTransaction does not look at it.
SpenderMissing ==
    /\ Walking("height")
    /\ Top.row.spender \notin DOMAIN txns
    /\ gaveUp' = gaveUp \cup {stack[1].tx}
    /\ stack' = <<>>
    /\ UNCHANGED <<rest, utxos, stxos, txns, killed, torn, doubles>>

PutNothing ==
    /\ Walking("put")
    /\ SetTop([Top EXCEPT !.at = "rows"])
    /\ UNCHANGED <<rest, utxos, stxos, txns, killed, torn, gaveUp, doubles>>

PutBack ==
    /\ Walking("put")
    /\ utxos' = Put(utxos, Single(Top.row.op, Top.row.utxo))
    /\ SetTop([Top EXCEPT !.at = "rows"])
    /\ UNCHANGED <<rest, stxos, txns, killed, torn, gaveUp, doubles>>

\* Utxos().GetAll(), and the outputs of the dead transaction are deleted.
RowsDone ==
    /\ Walking("rows") /\ Top.rows = {}
    /\ SetTop([Top EXCEPT !.at = "outs", !.outs = {o \in DOMAIN utxos : TxOf[o] = Top.tx}])
    /\ UNCHANGED <<rest, utxos, stxos, txns, killed, torn, gaveUp, doubles>>

DeleteDeadUtxo(o) ==
    /\ Walking("outs")
    /\ utxos' = Delete(utxos, {o})
    /\ SetTop([Top EXCEPT !.outs = @ \ {o}])
    /\ UNCHANGED <<rest, stxos, txns, killed, torn, gaveUp, doubles>>

\* Its height is set, and the call returns.
MarkReturns ==
    /\ Walking("outs") /\ Top.outs = {}
    /\ txns' = TxnsAfterDeath({Top.tx})
    /\ killed' = (killed \cup {Top.tx}) \ {tx}
    /\ gaveUp' = gaveUp \ {Top.tx}
    /\ stack' = SubSeq(stack, 1, Len(stack) - 1)
    /\ UNCHANGED <<rest, utxos, stxos, torn, doubles>>

DoublesDone ==
    /\ Steps /\ pc = "dead" /\ stack = <<>> /\ doubles = {}
    /\ goal' = NoGoal
    /\ pc' = "outputs"
    /\ UNCHANGED <<server, db, cache, key, todo, tx, height, hits, doubles, stack, valid,
                   fresh, user>>

MarkAsDeadStep ==
    \/ \E d \in doubles : MarkDouble(d)
    \/ stack # <<>> /\ \/ \E w \in Top.rows : DeleteDeadStxo(w)
                       \/ \E o \in Top.outs : DeleteDeadUtxo(o)
    \/ MarkSpender \/ SpenderMissing \/ PutBack \/ RowsDone \/ MarkReturns
    \/ DoublesDone

-----------------------------------------------------------------------------
(* The rest of AddTransaction. *)

\* Outputs that pay a key in adrs: the key is marked used, the lookahead window
\* is topped up to Gap unused keys, the output is put as a utxo, not frozen.
AnyOutput == {o \in Op : TxOf[o] = tx}
FirstOutput == {o \in AnyOutput : Owner[o] \in 0..(adrs - 1) /\ o = CHOOSE u \in AnyOutput : TRUE}
Ours == {o \in Op : TxOf[o] = tx /\ Owner[o] \in 0..(adrs - 1)}
Lookahead(n, u) == IF n - Cardinality(u) < Gap THEN Cardinality(u) + Gap ELSE n

PutOutputs ==
    /\ pc = "outputs"
    /\ utxos' = Put(utxos, [o \in Ours |-> [height |-> height, frozen |-> FALSE]])
    /\ used' = used \cup {Owner[o] : o \in Ours}
    /\ nkeys' = Lookahead(nkeys, used')
    /\ hits' = (Ours # {})
    /\ pc' = "inputs"
    /\ UNCHANGED <<server, stxos, txns, killed, torn, gaveUp, cache, key, todo, tx, height, walk,
                   valid, fresh, user>>

\* Inputs that are in the utxo bucket move to the stxo bucket.
Spent == Ins[tx] \cap DOMAIN utxos

SpendInputs ==
    /\ pc = "inputs"
    /\ stxos' = Put(stxos, [o \in Spent |-> [utxo |-> utxos[o],
                                             spendHeight |-> height, spender |-> tx]])
    /\ utxos' = Delete(utxos, Spent)
    /\ hits' = (hits \/ Spent # {})
    /\ pc' = IF height > 0 THEN "heights" ELSE "commit"
    /\ UNCHANGED <<server, txns, nkeys, used, killed, torn, gaveUp, cache, key, todo, tx, height,
                   walk, valid, fresh, user>>

\* The loop over the stxos breaks at the first one this transaction spends.
UpdateSpendHeight ==
    /\ pc = "heights"
    /\ LET mine == {o \in DOMAIN stxos : stxos[o].spender = tx} IN
       IF mine = {}
       THEN UNCHANGED <<stxos, hits>>
       ELSE /\ \E o \in mine : stxos' = [stxos EXCEPT ![o].spendHeight = height]
            /\ hits' = TRUE
    /\ pc' = "commit"
    /\ UNCHANGED <<server, utxos, txns, nkeys, used, killed, torn, gaveUp, cache, key, todo, tx,
                   height, walk, valid, fresh, user>>

\* PopulateAdrs: addresses are made for all the keys in the database.
PopulatedAdrs == nkeys

\* A relevant transaction is stored, unless it is stored as confirmed; then
\* PopulateAdrs reloads the caches.
StoredHeight == IF HasConfirmed(tx) THEN txns[tx] ELSE height

NoCall ==
    /\ tx' = Foreign /\ height' = 0 /\ hits' = FALSE
    /\ doubles' = {} /\ stack' = <<>> /\ goal' = NoGoal

PutTxn ==
    /\ pc = "commit"
    /\ IF hits
       THEN /\ txns' = Put(txns, Single(tx, StoredHeight))
            /\ txids' = Put(txids, txns')
            /\ adrs' = PopulatedAdrs
       ELSE UNCHANGED <<txns, cache>>
    /\ NoCall
    /\ pc' = "next"
    /\ UNCHANGED <<server, utxos, stxos, nkeys, used, killed, torn, gaveUp, key, todo, valid,
                   fresh, user>>

-----------------------------------------------------------------------------
(* The user, and restarts. *)

\* UtxoDB.Freeze (b) and UnFreeze (~b) read the record, then write it back.
Toggled(o, b) == [utxos[o] EXCEPT !.frozen = ~@]
Refrozen(o, b) == [utxos[o] EXCEPT !.frozen = b]

FreezeGet(o, b) ==
    /\ Freezing
    /\ freeze = NoFreeze
    /\ o \in DOMAIN utxos
    /\ freeze' = <<o, b, Refrozen(o, b)>>
    /\ UNCHANGED <<server, db, cache, job, fresh>>

FreezePut ==
    /\ freeze # NoFreeze
    /\ utxos' = Put(utxos, Single(freeze[1], freeze[3]))
    /\ freeze' = NoFreeze
    /\ UNCHANGED <<server, stxos, txns, nkeys, used, killed, torn, gaveUp, cache, job, fresh>>

\* A coin that is in neither bucket: the stxo is deleted, the utxo not yet put.
InFlight ==
    IF stack # <<>> /\ (Top.at = "put" \/ (Top.at = "height" /\ Top.row.spender = Top.tx))
    THEN {Top.row.op} ELSE {}

\* The wallet is loaded again and SyncWallet asks for every address anew.
Reload ==
    /\ txids' = txns /\ adrs' = PopulatedAdrs'
    /\ pc' = "idle" /\ key' = NotOurs /\ todo' = {} /\ NoCall
    /\ valid' = FALSE /\ fresh' = {} /\ freeze' = NoFreeze
    /\ torn' = torn \cup InFlight
    /\ UNCHANGED <<server, txns, killed, gaveUp>>

Restart ==
    /\ Idle \/ Crashes
    /\ UNCHANGED <<utxos, stxos, nkeys, used>>
    /\ Reload

\* The process is killed in the loop over the outputs: some are put, and the key of
\* one more may be marked (loading the wallet tops the window up) ...
KilledInOutputs ==
    /\ Crashes /\ pc = "outputs"
    /\ \E done \in SUBSET Ours : \E more \in {{}} \cup {{o} : o \in Ours \ done} :
         /\ utxos' = Put(utxos, [o \in done |-> [height |-> height, frozen |-> FALSE]])
         /\ used' = used \cup {Owner[o] : o \in done \cup more}
    /\ nkeys' = Lookahead(nkeys, used')
    /\ UNCHANGED stxos
    /\ Reload

\* ... or in the loop over the inputs: some have moved, and one more may be in both
\* buckets.
KilledInInputs ==
    /\ Crashes /\ pc = "inputs"
    /\ \E done \in SUBSET Spent : \E more \in {{}} \cup {{o} : o \in Spent \ done} :
         /\ stxos' = Put(stxos, [o \in done \cup more |->
                       [utxo |-> utxos[o], spendHeight |-> height, spender |-> tx]])
         /\ utxos' = Delete(utxos, done)
    /\ UNCHANGED <<nkeys, used>>
    /\ Reload

-----------------------------------------------------------------------------
(* Balance. *)

\* isStxoConfirmed, for a coin without a height: the transaction that created it
\* spent a coin of the wallet, at a height; else it is itself among the spent,
\* with a height.  (A coin in both buckets, after a Freeze has raced its spend,
\* would be judged by whichever match the cursor meets first.)
StxoConfirmed(o) ==
    \/ \E s \in DOMAIN stxos : stxos[s].spender = TxOf[o] /\ stxos[s].spendHeight > 0
    \/ o \in DOMAIN stxos /\ stxos[o].utxo = utxos[o] /\ utxos[o].height > 0

\* The coins whose values Balance adds up as confirmed.
BalanceConfirmed == {o \in DOMAIN utxos : utxos[o].height > 0 \/ StxoConfirmed(o)}

-----------------------------------------------------------------------------
None == [x \in {} |-> x]

Init ==
    /\ net = None /\ seen = {}
    /\ utxos = None /\ stxos = None /\ txns = None /\ killed = {}
    /\ nkeys = Gap /\ used = {}
    /\ txids = None /\ adrs = Gap
    /\ pc = "idle" /\ key = NotOurs /\ todo = {}
    /\ tx = Foreign /\ height = 0 /\ hits = FALSE
    /\ doubles = {} /\ stack = <<>> /\ goal = NoGoal /\ torn = {} /\ gaveUp = {}
    /\ valid = FALSE /\ fresh = {}
    /\ freeze = NoFreeze

Next ==
    \/ \E t \in Tx : Broadcast(t) \/ Evict(t) \/ Mine(t)
    \/ \E k \in Keys : GetHistory(k)
    \/ \E e \in todo : \/ SkipConfirmed(e) \/ FetchFails(e)
                       \/ AddTransactionReturns(e)
                       \/ AddTransaction(e) \/ AddTransactionSteps(e)
    \/ HistoryDone
    \/ MarkAsDeadStep
    \/ PutOutputs \/ SpendInputs \/ UpdateSpendHeight \/ PutTxn
    \/ \E o \in Op, b \in BOOLEAN : FreezeGet(o, b)
    \/ FreezePut
    \/ Restart \/ KilledInOutputs \/ KilledInInputs

Spec == Init /\ [][Next]_vars

-----------------------------------------------------------------------------
(* Properties. *)

\* Types of the server's, the store's, the goroutine's and the user's state.
ServerOK ==
    /\ DOMAIN net \subseteq Tx /\ \A t \in DOMAIN net : net[t] \in Nat
    /\ seen \subseteq Tx

UtxosOK == DOMAIN utxos \subseteq Op /\ \A o \in DOMAIN utxos : utxos[o] \in Utxo
StxosOK == DOMAIN stxos \subseteq Op /\ \A o \in DOMAIN stxos : stxos[o] \in Stxo
TxnsOK == DOMAIN txns \subseteq Tx /\ \A t \in DOMAIN txns : txns[t] \in Int
KeysOK == nkeys \in Nat /\ adrs \in Nat /\ used \subseteq Keys
CacheOK == DOMAIN txids \subseteq Tx /\ \A t \in DOMAIN txids : txids[t] \in Int

Calling == {"dead", "outputs", "inputs", "heights", "commit"}

JobOK ==
    /\ pc \in {"idle", "next"} \cup Calling
    /\ key \in Keys \cup {NotOurs} /\ (pc # "idle" => key \in Keys)
    /\ todo \subseteq [tx : Tx, height : Int]
    /\ tx \in Tx \cup {Foreign} /\ (pc \in Calling => tx \in Tx)
    /\ height \in Int /\ hits \in BOOLEAN /\ valid \in BOOLEAN
    /\ killed \subseteq Tx /\ fresh \subseteq Keys

FrameSet ==
    LET RowSet == [op : Op, utxo : Utxo, spender : Tx] IN
    [tx : Tx, at : {"rows", "height", "put", "outs"}, rows : SUBSET RowSet,
     row : RowSet \cup {NoRow}, outs : SUBSET Op]

WalkOK ==
    /\ doubles \subseteq Tx
    /\ stack \in Seq(FrameSet)
    /\ \A i \in 1..Len(stack) : stack[i].at \in {"height", "put"} => stack[i].row # NoRow
    /\ pc # "dead" => doubles = {} /\ stack = <<>>
    /\ torn \subseteq Op /\ gaveUp \subseteq Tx

UserOK == freeze \in {NoFreeze} \cup (Op \X BOOLEAN \X Utxo)

\* The buckets, the caches and the arguments of the call in progress hold what
\* the code's types and its own bookkeeping allow.
TypeOK ==
    /\ ServerOK /\ UtxosOK /\ StxosOK /\ TxnsOK /\ KeysOK /\ CacheOK /\ JobOK /\ WalkOK /\ UserOK

Alive(t) == t \in DOMAIN txns /\ txns[t] >= 0

\* No two stored transactions that are not dead spend the same output: the first
\* seen rule and markAsDead between them keep the store free of double spends, except
\* where markAsDead meets a spender that a kill has kept from being stored, and returns.
NoConflict ==
    \A t, u \in DOMAIN txns :
      Alive(t) /\ Alive(u) /\ Conflict(t, u) => {t, u} \cap gaveUp # {}

\* When markAsDead is done with a transaction it leaves no coin of it and nothing
\* spent by it, and what spends its outputs is dead too; no later call, and no kill,
\* brings any of that back unless the server lists the transaction again.
DeadLeavesNothing ==
    \A t \in killed :
      /\ \A o \in DOMAIN utxos : TxOf[o] # t
      /\ \A o \in DOMAIN stxos : TxOf[o] # t /\ stxos[o].spender # t

\* The recursion over snapshots of the stxos comes to what Dead and MarkAsDead say,
\* in whatever order the rows come: every descendant is found, every coin that they
\* had spent is back, and no output of theirs is.
WalkIsDeath ==
    pc = "dead" /\ doubles = {} /\ stack = <<>> /\ goal # NoGoal
      => goal = <<utxos, stxos, txns>>

\* What can never be mined: a transaction that conflicts with a mined one, and
\* what spends its outputs.
Doomed ==
    {t \in Tx : \A S \in SUBSET Tx :
       (\A u \in Tx : (\E m \in Mined : Conflict(u, m)) \/ Parents(u) \cap S # {} => u \in S)
         => t \in S}

\* Every transaction there ever was is mined or doomed.
Settled == seen \subseteq Mined \cup Doomed

Unspent == {o \in Op : /\ Owner[o] # NotOurs /\ TxOf[o] \in Mined
                       /\ \A t \in Mined : o \notin Ins[t]}

AtRest == Idle /\ freeze = NoFreeze /\ fresh = Keys /\ Settled

\* Once every address history has been worked through and the network is
\* settled, ListUnspent returns the wallet's unspent outputs, at the heights
\* where they were mined.
SettledBalance ==
    AtRest => /\ DOMAIN utxos = Unspent
              /\ \A o \in DOMAIN utxos : utxos[o].height = net[TxOf[o]]

\* When every address history has been worked through, Balance reports as
\* confirmed the coins of the transactions that are mined, and no others, while
\* the mempool is not empty too: a coin is confirmed by its own height or by
\* that of what its transaction spent, which are written in different steps.
ConfirmedShown ==
    Idle /\ freeze = NoFreeze /\ fresh = Keys =>
        BalanceConfirmed = {o \in DOMAIN utxos : TxOf[o] \in Mined}

\* Both amounts that Balance gives are right.  A Freeze between its get and its put
\* brings back a coin that is spent meanwhile, with the height that it has read; a
\* kill inside AddTransaction lets a spender be stored before what it spends.
LiveBalance == SettledBalance /\ ConfirmedShown

\* Nothing of that is about, and the wallet is the only one with its seed; nobody
\* spends what is not mined.
Undisturbed == SoleWallet /\ ~MempoolChains /\ ~Freezing /\ ~Steps /\ ~Crashes

\* The double spends of what the wallet sees are seen by it too.  The histories of
\* its addresses do not list others, and a payment that one of them replaces stays.
Visible ==
    \A t, u \in Tx : Conflict(t, u) /\ (\E k \in Keys : Touches(t, k))
                       => \E k \in Keys : Touches(u, k)

\* Every output of a confirmed transaction the wallet has stored that pays a key
\* in the window is on record, spent or unspent: AddTransaction never looks at a
\* confirmed transaction again, so what it left out is lost for good.  So is, wherever
\* the process is killed, the one coin markAsDead had deleted as spent and not yet put
\* back as unspent.
NoCoinLost ==
    Idle => \A o \in Op :
      Owner[o] \in 0..(nkeys - 1) /\ HasConfirmed(TxOf[o])
        => o \in DOMAIN utxos \cup DOMAIN stxos \cup torn

\* Once a transaction is stored as confirmed, only UnFreezeUTXO thaws a coin of it:
\* nothing AddTransaction does, to this or another transaction, clears the mark.
ThawedByUser ==
    [][\A o \in DOMAIN utxos \cap DOMAIN utxos' :
         utxos[o].frozen /\ TxOf[o] \in DOMAIN txns /\ txns[TxOf[o]] > 0
           => utxos'[o].frozen \/ (freeze # NoFreeze /\ freeze[1] = o /\ ~freeze[2])]_vars

=============================================================================
