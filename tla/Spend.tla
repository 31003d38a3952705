------------------------------- MODULE Spend -------------------------------
(***************************************************************************)
(* Payments: goroutines of the RPC server (client/btc/serve_rpc.go) call    *)
(* Spend and SignTx (client_wallet.go, wallet/wltbtc/send.go, sign.go) and  *)
(* broadcast what they get, freeze and thaw coins, while one goroutine adds *)
(* the transactions the server has taken to the wallet.  Nothing is locked  *)
(* across a call: coins are gathered, a change key is looked up and the     *)
(* transaction is sent in steps with everybody else's in between.           *)
(*                                                                         *)
(* Coins 1..Len(Values) are in the wallet at the start; coin Len(Values)+i  *)
(* is the change of the i-th transaction the server takes.  The store is    *)
(* the sqlite one, which freezes a coin in one statement, and the only      *)
(* wallet with its seed.  WatchOnly is never set by the client.             *)
(***************************************************************************)
EXTENDS Integers, Sequences, FiniteSets, FiniteSetsExt

CONSTANTS
    Callers,        \* goroutines of the RPC server
    Values,         \* value of each coin at the start
    Amounts,        \* amounts users want to pay
    Dust,           \* IsDust: amounts below are not paid
    ChangeDust,     \* txrules.IsDustAmount: change below is not paid out
    BaseFee,        \* fee of a transaction without inputs
    InputFee,       \* fee of one more input
    MaxPayments,    \* bound: transactions the server takes
    MaxHeight       \* bound: height of the chain

ASSUME ConstantsAssumption ==
    /\ Values \in Seq(Nat) /\ Amounts \subseteq Nat
    /\ {Dust, ChangeDust, BaseFee, InputFee, MaxPayments} \subseteq Nat
    /\ MaxHeight \in Nat \ {0}

VARIABLES
    height, net,    \* server: of its chain; transactions taken, with their heights
    utxos,          \* coin -> [value, height, frozen]
    used,           \* change keys marked as used
    txns,           \* heights of the transactions stored, None when not stored
    job,            \* AddTransaction: the transaction, its height and the next step
    pc,             \* per caller: where it is
    tx,             \* per caller: the transaction built or signed for it
    locked,         \* history: confirmed coins users froze and did not thaw
    knew, kept      \* history, per caller: txns stored, coins locked, when it gathered

server == <<height, net>>
store == <<utxos, used, txns>>
call == <<pc, tx>>
history == <<locked, knew, kept>>
vars == <<server, store, job, call, history>>

-----------------------------------------------------------------------------
None == -1
N == Len(Values)
Payment == 1..MaxPayments
Coin == 1..(N + MaxPayments)
ChangeOf(i) == N + i
Key == 0..MaxPayments

\* Highest value there is.
MaxValue == SumFunctionOnSet(Values, 1..N)

Utxo == [value : Nat, height : 0..MaxHeight, frozen : BOOLEAN]
Transaction == [ins : SUBSET Coin, pay : Amounts \cup {0}, change : Nat,
                fee : Nat, key : Key \cup {None}]
NoTx == [ins |-> {}, pay |-> 0, change |-> 0, fee |-> 0, key |-> None]
Idle == [tx |-> 0, height |-> 0, step |-> "idle"]

Taken == DOMAIN net
Stored == {i \in Payment : txns[i] # None}
Confirmed(o) == o \in DOMAIN utxos /\ utxos[o].height > 0

Init ==
    /\ height = 1 /\ net = <<>>
    /\ utxos = [o \in 1..N |-> [value |-> Values[o], height |-> 1, frozen |-> FALSE]]
    /\ used = {} /\ txns = [i \in Payment |-> None]
    /\ job = Idle
    /\ pc = [c \in Callers |-> "idle"] /\ tx = [c \in Callers |-> NoTx]
    /\ locked = {}
    /\ knew = [c \in Callers |-> {}] /\ kept = [c \in Callers |-> {}]

-----------------------------------------------------------------------------
(* The server. *)

Spent(o) == \E i \in Taken : o \in net[i].tx.ins

\* A block with some of the mempool.
Mine(M) ==
    /\ height < MaxHeight
    /\ height' = height + 1
    /\ net' = [i \in Taken |-> IF i \in M THEN [net[i] EXCEPT !.height = height + 1]
                                          ELSE net[i]]
    /\ UNCHANGED <<store, job, call, history>>

-----------------------------------------------------------------------------
(* Spend. *)

IsDust(a) == a < Dust

\* gatherCoins: confirmed coins that are not frozen.
Gathered == {o \in DOMAIN utxos : utxos[o].height > 0 /\ ~utxos[o].frozen}

ValueAge(o, blockchainTip) == utxos[o].value * (blockchainTip - utxos[o].height)
Total(S) == SumFunctionOnSet([o \in S |-> utxos[o].value], S)

\* MaxValueAgeCoinSelector: by falling value-age, coins of the same one in any
\* order, until there is enough.
Selects(target, blockchainTip, S) ==
    /\ Total(S) >= target
    /\ \A o \in S, p \in Gathered \ S : ValueAge(o, blockchainTip) >= ValueAge(p, blockchainTip)
    /\ \E last \in S :
          /\ \A o \in S : ValueAge(o, blockchainTip) >= ValueAge(last, blockchainTip)
          /\ Total(S \ {last}) < target

\* NewUnsignedTransaction asks inputSource for enough to pay the fee of one
\* input, and then charges for the inputs whose scripts inputSource returns.
ScriptsReturned == 0
Fee(n) == BaseFee + n * InputFee
Target(a) == a + Fee(1)

\* Change too small to be worth an output is left to the miner.
Change(rest) == IF rest < ChangeDust THEN 0 ELSE rest

\* The password is right and the amount is not dust: coins are gathered and
\* selected.  Every call and tipChange write the wallet's tip, unsynchronised:
\* it is some tip the leader has had, maybe below the height of a coin.  When
\* there is no selection Spend returns ErrInsufficientFunds.
Spend(c, a) ==
    /\ pc[c] = "idle" /\ ~IsDust(a)
    /\ \E S \in SUBSET Gathered, blockchainTip \in 1..height, rest \in 0..MaxValue :
          /\ Selects(Target(a), blockchainTip, S)
          /\ rest = Total(S) - a - Fee(ScriptsReturned)
          /\ tx' = [tx EXCEPT ![c] =
                      [ins |-> S, pay |-> a, change |-> Change(rest),
                       fee |-> Fee(ScriptsReturned) + rest - Change(rest), key |-> None]]
    /\ pc' = [pc EXCEPT ![c] = "funded"]
    /\ knew' = [knew EXCEPT ![c] = Stored] /\ kept' = [kept EXCEPT ![c] = locked]
    /\ UNCHANGED <<server, store, job, locked>>

\* GetUnusedAddress(CHANGE): the first key not marked.  It stays unmarked.
AnyKey(k) == k \in Key
Unused(k) == k \in Key \ used /\ \A j \in 0..(k - 1) : j \in used

\* The change gets its key, then the outputs are sorted and the inputs signed.
BuildTx(c) ==
    /\ pc[c] = "funded"
    /\ IF tx[c].change = 0
       THEN UNCHANGED tx
       ELSE \E k \in Key : /\ Unused(k)
                           /\ tx' = [tx EXCEPT ![c].key = k]
    /\ pc' = [pc EXCEPT ![c] = "built"]
    /\ UNCHANGED <<server, store, job, history>>

\* SignTx signs what spends confirmed coins, frozen ones too.  Nothing comes
\* back to the wallet.
Sign(c, S) ==
    /\ pc[c] = "idle"
    /\ S # {} /\ \A o \in S : Confirmed(o)
    /\ \E all \in 0..MaxValue :
          /\ all = Total(S)
          /\ tx' = [tx EXCEPT ![c] =
                      [ins |-> S, pay |-> 0, change |-> 0, fee |-> all, key |-> None]]
    /\ pc' = [pc EXCEPT ![c] = "built"]
    /\ knew' = [knew EXCEPT ![c] = Stored]
    /\ UNCHANGED <<server, store, job, locked, kept>>

-----------------------------------------------------------------------------
(* Broadcast. *)

Accepts(t) == \A o \in t.ins : ~Spent(o)

Forget(c) ==
    /\ pc' = [pc EXCEPT ![c] = "idle"]
    /\ tx' = [tx EXCEPT ![c] = NoTx]
    /\ knew' = [knew EXCEPT ![c] = {}] /\ kept' = [kept EXCEPT ![c] = {}]
    /\ UNCHANGED locked

Broadcast(c) ==
    /\ pc[c] = "built" /\ Accepts(tx[c]) /\ Len(net) < MaxPayments
    /\ net' = Append(net, [tx |-> tx[c], height |-> 0])
    /\ Forget(c)
    /\ UNCHANGED <<height, store, job>>

\* The server refuses the transaction, or nobody sends it.
NotBroadcast(c) ==
    /\ pc[c] = "built"
    /\ Forget(c)
    /\ UNCHANGED <<server, store, job>>

-----------------------------------------------------------------------------
(* AddTransaction, for a transaction in a history the server returned. *)

UnconfirmedOnce(i, h) == txns[i] = 0 /\ h = 0
Processed(i, h) == txns[i] > 0 \/ (txns[i] = 0 /\ h = 0)

\* The change output, if there is one, pays a key of the wallet: the key is
\* marked as used and the coin is put, not frozen.
PaysUs(i) == net[i].tx.change # 0

FirstOutput(i) == [value |-> net[i].tx.pay, height |-> net[i].height, frozen |-> FALSE]
ChangeCoin(i) == [value |-> net[i].tx.change, height |-> net[i].height, frozen |-> FALSE]

PutOutputs(i) ==
    /\ job.step = "idle" /\ i \in Taken
    /\ ~Processed(i, net[i].height)
    /\ IF PaysUs(i)
       THEN /\ utxos' = [o \in DOMAIN utxos \cup {ChangeOf(i)} |->
                            IF o = ChangeOf(i) THEN ChangeCoin(i) ELSE utxos[o]]
            /\ used' = used \cup {net[i].tx.key}
       ELSE UNCHANGED <<utxos, used>>
    /\ job' = [tx |-> i, height |-> net[i].height, step |-> "inputs"]
    /\ UNCHANGED <<server, txns, call, history>>

\* Coins the transaction spends are deleted.
OneInput ==
    /\ job.step = "inputs"
    /\ \E last \in net[job.tx].tx.ins :
          utxos' = [o \in DOMAIN utxos \ {last} |-> utxos[o]]
    /\ job' = [job EXCEPT !.step = "commit"]
    /\ UNCHANGED <<server, used, txns, call, history>>

SpendInputs ==
    /\ job.step = "inputs"
    /\ utxos' = [o \in DOMAIN utxos \ net[job.tx].tx.ins |-> utxos[o]]
    /\ job' = [job EXCEPT !.step = "commit"]
    /\ UNCHANGED <<server, used, txns, call, history>>

PutTxn ==
    /\ job.step = "commit"
    /\ txns' = [txns EXCEPT ![job.tx] = job.height]
    /\ job' = Idle
    /\ UNCHANGED <<server, utxos, used, call, history>>

-----------------------------------------------------------------------------
(* FreezeUTXO and UnFreezeUTXO. *)

FreezeUTXO(o) ==
    /\ o \in DOMAIN utxos
    /\ utxos' = [utxos EXCEPT ![o].frozen = TRUE]
    /\ locked' = IF Confirmed(o) THEN locked \cup {o} ELSE locked
    /\ UNCHANGED <<server, used, txns, job, call, knew, kept>>

UnFreezeUTXO(o) ==
    /\ o \in DOMAIN utxos
    /\ utxos' = [utxos EXCEPT ![o].frozen = FALSE]
    /\ locked' = locked \ {o}
    /\ UNCHANGED <<server, used, txns, job, call, knew, kept>>

-----------------------------------------------------------------------------
Call(c) ==
    \/ (\E a \in Amounts : Spend(c, a)) \/ BuildTx(c)
    \/ (\E S \in SUBSET Coin : Sign(c, S))
    \/ Broadcast(c) \/ NotBroadcast(c)

AddTransaction == SpendInputs \/ PutTxn \/ \E i \in Payment : PutOutputs(i)

Next ==
    \/ \E c \in Callers : Call(c)
    \/ AddTransaction
    \/ \E o \in Coin : FreezeUTXO(o) \/ UnFreezeUTXO(o)
    \/ \E M \in SUBSET {i \in Taken : net[i].height = 0} : Mine(M)

Spec == Init /\ [][Next]_vars

-----------------------------------------------------------------------------
(* Properties. *)

\* Values of the variables.
TypeOK ==
    /\ height \in 1..MaxHeight
    /\ net \in Seq([tx : Transaction, height : 0..MaxHeight]) /\ Len(net) <= MaxPayments
    /\ DOMAIN utxos \subseteq Coin /\ \A o \in DOMAIN utxos : utxos[o] \in Utxo
    /\ used \subseteq Key
    /\ txns \in [Payment -> 0..MaxHeight \cup {None}]
    /\ job \in [tx : Payment \cup {0}, height : 0..MaxHeight,
                step : {"idle", "inputs", "commit"}]
    /\ pc \in [Callers -> {"idle", "funded", "built"}]
    /\ tx \in [Callers -> Transaction]
    /\ locked \subseteq Coin
    /\ knew \in [Callers -> SUBSET Payment] /\ kept \in [Callers -> SUBSET Coin]

\* When every payment taken is stored as confirmed, what is left in the wallet
\* is what was there at the start less what the payments paid, to others and
\* to miners: no coin stays that was spent, none comes back, no change is
\* lost, whatever was going on between the steps of the calls.
Settled == job.step = "idle" /\ \A i \in Taken : txns[i] > 0
Paid == SumFunctionOnSet([i \in Taken |-> net[i].tx.pay + net[i].tx.fee], Taken)
BalanceAddsUp == Settled => Total(DOMAIN utxos) + Paid = MaxValue

\* Two payments over the same coins cannot be told apart before they are sent.
\* But a payment that the server will refuse has a rival the wallet did not
\* have yet when it offered the coins: after AddTransaction is done with a
\* payment its coins are never offered again, also while it goes through its
\* steps a second time on confirmation.
RivalUnknown ==
    \A c \in Callers : pc[c] # "idle" =>
        \A i \in Taken : net[i].tx.ins \cap tx[c].ins # {} => i \notin knew[c]

\* A confirmed coin a user has frozen and nobody has thawed is in no payment
\* of a Spend that gathers its coins later; AddTransaction, which puts coins
\* as not frozen, does not touch it.
FrozenNotSpent ==
    \A c \in Callers :
        pc[c] # "idle" /\ tx[c].pay # 0 => tx[c].ins \cap kept[c] = {}

\* The change of a payment goes to a key that no payment the wallet has stored
\* by then pays its change to.  (GetUnusedAddress marks nothing: two payments
\* under way may share a change key.)
ChangeToNewKey ==
    [][\A c \in Callers : BuildTx(c) =>
          \A i \in Stored : net[i].tx.key # None => tx'[c].key # net[i].tx.key]_vars
=============================================================================
