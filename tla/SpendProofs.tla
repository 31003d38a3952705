---------------------------- MODULE SpendProofs ----------------------------
(***************************************************************************)
(* What the wallet's payments may rely on, for any number of callers,      *)
(* coins and payments.                                                     *)
(***************************************************************************)
EXTENDS Payments, FiniteSetTheorems, TLAPS

-----------------------------------------------------------------------------
(* The inductive invariant. *)

Active == job.step # "idle"

\* AddTransaction only works on what the server has taken, and never on what is
\* stored as confirmed.
Working ==
    /\ Stored \subseteq Taken
    /\ Active => job.tx \in Taken /\ txns[job.tx] <= 0
    /\ \A c \in Callers : knew[c] \subseteq Taken

\* Once its inputs were taken out, none of the coins of a payment is back.
Done(i) == i \in Stored \/ (job.tx = i /\ job.step = "commit")
NoneBack == \A i \in Taken : Done(i) => net[i].tx.ins \cap DOMAIN utxos = {}

\* A change output is put for the last time when its payment is confirmed: until
\* then it is no confirmed coin, nobody spends it and no lock counts.
Final(i) == txns[i] > 0 \/ (job.tx = i /\ Active /\ job.height > 0)
Offered(o) ==
    \/ \E i \in Taken : o \in net[i].tx.ins
    \/ \E c \in Callers : o \in tx[c].ins
    \/ Confirmed(o) \/ o \in locked
PutOnce == \A i \in Payment : Offered(ChangeOf(i)) => Final(i)

\* What is locked is frozen.
LocksHold == \A o \in locked \cap DOMAIN utxos : utxos[o].frozen

\* Change has a key once the transaction is built, and its key is marked as used
\* once AddTransaction has been there.
Keyed(t) == t.key # None <=> t.change # 0
KeysKnown ==
    /\ \A i \in Taken : Keyed(net[i].tx)
    /\ \A c \in Callers : IF pc[c] = "funded" THEN tx[c].key = None ELSE Keyed(tx[c])
    /\ \A i \in Taken : (i \in Stored \/ (job.tx = i /\ Active)) /\ net[i].tx.change # 0
                           => net[i].tx.key \in used

Inv ==
    /\ TypeOK /\ Working /\ NoneBack /\ PutOnce /\ LocksHold /\ KeysKnown
    /\ RivalUnknown /\ FrozenNotSpent

-----------------------------------------------------------------------------
(* Lemmas. *)

Entry == [tx : Transaction, height : 0..MaxHeight]

LEMMA Numbers ==
    ASSUME TypeOK
    PROVE  /\ N \in Nat /\ MaxPayments \in Nat /\ MaxHeight \in Nat
           /\ \A i \in Payment : ChangeOf(i) \in Coin
           /\ \A i, j \in Payment : ChangeOf(i) = ChangeOf(j) => i = j
           /\ net \in Seq(Entry) /\ Len(net) \in Nat /\ Taken = 1..Len(net)
           /\ Taken \subseteq Payment /\ Len(net) <= MaxPayments
           /\ \A i \in Taken : net[i] \in Entry
  <1>1. N \in Nat /\ MaxPayments \in Nat /\ MaxHeight \in Nat
    BY ConstantsAssumption DEF N
  <1>2. net \in Seq(Entry) /\ Len(net) <= MaxPayments
    BY Zenon DEF TypeOK, Entry
  <1>3. Len(net) \in Nat /\ Taken = 1..Len(net) /\ \A i \in Taken : net[i] \in Entry
    BY <1>2 DEF Taken
  <1>4. Taken \subseteq Payment
    BY <1>1, <1>2, <1>3 DEF Payment
  <1>5. /\ \A i \in Payment : ChangeOf(i) \in Coin
        /\ \A i, j \in Payment : ChangeOf(i) = ChangeOf(j) => i = j
    BY <1>1 DEF Payment, ChangeOf, Coin
  <1> QED BY <1>1, <1>2, <1>3, <1>4, <1>5

LEMMA NoTxOK == NoTx \in Transaction /\ Keyed(NoTx)
  BY DEF NoTx, Transaction, Keyed, None, Key

LEMMA InitInv == Init => Inv
  <1> SUFFICES ASSUME Init PROVE Inv
    OBVIOUS
  <1>1. Taken = {} /\ Stored = {} /\ job.step = "idle" /\ DOMAIN utxos = 1..N
    BY DEF Init, Taken, Stored, Idle
  <1>2. TypeOK
    <2>1. N \in Nat /\ MaxPayments \in Nat /\ MaxHeight \in Nat \ {0}
      BY ConstantsAssumption DEF N
    <2>2. \A o \in DOMAIN utxos : utxos[o] \in Utxo
      BY <1>1, <2>1, ConstantsAssumption DEF Init, Utxo, N
    <2>3. DOMAIN utxos \subseteq Coin
      BY <1>1, <2>1 DEF Coin
    <2>4. net \in Seq(Entry) /\ Len(net) <= MaxPayments
      BY <2>1 DEF Init
    <2>5. height \in 1..MaxHeight /\ used \subseteq Key /\ locked \subseteq Coin
      BY <2>1 DEF Init
    <2>6. /\ txns \in [Payment -> 0..MaxHeight \cup {None}]
          /\ job \in [tx : Payment \cup {0}, height : 0..MaxHeight,
                      step : {"idle", "inputs", "commit"}]
      BY <2>1 DEF Init, Idle
    <2>7. /\ pc \in [Callers -> {"idle", "funded", "built"}]
          /\ tx \in [Callers -> Transaction]
          /\ knew \in [Callers -> SUBSET Payment] /\ kept \in [Callers -> SUBSET Coin]
      BY NoTxOK DEF Init
    <2> QED BY <2>2, <2>3, <2>4, <2>5, <2>6, <2>7, Zenon DEF TypeOK, Entry
  <1>3. PutOnce
    <2> SUFFICES ASSUME NEW i \in Payment PROVE ~Offered(ChangeOf(i))
      BY DEF PutOnce
    <2>1. ChangeOf(i) \notin 1..N
      BY ConstantsAssumption DEF N, ChangeOf, Payment
    <2> QED BY <1>1, <2>1 DEF Offered, Confirmed, Init, NoTx
  <1>4. LocksHold /\ Working /\ NoneBack
    BY <1>1 DEF LocksHold, Working, NoneBack, Active, Init
  <1>5. KeysKnown
    BY <1>1, NoTxOK DEF KeysKnown, Init, Active
  <1>6. RivalUnknown /\ FrozenNotSpent
    BY <1>1 DEF RivalUnknown, FrozenNotSpent, Init
  <1> QED BY <1>2, <1>3, <1>4, <1>5, <1>6 DEF Inv

-----------------------------------------------------------------------------
(* One lemma per action. *)

LEMMA MineInv ==
    ASSUME Inv, NEW M \in SUBSET Taken, Mine(M)
    PROVE  Inv'
  <1> USE DEF Mine, server, store, call, history
  <1>1. /\ Len(net') = Len(net) /\ net' \in Seq(Entry) /\ Taken' = Taken
        /\ \A i \in Taken : net'[i].tx = net[i].tx
    <2>1. height + 1 \in 0..MaxHeight /\ height + 1 \in 1..MaxHeight
      BY Numbers DEF Inv, TypeOK
    <2>2. net' \in [1..Len(net) -> Entry] /\ \A i \in Taken : net'[i].tx = net[i].tx
      BY Numbers, <2>1 DEF Inv, Entry
    <2> QED BY Numbers, <2>2 DEF Inv, Taken
  <1>2. TypeOK'
    <2>1. height' \in 1..MaxHeight
      BY Numbers DEF Inv, TypeOK
    <2> QED BY <1>1, <2>1, Numbers, Zenon DEF Inv, TypeOK, Entry
  <1>3. Stored' = Stored
    BY DEF Stored
  <1>4. Working' /\ NoneBack' /\ LocksHold' /\ FrozenNotSpent'
    BY <1>1, <1>3 DEF Inv, Working, NoneBack, Done, LocksHold, FrozenNotSpent, Active
  <1>5. PutOnce'
    BY <1>1, <1>3 DEF Inv, PutOnce, Offered, Final, Confirmed, Active
  <1>6. KeysKnown'
    <2>1. \A i \in Taken : Keyed(net[i].tx)'
      BY <1>1 DEF Inv, KeysKnown, Keyed
    <2>2. \A d \in Callers : IF pc[d] = "funded" THEN tx[d].key = None ELSE Keyed(tx[d])
      BY DEF Inv, KeysKnown
    <2>3. \A i \in Taken : (i \in Stored \/ (job.tx = i /\ Active)) /\ net[i].tx.change # 0
                              => net[i].tx.key \in used
      BY DEF Inv, KeysKnown
    <2>4. (\A d \in Callers : IF pc[d] = "funded" THEN tx[d].key = None ELSE Keyed(tx[d]))'
      BY <2>2 DEF Keyed
    <2>5. (\A i \in Taken : (i \in Stored \/ (job.tx = i /\ Active)) /\ net[i].tx.change # 0
                              => net[i].tx.key \in used)'
      <3> HIDE DEF Mine
      <3>1. UNCHANGED <<used, job>> /\ Active' = Active
        BY DEF Mine, Active
      <3> QED BY <1>1, <1>3, <2>3, <3>1
    <2> QED BY <1>1, <2>1, <2>4, <2>5, Zenon DEF KeysKnown
  <1>7. RivalUnknown'
    BY <1>1 DEF Inv, RivalUnknown
  <1> QED BY <1>2, <1>4, <1>5, <1>6, <1>7 DEF Inv

\* A caller takes up a transaction t with coins of the wallet.
LEMMA OfferInv ==
    ASSUME Inv, NEW c \in Callers, NEW t \in Transaction, NEW at \in {"funded", "built"},
           UNCHANGED <<server, store, job, locked>>,
           t.ins \subseteq DOMAIN utxos, \A o \in t.ins : Confirmed(o),
           t.pay # 0 => \A o \in t.ins : ~utxos[o].frozen,
           IF at = "funded" THEN t.key = None ELSE Keyed(t),
           tx' = [tx EXCEPT ![c] = t], pc' = [pc EXCEPT ![c] = at],
           knew' = [knew EXCEPT ![c] = Stored],
           kept' = [kept EXCEPT ![c] = locked] \/ (t.pay = 0 /\ kept' = kept)
    PROVE  Inv'
  <1> USE DEF server, store
  <1>1. Stored' = Stored /\ Taken' = Taken /\ Stored \subseteq Payment
    BY DEF Stored, Taken
  <1>2. TypeOK'
    <2>1. /\ pc' \in [Callers -> {"idle", "funded", "built"}]
          /\ tx' \in [Callers -> Transaction]
          /\ knew' \in [Callers -> SUBSET Payment]
      BY <1>1 DEF Inv, TypeOK
    <2>2. kept' \in [Callers -> SUBSET Coin]
      BY DEF Inv, TypeOK
    <2> QED BY <2>1, <2>2, Zenon DEF Inv, TypeOK
  <1>3. /\ \A d \in Callers \ {c} : /\ tx'[d] = tx[d] /\ pc'[d] = pc[d]
                                    /\ knew'[d] = knew[d] /\ kept'[d] = kept[d]
        /\ tx'[c] = t /\ pc'[c] = at /\ knew'[c] = Stored
        /\ t.pay # 0 => kept'[c] = locked
    BY DEF Inv, TypeOK
  <1>4. Working' /\ NoneBack' /\ LocksHold'
    BY <1>1, <1>3 DEF Inv, Working, NoneBack, Done, LocksHold, Active
  <1>5. PutOnce'
    BY <1>1, <1>3 DEF Inv, PutOnce, Offered, Final, Confirmed, Active
  <1>6. KeysKnown'
    BY <1>1, <1>3 DEF Inv, KeysKnown, Keyed, Active
  <1>7. RivalUnknown'
    BY <1>1, <1>3 DEF Inv, RivalUnknown, NoneBack, Done
  <1>8. FrozenNotSpent'
    BY <1>1, <1>3 DEF Inv, FrozenNotSpent, LocksHold
  <1> QED BY <1>2, <1>4, <1>5, <1>6, <1>7, <1>8 DEF Inv

LEMMA SpendInv ==
    ASSUME Inv, NEW c \in Callers, NEW a \in Amounts, Spend(c, a)
    PROVE  Inv'
  <1>1. PICK S \in SUBSET Gathered, blockchainTip \in 1..height, rest \in 0..MaxValue :
          tx' = [tx EXCEPT ![c] =
                   [ins |-> S, pay |-> a, change |-> Change(rest),
                    fee |-> Fee(ScriptsReturned) + rest - Change(rest), key |-> None]]
    BY Zenon DEF Spend
  <1> DEFINE t == [ins |-> S, pay |-> a, change |-> Change(rest),
                   fee |-> Fee(ScriptsReturned) + rest - Change(rest), key |-> None]
  <1>2. tx' = [tx EXCEPT ![c] = t]
    BY <1>1
  <1>3. t \in Transaction
    <2>1. rest \in Nat /\ BaseFee \in Nat /\ InputFee \in Nat
      BY ConstantsAssumption
    <2>2. Change(rest) \in Nat /\ Fee(ScriptsReturned) + rest - Change(rest) \in Nat
      BY <2>1 DEF Change, Fee, ScriptsReturned
    <2>3. S \in SUBSET Coin
      BY DEF Inv, TypeOK, Gathered
    <2> QED BY <2>2, <2>3 DEF Transaction, None
  <1>4. /\ t.ins \subseteq DOMAIN utxos
        /\ \A o \in t.ins : Confirmed(o) /\ ~utxos[o].frozen
    BY DEF Gathered, Confirmed
  <1> HIDE DEF t
  <1> QED BY <1>2, <1>3, <1>4, OfferInv DEF Spend, t

LEMMA SignInv ==
    ASSUME Inv, NEW c \in Callers, NEW S \in SUBSET Coin, Sign(c, S)
    PROVE  Inv'
  <1>1. PICK all \in 0..MaxValue :
          tx' = [tx EXCEPT ![c] =
                   [ins |-> S, pay |-> 0, change |-> 0, fee |-> all, key |-> None]]
    BY Zenon DEF Sign
  <1> DEFINE t == [ins |-> S, pay |-> 0, change |-> 0, fee |-> all, key |-> None]
  <1>2. t \in Transaction /\ Keyed(t)
    BY DEF Transaction, Keyed, None
  <1>3. t.ins \subseteq DOMAIN utxos /\ t.pay = 0 /\ \A o \in t.ins : Confirmed(o)
    BY DEF Sign, Confirmed
  <1>4. tx' = [tx EXCEPT ![c] = t]
    BY <1>1
  <1> HIDE DEF t
  <1> QED BY <1>2, <1>3, <1>4, OfferInv DEF Sign

LEMMA BuildTxInv ==
    ASSUME Inv, NEW c \in Callers, BuildTx(c)
    PROVE  Inv'
  <1> USE DEF BuildTx, server, store, history
  <1>1. /\ Stored' = Stored /\ Taken' = Taken
        /\ tx[c] \in Transaction /\ tx[c].key = None
    BY DEF Stored, Taken, Inv, TypeOK, KeysKnown
  <1>2. /\ tx'[c] \in Transaction /\ Keyed(tx'[c])
        /\ tx'[c].ins = tx[c].ins /\ tx'[c].pay = tx[c].pay
        /\ tx' = [tx EXCEPT ![c] = tx'[c]]
    <2>1. CASE tx[c].change = 0
      BY <1>1, <2>1 DEF Keyed, Inv, TypeOK
    <2>2. CASE tx[c].change # 0
      <3>1. PICK k \in Key : tx' = [tx EXCEPT ![c].key = k]
        BY <2>2
      <3>2. k # None
        BY <3>1 DEF Key, None
      <3>3. tx'[c] = [tx[c] EXCEPT !.key = k] /\ tx' = [tx EXCEPT ![c] = tx'[c]]
        BY <3>1 DEF Inv, TypeOK
      <3> QED BY <1>1, <2>2, <3>1, <3>2, <3>3 DEF Transaction, Keyed
    <2> QED BY <2>1, <2>2
  <1>3. TypeOK'
    <2>1. tx' \in [Callers -> Transaction] /\ pc' \in [Callers -> {"idle", "funded", "built"}]
      BY <1>2 DEF Inv, TypeOK
    <2> QED BY <2>1, Zenon DEF Inv, TypeOK
  <1>4. /\ \A d \in Callers : tx'[d].ins = tx[d].ins /\ tx'[d].pay = tx[d].pay
        /\ \A d \in Callers : pc'[d] # "idle" => pc[d] # "idle"
        /\ \A d \in Callers \ {c} : tx'[d] = tx[d] /\ pc'[d] = pc[d]
        /\ pc'[c] = "built"
    BY <1>2 DEF Inv, TypeOK
  <1>5. Working' /\ NoneBack' /\ LocksHold'
    BY <1>1 DEF Inv, Working, NoneBack, Done, LocksHold, Active
  <1>6. PutOnce'
    BY <1>1, <1>4 DEF Inv, PutOnce, Offered, Final, Confirmed, Active
  <1>7. KeysKnown'
    BY <1>1, <1>2, <1>4 DEF Inv, KeysKnown, Keyed, Active
  <1>8. RivalUnknown' /\ FrozenNotSpent'
    BY <1>1, <1>4 DEF Inv, RivalUnknown, FrozenNotSpent
  <1> QED BY <1>3, <1>5, <1>6, <1>7, <1>8 DEF Inv

\* A caller is done with its transaction.
LEMMA Forgotten ==
    ASSUME Inv, NEW c \in Callers, Forget(c)
    PROVE  /\ pc' \in [Callers -> {"idle", "funded", "built"}]
           /\ tx' \in [Callers -> Transaction]
           /\ knew' \in [Callers -> SUBSET Payment] /\ kept' \in [Callers -> SUBSET Coin]
           /\ pc'[c] = "idle" /\ tx'[c] = NoTx /\ knew'[c] = {} /\ kept'[c] = {}
           /\ \A d \in Callers \ {c} : /\ tx'[d] = tx[d] /\ pc'[d] = pc[d]
                                       /\ knew'[d] = knew[d] /\ kept'[d] = kept[d]
           /\ locked' = locked
  BY NoTxOK DEF Inv, TypeOK, Forget

LEMMA NotBroadcastInv ==
    ASSUME Inv, NEW c \in Callers, NotBroadcast(c)
    PROVE  Inv'
  <1>1. Forget(c) /\ UNCHANGED <<height, net, utxos, used, txns, job>>
    BY DEF NotBroadcast, server, store
  <1>2. Stored' = Stored /\ Taken' = Taken
    BY <1>1 DEF Stored, Taken
  <1>3. TypeOK'
    BY <1>1, Forgotten, Zenon DEF Inv, TypeOK
  <1>4. Working' /\ NoneBack' /\ LocksHold'
    BY <1>1, <1>2, Forgotten DEF Inv, Working, NoneBack, Done, LocksHold, Active
  <1>5. PutOnce'
    <2>1. \A o \in Coin : Offered(o)' => Offered(o)
      BY <1>1, <1>2, Forgotten DEF Offered, Confirmed, NoTx
    <2> QED BY <1>1, <2>1, Numbers DEF Inv, PutOnce, Final, Active
  <1>6. KeysKnown'
    BY <1>1, <1>2, Forgotten, NoTxOK DEF Inv, KeysKnown, Active
  <1>7. RivalUnknown' /\ FrozenNotSpent'
    BY <1>1, <1>2, Forgotten DEF Inv, RivalUnknown, FrozenNotSpent
  <1> QED BY <1>3, <1>4, <1>5, <1>6, <1>7 DEF Inv

LEMMA BroadcastInv ==
    ASSUME Inv, NEW c \in Callers, Broadcast(c)
    PROVE  Inv'
  <1> DEFINE new == Len(net) + 1
  <1>1. Forget(c) /\ UNCHANGED <<height, utxos, used, txns, job>> /\ pc[c] = "built"
    BY DEF Broadcast, store
  <1>2. /\ net' \in Seq(Entry) /\ Len(net') <= MaxPayments
        /\ Taken' = Taken \cup {new} /\ new \notin Taken
        /\ \A i \in Taken : net'[i] = net[i]
        /\ net'[new].tx = tx[c]
    <2>1. [tx |-> tx[c], height |-> 0] \in Entry
      BY Numbers DEF Inv, TypeOK, Entry
    <2>2. net' = Append(net, [tx |-> tx[c], height |-> 0]) /\ Len(net) < MaxPayments
      BY DEF Broadcast
    <2>3. net \in Seq(Entry) /\ Len(net) \in Nat /\ Taken = 1..Len(net) /\ MaxPayments \in Nat
      BY Numbers DEF Inv
    <2>4. /\ net' \in Seq(Entry) /\ Len(net') = Len(net) + 1
          /\ \A i \in 1..Len(net) : net'[i] = net[i]
          /\ net'[new] = [tx |-> tx[c], height |-> 0]
      BY <2>1, <2>2, <2>3
    <2>5. Taken' = 1..(Len(net) + 1)
      BY <2>4 DEF Taken
    <2> QED BY <2>2, <2>3, <2>4, <2>5
  <1> HIDE DEF new
  <1>3. Stored' = Stored /\ Stored \subseteq Taken /\ (Active => job.tx # new)
    BY <1>1, <1>2 DEF Stored, Inv, Working
  <1>4. TypeOK'
    <2>1. net' \in Seq([tx : Transaction, height : 0..MaxHeight]) /\ Len(net') <= MaxPayments
      BY <1>2 DEF Entry
    <2> QED BY <1>1, <2>1, Forgotten, Zenon DEF Inv, TypeOK
  <1>5. Working' /\ LocksHold'
    BY <1>1, <1>2, <1>3, Forgotten DEF Inv, Working, LocksHold, Active
  <1>6. NoneBack'
    BY <1>1, <1>2, <1>3 DEF Inv, NoneBack, Done, Active
  <1>7. PutOnce'
    <2>1. \A o \in Coin : Offered(o)' => Offered(o)
      BY <1>1, <1>2, Forgotten DEF Offered, Confirmed, NoTx
    <2> QED BY <1>1, <2>1, Numbers DEF Inv, PutOnce, Final, Active
  <1>8. KeysKnown'
    <2>1. Keyed(tx[c])
      BY <1>1 DEF Inv, KeysKnown
    <2> QED BY <1>1, <1>2, <1>3, <2>1, Forgotten, NoTxOK DEF Inv, KeysKnown, Active
  <1>9. RivalUnknown'
    <2>1. \A d \in Callers : new \notin knew'[d]
      BY <1>1, <1>2, Forgotten DEF Inv, Working
    <2> QED BY <1>1, <1>2, <2>1, Forgotten DEF Inv, RivalUnknown
  <1>10. FrozenNotSpent'
    BY <1>1, Forgotten DEF Inv, FrozenNotSpent
  <1> QED BY <1>4, <1>5, <1>6, <1>7, <1>8, <1>9, <1>10 DEF Inv

\* A payment that AddTransaction takes up has not been put for the last time.
LEMMA NotFinal ==
    ASSUME Inv, NEW i \in Payment, PutOutputs(i)
    PROVE  txns[i] <= 0 /\ ~Offered(ChangeOf(i))
  <1>1. txns[i] \in 0..MaxHeight \cup {None} /\ ~(txns[i] > 0) /\ ~Active
    BY DEF Inv, TypeOK, PutOutputs, Processed, Active
  <1>2. ~Final(i)
    BY <1>1 DEF Final
  <1> QED BY <1>1, <1>2, Numbers DEF Inv, PutOnce, None

LEMMA PutOutputsInv ==
    ASSUME Inv, NEW i \in Payment, PutOutputs(i)
    PROVE  Inv'
  <1> DEFINE o1 == ChangeOf(i)
  <1>1. /\ UNCHANGED <<height, net, txns, pc, tx, locked, knew, kept>>
        /\ i \in Taken /\ job.step = "idle"
        /\ job' = [tx |-> i, height |-> net[i].height, step |-> "inputs"]
    BY DEF PutOutputs, server, call, history
  <1>2. /\ Stored' = Stored /\ Taken' = Taken /\ ~Active /\ Active' /\ job'.tx = i
        /\ job'.step = "inputs" /\ job'.height = net[i].height
    BY <1>1 DEF Stored, Taken, Active
  <1>3. /\ net[i] \in Entry /\ o1 \in Coin /\ Keyed(net[i].tx)
        /\ \A j \in Payment : ChangeOf(j) = o1 => j = i
    BY <1>1, Numbers DEF Inv, KeysKnown
  <1>4. /\ DOMAIN utxos' \subseteq DOMAIN utxos \cup {o1}
        /\ \A o \in DOMAIN utxos \ {o1} : o \in DOMAIN utxos' /\ utxos'[o] = utxos[o]
        /\ PaysUs(i) => utxos'[o1] = ChangeCoin(i) /\ used' = used \cup {net[i].tx.key}
        /\ ~PaysUs(i) => utxos' = utxos /\ used' = used
    BY DEF PutOutputs
  <1> HIDE DEF o1
  <1>5. TypeOK'
    <2>1. DOMAIN utxos' \subseteq Coin /\ \A o \in DOMAIN utxos' : utxos'[o] \in Utxo
      <3>1. ChangeCoin(i) \in Utxo
        BY <1>3 DEF ChangeCoin, Utxo, Entry, Transaction
      <3> QED BY <1>3, <1>4, <3>1 DEF Inv, TypeOK
    <2>2. used' \subseteq Key
      BY <1>3, <1>4 DEF Inv, TypeOK, PaysUs, Keyed, Entry, Transaction
    <2>3. job' \in [tx : Payment \cup {0}, height : 0..MaxHeight,
                    step : {"idle", "inputs", "commit"}]
      BY <1>1, <1>3 DEF Entry
    <2> QED BY <1>1, <2>1, <2>2, <2>3, Zenon DEF Inv, TypeOK
  <1>6. Working'
    BY <1>1, <1>2, NotFinal DEF Inv, Working
  <1>7. NoneBack'
    <2> SUFFICES ASSUME NEW j \in Taken, Done(j)'
                 PROVE  net[j].tx.ins \cap DOMAIN utxos' = {}
      BY <1>1, <1>2 DEF NoneBack
    <2>1. Done(j)
      BY <1>2 DEF Done
    <2>2. o1 \notin net[j].tx.ins
      BY NotFinal DEF Offered, o1
    <2> QED BY <1>4, <2>1, <2>2 DEF Inv, NoneBack
  <1>8. PutOnce'
    <2> SUFFICES ASSUME NEW j \in Payment, Offered(ChangeOf(j))'
                 PROVE  Final(j)'
      BY DEF PutOnce
    <2>1. CASE j # i
      <3>1. Confirmed(ChangeOf(j))' => Confirmed(ChangeOf(j))
        BY <1>3, <1>4, <2>1 DEF Confirmed
      <3>2. Offered(ChangeOf(j))
        BY <1>1, <1>2, <3>1 DEF Offered
      <3> QED BY <1>1, <1>2, <3>2 DEF Inv, PutOnce, Final
    <2>2. CASE j = i
      <3>1. Confirmed(o1)' /\ ~Confirmed(o1)
        BY <1>1, <1>2, <2>2, NotFinal DEF Offered, o1
      <3>2. PaysUs(i)
        BY <1>4, <3>1 DEF Confirmed
      <3>3. net[i].height > 0
        BY <1>4, <3>1, <3>2 DEF Confirmed, ChangeCoin
      <3> QED BY <1>1, <1>2, <2>2, <3>3 DEF Final
    <2> QED BY <2>1, <2>2
  <1>9. LocksHold'
    <2>1. o1 \notin locked
      BY NotFinal DEF Offered, o1
    <2> QED BY <1>1, <1>4, <2>1 DEF Inv, LocksHold
  <1>10. KeysKnown'
    <2>1. used \subseteq used' /\ (net[i].tx.change # 0 => net[i].tx.key \in used')
      BY <1>4 DEF PaysUs
    <2> QED BY <1>1, <1>2, <2>1 DEF Inv, KeysKnown
  <1>11. RivalUnknown' /\ FrozenNotSpent'
    BY <1>1, <1>2 DEF Inv, RivalUnknown, FrozenNotSpent
  <1> QED BY <1>5, <1>6, <1>7, <1>8, <1>9, <1>10, <1>11 DEF Inv

LEMMA SpendInputsInv ==
    ASSUME Inv, SpendInputs
    PROVE  Inv'
  <1>1. /\ UNCHANGED <<height, net, used, txns, pc, tx, locked, knew, kept>>
        /\ job.step = "inputs" /\ job' = [job EXCEPT !.step = "commit"]
        /\ utxos' = [o \in DOMAIN utxos \ net[job.tx].tx.ins |-> utxos[o]]
    BY DEF SpendInputs, server, call, history
  <1>2. /\ Stored' = Stored /\ Taken' = Taken /\ Active /\ Active' /\ job'.tx = job.tx
        /\ job'.step = "commit" /\ job'.height = job.height
    BY <1>1 DEF Stored, Taken, Active, Inv, TypeOK
  <1>3. TypeOK'
    <2>1. DOMAIN utxos' \subseteq Coin /\ \A o \in DOMAIN utxos' : utxos'[o] \in Utxo
      BY <1>1 DEF Inv, TypeOK
    <2>2. job' \in [tx : Payment \cup {0}, height : 0..MaxHeight,
                    step : {"idle", "inputs", "commit"}]
      BY <1>1 DEF Inv, TypeOK
    <2> QED BY <1>1, <2>1, <2>2, Zenon DEF Inv, TypeOK
  <1>4. Working' /\ NoneBack' /\ LocksHold'
    BY <1>1, <1>2 DEF Inv, Working, NoneBack, Done, LocksHold
  <1>5. PutOnce'
    <2>1. \A o \in Coin : Offered(o)' => Offered(o)
      BY <1>1, <1>2 DEF Offered, Confirmed
    <2> QED BY <1>1, <1>2, <2>1, Numbers DEF Inv, PutOnce, Final
  <1>6. KeysKnown' /\ RivalUnknown' /\ FrozenNotSpent'
    BY <1>1, <1>2 DEF Inv, KeysKnown, RivalUnknown, FrozenNotSpent
  <1> QED BY <1>3, <1>4, <1>5, <1>6 DEF Inv

LEMMA PutTxnInv ==
    ASSUME Inv, PutTxn
    PROVE  Inv'
  <1> DEFINE i == job.tx
  <1>1. /\ UNCHANGED <<height, net, utxos, used, pc, tx, locked, knew, kept>>
        /\ job.step = "commit" /\ job' = Idle /\ txns' = [txns EXCEPT ![i] = job.height]
    BY DEF PutTxn, server, call, history
  <1>2. /\ i \in Taken /\ i \in Payment /\ txns[i] <= 0 /\ Active /\ ~Active'
        /\ job.height \in 0..MaxHeight
    BY <1>1, Numbers DEF Inv, Working, Active, Idle, TypeOK
  <1> HIDE DEF i
  <1>3. /\ Taken' = Taken /\ Stored' = Stored \cup {i}
        /\ txns' \in [Payment -> 0..MaxHeight \cup {None}] /\ txns'[i] = job.height
        /\ \A j \in Payment \ {i} : txns'[j] = txns[j]
    BY <1>1, <1>2 DEF Taken, Stored, Inv, TypeOK, None
  <1>4. TypeOK'
    <2>1. job' \in [tx : Payment \cup {0}, height : 0..MaxHeight,
                    step : {"idle", "inputs", "commit"}]
      BY <1>1, Numbers DEF Idle, Inv
    <2> QED BY <1>1, <1>3, <2>1, Zenon DEF Inv, TypeOK
  <1>5. Working' /\ LocksHold'
    BY <1>1, <1>2, <1>3 DEF Inv, Working, LocksHold
  <1>6. NoneBack'
    BY <1>1, <1>2, <1>3 DEF Inv, NoneBack, Done, Active, i
  <1>7. PutOnce'
    <2>1. \A o \in Coin : Offered(o)' => Offered(o)
      BY <1>1, <1>3 DEF Offered, Confirmed
    <2>2. \A j \in Payment : Final(j) => Final(j)'
      <3> SUFFICES ASSUME NEW j \in Payment, Final(j) PROVE txns'[j] > 0
        BY DEF Final
      <3>1. CASE j = i
        <4>1. ~(txns[i] > 0)
          BY <1>2, Numbers DEF Inv, TypeOK, None
        <4> QED BY <1>3, <3>1, <4>1 DEF Final, i
      <3>2. CASE j # i
        BY <1>3, <3>2 DEF Final, i
      <3> QED BY <3>1, <3>2
    <2> QED BY <2>1, <2>2, Numbers DEF Inv, PutOnce
  <1>8. KeysKnown'
    BY <1>1, <1>2, <1>3 DEF Inv, KeysKnown, i
  <1>9. RivalUnknown' /\ FrozenNotSpent'
    BY <1>1, <1>3 DEF Inv, RivalUnknown, FrozenNotSpent
  <1> QED BY <1>4, <1>5, <1>6, <1>7, <1>8, <1>9 DEF Inv

LEMMA FreezeInv ==
    ASSUME Inv, NEW o \in Coin, FreezeUTXO(o) \/ UnFreezeUTXO(o)
    PROVE  Inv'
  <1>1. /\ UNCHANGED <<height, net, used, txns, job, pc, tx, knew, kept>>
        /\ o \in DOMAIN utxos /\ DOMAIN utxos' = DOMAIN utxos
        /\ \A u \in DOMAIN utxos \ {o} : utxos'[u] = utxos[u]
        /\ \E b \in BOOLEAN : utxos'[o] = [utxos[o] EXCEPT !.frozen = b]
    BY DEF FreezeUTXO, UnFreezeUTXO, server, call
  <1>2. /\ utxos'[o] \in Utxo /\ utxos'[o].height = utxos[o].height
    BY <1>1 DEF Inv, TypeOK, Utxo
  <1>3. \/ locked' = locked \cup {o} /\ Confirmed(o) /\ utxos'[o].frozen
        \/ locked' = locked /\ utxos'[o].frozen
        \/ locked' = locked \ {o}
    BY <1>1 DEF FreezeUTXO, UnFreezeUTXO, Inv, TypeOK, Utxo
  <1>4. Stored' = Stored /\ Taken' = Taken /\ Active' = Active
    BY <1>1 DEF Stored, Taken, Active
  <1>5. TypeOK'
    <2>1. /\ DOMAIN utxos' \subseteq Coin /\ \A u \in DOMAIN utxos' : utxos'[u] \in Utxo
          /\ locked' \subseteq Coin
      BY <1>1, <1>2, <1>3 DEF Inv, TypeOK
    <2> QED BY <1>1, <2>1, Zenon DEF Inv, TypeOK
  <1>6. Working' /\ NoneBack'
    BY <1>1, <1>4 DEF Inv, Working, NoneBack, Done
  <1>7. PutOnce'
    <2>1. \A u \in Coin : Offered(u)' => Offered(u)
      BY <1>1, <1>2, <1>3, <1>4 DEF Offered, Confirmed
    <2> QED BY <1>1, <1>4, <2>1, Numbers DEF Inv, PutOnce, Final
  <1>8. LocksHold'
    BY <1>1, <1>3 DEF Inv, LocksHold
  <1>9. KeysKnown' /\ RivalUnknown' /\ FrozenNotSpent'
    BY <1>1, <1>4 DEF Inv, KeysKnown, RivalUnknown, FrozenNotSpent
  <1> QED BY <1>5, <1>6, <1>7, <1>8, <1>9 DEF Inv

LEMMA NextInv == Inv /\ [Next]_vars => Inv'
  <1> SUFFICES ASSUME Inv, [Next]_vars PROVE Inv'
    OBVIOUS
  <1>1. ASSUME NEW c \in Callers, Call(c) PROVE Inv'
    BY <1>1, SpendInv, BuildTxInv, SignInv, BroadcastInv, NotBroadcastInv DEF Call
  <1>2. CASE AddTransaction
    BY <1>2, SpendInputsInv, PutTxnInv, PutOutputsInv DEF AddTransaction
  <1>3. ASSUME NEW o \in Coin, FreezeUTXO(o) \/ UnFreezeUTXO(o) PROVE Inv'
    BY <1>3, FreezeInv
  <1>4. ASSUME NEW M \in SUBSET Taken, Mine(M) PROVE Inv'
    BY <1>4, MineInv
  <1>5. CASE UNCHANGED vars
    <2>1. UNCHANGED <<height, net, utxos, used, txns, job, pc, tx, locked, knew, kept>>
      BY <1>5 DEF vars, server, store, call, history
    <2>2. TypeOK' /\ RivalUnknown' /\ FrozenNotSpent'
      BY <2>1 DEF Inv, TypeOK, RivalUnknown, FrozenNotSpent, Taken
    <2>3. Working' /\ NoneBack' /\ LocksHold'
      BY <2>1 DEF Inv, Working, NoneBack, Done, LocksHold, Active, Stored, Taken
    <2>4. PutOnce' /\ KeysKnown'
      BY <2>1 DEF Inv, PutOnce, Offered, Final, Confirmed, KeysKnown, Active, Stored, Taken
    <2> QED BY <2>2, <2>3, <2>4 DEF Inv
  <1> QED BY <1>1, <1>2, <1>3, <1>4, <1>5 DEF Next

LEMMA Invariance == Spec => []Inv
  <1>1. Init /\ [][Next]_vars => []Inv
    BY InitInv, NextInv, PTL
  <1> QED BY <1>1, PTL DEF Spec

-----------------------------------------------------------------------------
(* Sums over finite sets: induction by a smallest subset. *)

Any(s) == CHOOSE x \in s : TRUE
Adds(fun, S, it) ==
    it = [s \in SUBSET S |-> IF s = {} THEN 0 ELSE fun[Any(s)] + it[s \ {Any(s)}]]

LEMMA SumDef ==
    ASSUME NEW fun, NEW S
    PROVE  SumFunctionOnSet(fun, S) = (CHOOSE it : Adds(fun, S, it))[S]
  BY Zenon DEF SumFunctionOnSet, FoldFunctionOnSet, MapThenFoldSet, Adds, Any

LEMMA AnyIn == ASSUME NEW s, s # {} PROVE Any(s) \in s
  BY DEF Any

LEMMA Smallest ==
    ASSUME NEW S, IsFiniteSet(S), NEW T, T \subseteq SUBSET S, T # {}
    PROVE  \E m \in T : \A n \in T : n \subseteq m => n = m
  <1>1. IsWellFoundedOn(StrictSubsetOrdering(S), SUBSET S)
    BY FS_StrictSubsetOrderingWellFounded, FS_FiniteSubsetsOfFinite
  <1>2. PICK m \in T : \A n \in T : <<n, m>> \notin StrictSubsetOrdering(S)
    BY <1>1, WFMin
  <1> QED BY <1>2 DEF StrictSubsetOrdering

\* Two additions agree on the sets that both know.
LEMMA AddsUnique ==
    ASSUME NEW fun, NEW A, IsFiniteSet(A), NEW B, NEW it, NEW jt,
           Adds(fun, A, it), Adds(fun, B, jt)
    PROVE  \A s \in SUBSET A : s \subseteq B => it[s] = jt[s]
  <1> DEFINE Bad == {s \in SUBSET A : s \subseteq B /\ it[s] # jt[s]}
  <1> SUFFICES ASSUME Bad # {} PROVE FALSE
    OBVIOUS
  <1>1. PICK m \in Bad : \A n \in Bad : n \subseteq m => n = m
    <2>1. Bad \in SUBSET SUBSET A
      OBVIOUS
    <2> HIDE DEF Bad
    <2> QED BY <2>1, Smallest
  <1>2. /\ it[m] = IF m = {} THEN 0 ELSE fun[Any(m)] + it[m \ {Any(m)}]
        /\ jt[m] = IF m = {} THEN 0 ELSE fun[Any(m)] + jt[m \ {Any(m)}]
    BY DEF Adds
  <1>3. CASE m = {}
    BY <1>2, <1>3
  <1>4. CASE m # {}
    <2>1. m \ {Any(m)} # m
      BY <1>4, AnyIn
    <2>2. it[m \ {Any(m)}] = jt[m \ {Any(m)}]
      BY <1>1, <2>1
    <2> QED BY <1>2, <1>4, <2>2
  <1> QED BY <1>3, <1>4

LEMMA AddsExists ==
    ASSUME NEW fun, NEW S, IsFiniteSet(S)
    PROVE  \E it : Adds(fun, S, it)
  <1> DEFINE Bad == {s \in SUBSET S : ~ \E add : Adds(fun, s, add)}
  <1> SUFFICES ASSUME Bad # {} PROVE FALSE
    OBVIOUS
  <1>1. PICK m \in Bad : \A n \in Bad : n \subseteq m => n = m
    <2>1. Bad \in SUBSET SUBSET S
      OBVIOUS
    <2> HIDE DEF Bad
    <2> QED BY <2>1, Smallest
  <1> DEFINE G(s) == CHOOSE add : Adds(fun, s, add)
             it == [s \in SUBSET m |->
                      IF s = {} THEN 0 ELSE fun[Any(s)] + G(s \ {Any(s)})[s \ {Any(s)}]]
  <1>2. ASSUME NEW s \in SUBSET m, s # m PROVE Adds(fun, s, G(s)) /\ IsFiniteSet(s)
    <2>1. \E jt : Adds(fun, s, jt)
      BY <1>1, <1>2
    <2>2. IsFiniteSet(s)
      BY FS_Subset
    <2> QED BY <2>1, <2>2
  <1>3. ASSUME NEW s \in SUBSET m, s # m PROVE it[s] = G(s)[s]
    <2> HIDE DEF G
    <2>1. G(s)[s] = IF s = {} THEN 0 ELSE fun[Any(s)] + G(s)[s \ {Any(s)}]
      BY <1>2, <1>3 DEF Adds
    <2>2. CASE s = {}
      BY <2>1, <2>2
    <2>3. CASE s # {}
      <3> DEFINE r == s \ {Any(s)}
      <3>1. r \in SUBSET m /\ r # m /\ r \in SUBSET s
        BY <1>3, <2>3, AnyIn
      <3>2. Adds(fun, s, G(s)) /\ Adds(fun, r, G(r)) /\ IsFiniteSet(r)
        BY <1>2, <1>3, <3>1
      <3> HIDE DEF r
      <3>3. G(r)[r] = G(s)[r]
        BY <3>1, <3>2, AddsUnique
      <3>4. it[s] = fun[Any(s)] + G(r)[r]
        BY <2>3 DEF r
      <3> QED BY <2>1, <2>3, <3>3, <3>4 DEF r
    <2> QED BY <2>2, <2>3
  <1>4. ASSUME NEW s \in SUBSET m, s # {}
        PROVE  it[s] = fun[Any(s)] + it[s \ {Any(s)}]
    <2>1. s \ {Any(s)} \in SUBSET m /\ s \ {Any(s)} # m
      BY <1>4, AnyIn
    <2>2. it[s \ {Any(s)}] = G(s \ {Any(s)})[s \ {Any(s)}]
      BY <1>3, <2>1
    <2> QED BY <1>4, <2>2
  <1>5. it[{}] = 0
    OBVIOUS
  <1>6. Adds(fun, m, it)
    <2> DEFINE right == [s \in SUBSET m |-> IF s = {} THEN 0 ELSE fun[Any(s)] + it[s \ {Any(s)}]]
    <2>1. \A s \in SUBSET m : it[s] = right[s]
      BY <1>4, <1>5, Zenon
    <2>2. DOMAIN it = SUBSET m /\ DOMAIN right = SUBSET m
      OBVIOUS
    <2>3. it = [s \in SUBSET m |-> it[s]] /\ right = [s \in SUBSET m |-> right[s]]
      OBVIOUS
    <2> HIDE DEF it, right
    <2>4. it = right
      BY <2>1, <2>3
    <2> QED BY <2>4 DEF Adds, right
  <1> QED BY <1>1, <1>6

LEMMA SumStep ==
    ASSUME NEW fun, NEW S, IsFiniteSet(S)
    PROVE  SumFunctionOnSet(fun, S) =
             IF S = {} THEN 0 ELSE fun[Any(S)] + SumFunctionOnSet(fun, S \ {Any(S)})
  <1> DEFINE r == S \ {Any(S)}
             it == CHOOSE add : Adds(fun, S, add)
             jt == CHOOSE add : Adds(fun, r, add)
  <1>1. IsFiniteSet(r) /\ r \in SUBSET S
    BY FS_Subset
  <1> HIDE DEF r
  <1>2. SumFunctionOnSet(fun, S) = it[S] /\ SumFunctionOnSet(fun, r) = jt[r]
    BY SumDef
  <1>3. Adds(fun, S, it) /\ Adds(fun, r, jt)
    BY <1>1, AddsExists
  <1> HIDE DEF it, jt
  <1>4. jt[r] = it[r]
    <2>1. \A s \in SUBSET S : s \subseteq r => it[s] = jt[s]
      BY <1>3, AddsUnique
    <2> QED BY <1>1, <2>1
  <1>5. it[S] = IF S = {} THEN 0 ELSE fun[Any(S)] + it[S \ {Any(S)}]
    BY <1>3 DEF Adds
  <1> QED BY <1>2, <1>4, <1>5 DEF r

\* Equal summands, equal sums.
LEMMA SumEqual ==
    ASSUME NEW S, IsFiniteSet(S), NEW f, NEW g, \A x \in S : f[x] = g[x]
    PROVE  SumFunctionOnSet(f, S) = SumFunctionOnSet(g, S)
  <1> DEFINE Bad == {s \in SUBSET S : SumFunctionOnSet(f, s) # SumFunctionOnSet(g, s)}
  <1> SUFFICES ASSUME Bad # {} PROVE FALSE
    OBVIOUS
  <1>1. PICK m \in Bad : \A n \in Bad : n \subseteq m => n = m
    <2>1. Bad \in SUBSET SUBSET S
      OBVIOUS
    <2> HIDE DEF Bad
    <2> QED BY <2>1, Smallest
  <1>2. IsFiniteSet(m)
    BY FS_Subset
  <1>3. CASE m = {}
    BY <1>2, <1>3, SumStep
  <1>4. CASE m # {}
    <2>1. Any(m) \in m /\ m \ {Any(m)} # m /\ f[Any(m)] = g[Any(m)]
      BY <1>4, AnyIn
    <2>2. SumFunctionOnSet(f, m \ {Any(m)}) = SumFunctionOnSet(g, m \ {Any(m)})
      BY <1>1, <2>1
    <2> QED BY <1>2, <1>4, <2>1, <2>2, SumStep
  <1> QED BY <1>3, <1>4

LEMMA SumNat ==
    ASSUME NEW f, NEW S, IsFiniteSet(S), \A x \in S : f[x] \in Nat
    PROVE  SumFunctionOnSet(f, S) \in Nat
  <1> DEFINE Bad == {s \in SUBSET S : SumFunctionOnSet(f, s) \notin Nat}
  <1> SUFFICES ASSUME Bad # {} PROVE FALSE
    OBVIOUS
  <1>1. PICK m \in Bad : \A n \in Bad : n \subseteq m => n = m
    <2>1. Bad \in SUBSET SUBSET S
      OBVIOUS
    <2> HIDE DEF Bad
    <2> QED BY <2>1, Smallest
  <1>2. IsFiniteSet(m)
    BY FS_Subset
  <1>3. CASE m = {}
    <2>1. SumFunctionOnSet(f, m) = 0
      BY <1>2, <1>3, SumStep
    <2> QED BY <1>1, <2>1
  <1>4. CASE m # {}
    <2>1. Any(m) \in m /\ m \ {Any(m)} # m /\ f[Any(m)] \in Nat
      BY <1>4, AnyIn
    <2>2. SumFunctionOnSet(f, m \ {Any(m)}) \in Nat
      BY <1>1, <2>1
    <2> QED BY <1>2, <1>4, <2>1, <2>2, SumStep
  <1> QED BY <1>3, <1>4

\* Any summand can be taken first.
LEMMA SumOut ==
    ASSUME NEW f, NEW S, IsFiniteSet(S), \A x \in S : f[x] \in Nat, NEW y \in S
    PROVE  SumFunctionOnSet(f, S) = f[y] + SumFunctionOnSet(f, S \ {y})
  <1> DEFINE Bad == {s \in SUBSET S : \E x \in s :
                SumFunctionOnSet(f, s) # f[x] + SumFunctionOnSet(f, s \ {x})}
  <1> SUFFICES ASSUME Bad # {} PROVE FALSE
    OBVIOUS
  <1>1. PICK m \in Bad : \A n \in Bad : n \subseteq m => n = m
    <2>1. Bad \in SUBSET SUBSET S
      OBVIOUS
    <2> HIDE DEF Bad
    <2> QED BY <2>1, Smallest
  <1>2. PICK x \in m : SumFunctionOnSet(f, m) # f[x] + SumFunctionOnSet(f, m \ {x})
    BY <1>1
  <1> DEFINE a == Any(m)
             r == m \ {a, x}
  <1>3. /\ IsFiniteSet(m) /\ IsFiniteSet(m \ {x}) /\ IsFiniteSet(m \ {a})
        /\ a \in m
    BY FS_Subset, AnyIn, <1>2
  <1>4. SumFunctionOnSet(f, m) = f[a] + SumFunctionOnSet(f, m \ {a})
    BY <1>2, <1>3, SumStep
  <1>5. a # x
    BY <1>2, <1>4
  <1> HIDE DEF a
  <1>6. /\ m \ {a} \notin Bad /\ m \ {x} \notin Bad
        /\ x \in m \ {a} /\ a \in m \ {x}
    BY <1>1, <1>2, <1>3, <1>5
  <1>7. /\ (m \ {a}) \ {x} = r /\ (m \ {x}) \ {a} = r
    OBVIOUS
  <1>8. /\ SumFunctionOnSet(f, m \ {a}) = f[x] + SumFunctionOnSet(f, r)
        /\ SumFunctionOnSet(f, m \ {x}) = f[a] + SumFunctionOnSet(f, r)
    BY <1>6, <1>7
  <1>9. SumFunctionOnSet(f, r) \in Nat /\ f[a] \in Nat /\ f[x] \in Nat
    <2>1. IsFiniteSet(r)
      BY FS_Subset, <1>3
    <2> QED BY <2>1, <1>3, SumNat
  <1> HIDE DEF r
  <1> QED BY <1>2, <1>4, <1>8, <1>9

LEMMA SumSplit ==
    ASSUME NEW f, NEW S, IsFiniteSet(S), \A x \in S : f[x] \in Nat, NEW A \in SUBSET S
    PROVE  SumFunctionOnSet(f, S) = SumFunctionOnSet(f, A) + SumFunctionOnSet(f, S \ A)
  <1> DEFINE Bad == {s \in SUBSET A :
                SumFunctionOnSet(f, S) # SumFunctionOnSet(f, s) + SumFunctionOnSet(f, S \ s)}
  <1> SUFFICES ASSUME Bad # {} PROVE FALSE
    OBVIOUS
  <1>1. PICK m \in Bad : \A n \in Bad : n \subseteq m => n = m
    <2>1. Bad \in SUBSET SUBSET A
      OBVIOUS
    <2>2. IsFiniteSet(A)
      BY FS_Subset
    <2> HIDE DEF Bad
    <2> QED BY <2>1, <2>2, Smallest
  <1>2. IsFiniteSet(m) /\ IsFiniteSet(S \ m) /\ m \in SUBSET S
    BY FS_Subset
  <1>3. SumFunctionOnSet(f, S) \in Nat /\ SumFunctionOnSet(f, S \ m) \in Nat
    BY <1>2, SumNat
  <1>4. CASE m = {}
    <2>1. SumFunctionOnSet(f, m) = 0 /\ S \ m = S
      BY <1>2, <1>4, SumStep
    <2>2. SumFunctionOnSet(f, S) = SumFunctionOnSet(f, m) + SumFunctionOnSet(f, S \ m)
      <3>1. SumFunctionOnSet(f, S \ m) = SumFunctionOnSet(f, S)
        BY <2>1, Zenon
      <3> QED BY <1>3, <2>1, <3>1
    <2> QED BY <1>1, <2>2
  <1>5. CASE m # {}
    <2> DEFINE a == Any(m)
               r == m \ {a}
    <2>1. a \in m
      BY <1>5, AnyIn
    <2> HIDE DEF a
    <2>2. r # m /\ r \subseteq m /\ r \notin Bad
      BY <1>1, <2>1
    <2>3. IsFiniteSet(r) /\ IsFiniteSet(S \ r) /\ (S \ r) \ {a} = S \ m /\ a \in S \ r
      BY <2>1, <1>2, FS_Subset
    <2>4. SumFunctionOnSet(f, S) = SumFunctionOnSet(f, r) + SumFunctionOnSet(f, S \ r)
      BY <2>2
    <2>5. /\ SumFunctionOnSet(f, S \ r) = f[a] + SumFunctionOnSet(f, S \ m)
          /\ SumFunctionOnSet(f, m) = f[a] + SumFunctionOnSet(f, r)
      BY <1>2, <2>1, <2>3, SumOut
    <2>6. SumFunctionOnSet(f, r) \in Nat /\ f[a] \in Nat
      BY <1>2, <2>1, <2>3, SumNat
    <2> HIDE DEF r
    <2>7. SumFunctionOnSet(f, S) = SumFunctionOnSet(f, m) + SumFunctionOnSet(f, S \ m)
      BY <1>3, <2>4, <2>5, <2>6
    <2> QED BY <1>1, <2>7
  <1> QED BY <1>4, <1>5

LEMMA SumZero ==
    ASSUME NEW f, NEW S, IsFiniteSet(S), \A x \in S : f[x] = 0
    PROVE  SumFunctionOnSet(f, S) = 0
  <1> DEFINE Bad == {s \in SUBSET S : SumFunctionOnSet(f, s) # 0}
  <1> SUFFICES ASSUME Bad # {} PROVE FALSE
    OBVIOUS
  <1>1. PICK m \in Bad : \A n \in Bad : n \subseteq m => n = m
    <2>1. Bad \in SUBSET SUBSET S
      OBVIOUS
    <2> HIDE DEF Bad
    <2> QED BY <2>1, Smallest
  <1>2. IsFiniteSet(m)
    BY FS_Subset
  <1>3. CASE m = {}
    <2>1. SumFunctionOnSet(f, m) = 0
      BY <1>2, <1>3, SumStep
    <2> QED BY <1>1, <2>1
  <1>4. CASE m # {}
    <2>1. Any(m) \in m /\ m \ {Any(m)} # m /\ f[Any(m)] = 0
      BY <1>4, AnyIn
    <2>2. SumFunctionOnSet(f, m \ {Any(m)}) = 0
      BY <1>1, <2>1
    <2> QED BY <1>2, <1>4, <2>1, <2>2, SumStep
  <1> QED BY <1>3, <1>4

-----------------------------------------------------------------------------
(* Where the money is. *)

\* What a coin is worth: change is worth nothing before the server has taken its
\* payment, and coins without a change output are never worth anything.
Worth(o) == IF o <= N THEN Values[o]
            ELSE IF o - N \in Taken THEN net[o - N].tx.change ELSE 0
Worths == [o \in Coin |-> Worth(o)]
Unspent == {o \in Coin : ~Spent(o)}

\* The wallet knows its coins by their worth, and no change the server does not
\* know of.
ValuesRight ==
    \A o \in DOMAIN utxos : utxos[o].value = Worths[o] /\ (o > N => o - N \in Taken)

\* A coin that nobody has spent is missing from the wallet only if it is change of
\* a payment AddTransaction has not been to, or that pays no change.
Put(i) == i \in Stored \/ (job.tx = i /\ Active)
NoneLost ==
    \A o \in Unspent \ DOMAIN utxos :
        o > N /\ (o - N \in Taken /\ Put(o - N) => net[o - N].tx.change = 0)

\* A transaction under way pays out what goes in.
Balanced(t) == SumFunctionOnSet(Worths, t.ins) = t.pay + t.change + t.fee
AllBalanced == \A c \in Callers : pc[c] # "idle" => Balanced(tx[c])

\* Money is in coins nobody has spent or it was paid.
Conserved == SumFunctionOnSet(Worths, Unspent) + Paid = MaxValue

MoneyInv == ValuesRight /\ NoneLost /\ AllBalanced /\ Conserved

LEMMA CoinsFinite ==
    ASSUME TypeOK
    PROVE  /\ IsFiniteSet(Coin) /\ IsFiniteSet(Taken)
           /\ \A S \in SUBSET Coin : IsFiniteSet(S)
  <1>1. N \in Nat /\ MaxPayments \in Nat /\ Len(net) \in Nat /\ Taken = 1..Len(net)
    BY Numbers
  <1>2. IsFiniteSet(Coin) /\ IsFiniteSet(Taken)
    BY <1>1, FS_Interval DEF Coin
  <1> QED BY <1>2, FS_Subset

LEMMA AmountsNat ==
    ASSUME NEW t \in Transaction
    PROVE  t.pay \in Nat /\ t.change \in Nat /\ t.fee \in Nat
  <1>1. (t.pay \in Amounts \/ t.pay = 0) /\ t.change \in Nat /\ t.fee \in Nat
    BY DEF Transaction
  <1>2. \A a \in Amounts : a \in Nat
    BY ConstantsAssumption
  <1>3. t.pay \in Amounts => t.pay \in Nat
    BY <1>2
  <1> QED BY <1>1, <1>3

LEMMA WorthsNat ==
    ASSUME TypeOK
    PROVE  \A o \in Coin : Worths[o] = Worth(o) /\ Worths[o] \in Nat
  <1> SUFFICES ASSUME NEW o \in Coin PROVE Worth(o) \in Nat
    BY DEF Worths
  <1>1. N \in Nat /\ o \in Nat /\ o >= 1 /\ Values \in Seq(Nat)
    BY Numbers, ConstantsAssumption DEF Coin
  <1>2. CASE o <= N
    <2>1. o \in 1..Len(Values)
      BY <1>1, <1>2 DEF N
    <2> QED BY <1>1, <1>2, <2>1 DEF Worth
  <1>3. CASE ~(o <= N)
    <2>1. \A i \in Taken : net[i].tx.change \in Nat
      BY Numbers DEF Entry, Transaction
    <2> QED BY <1>3, <2>1 DEF Worth
  <1> QED BY <1>2, <1>3

\* Values of the wallet's coins add up to what they are worth.
LEMMA TotalIsWorth ==
    ASSUME TypeOK, ValuesRight, NEW S \in SUBSET DOMAIN utxos
    PROVE  Total(S) = SumFunctionOnSet(Worths, S) /\ Total(S) \in Nat
  <1>1. S \in SUBSET Coin /\ IsFiniteSet(S)
    BY CoinsFinite DEF TypeOK
  <1> DEFINE f == [o \in S |-> utxos[o].value]
  <1>2. \A o \in S : f[o] = Worths[o]
    BY DEF ValuesRight
  <1>3. SumFunctionOnSet(Worths, S) \in Nat
    BY <1>1, WorthsNat, SumNat
  <1>4. Total(S) = SumFunctionOnSet(f, S)
    BY DEF Total
  <1> HIDE DEF f
  <1>5. SumFunctionOnSet(f, S) = SumFunctionOnSet(Worths, S)
    BY <1>1, <1>2, SumEqual
  <1> QED BY <1>3, <1>4, <1>5

\* Worth, spending and payments only change when the server takes a transaction.
LEMMA SameWorths ==
    ASSUME Taken' = Taken, \A i \in Taken : net'[i].tx = net[i].tx
    PROVE  /\ Worths' = Worths /\ Paid' = Paid /\ Unspent' = Unspent
           /\ \A o : Spent(o)' <=> Spent(o)
  <1>1. \A o : Spent(o)' <=> Spent(o)
    BY DEF Spent
  <1>2. \A o \in Coin : Worth(o)' = Worth(o)
    BY DEF Worth
  <1>3. Worths' = Worths
    BY <1>2 DEF Worths
  <1>4. Unspent' = Unspent
    BY <1>1 DEF Unspent
  <1>5. [i \in Taken |-> net[i].tx.pay + net[i].tx.fee]' =
        [i \in Taken |-> net[i].tx.pay + net[i].tx.fee]
    OBVIOUS
  <1>6. Paid' = Paid
    BY <1>5 DEF Paid
  <1> QED BY <1>1, <1>3, <1>4, <1>6

\* A step that leaves the server's transactions alone.
LEMMA QuietStep ==
    ASSUME MoneyInv, Taken' = Taken, \A i \in Taken : net'[i].tx = net[i].tx
    PROVE  /\ Conserved'
           /\ \A c \in Callers : /\ pc[c] # "idle"
                                 /\ tx'[c].ins = tx[c].ins /\ tx'[c].pay = tx[c].pay
                                 /\ tx'[c].change = tx[c].change /\ tx'[c].fee = tx[c].fee
                                 => Balanced(tx[c])'
           /\ (\A o \in DOMAIN utxos' : o \in DOMAIN utxos /\ utxos'[o].value = utxos[o].value)
                => ValuesRight'
           /\ (/\ \A o \in DOMAIN utxos \ DOMAIN utxos' : Spent(o)
               /\ \A i \in Taken : Put(i)' => Put(i)) => NoneLost'
  <1>1. /\ Worths' = Worths /\ Paid' = Paid /\ Unspent' = Unspent
        /\ \A o : Spent(o)' <=> Spent(o)
    BY SameWorths
  <1>2. Conserved'
    BY <1>1 DEF MoneyInv, Conserved
  <1>3. ASSUME NEW c \in Callers, pc[c] # "idle",
               tx'[c].ins = tx[c].ins, tx'[c].pay = tx[c].pay,
               tx'[c].change = tx[c].change, tx'[c].fee = tx[c].fee
        PROVE  Balanced(tx[c])'
    BY <1>1, <1>3 DEF MoneyInv, AllBalanced, Balanced
  <1>4. ASSUME \A o \in DOMAIN utxos' : o \in DOMAIN utxos /\ utxos'[o].value = utxos[o].value
        PROVE  ValuesRight'
    BY <1>1, <1>4 DEF MoneyInv, ValuesRight
  <1>5. ASSUME \A o \in DOMAIN utxos \ DOMAIN utxos' : Spent(o),
               \A i \in Taken : Put(i)' => Put(i)
        PROVE  NoneLost'
    BY <1>1, <1>5 DEF MoneyInv, NoneLost, Unspent
  <1> QED BY <1>2, <1>3, <1>4, <1>5

LEMMA InitMoney == Init => MoneyInv
  <1> SUFFICES ASSUME Init PROVE MoneyInv
    OBVIOUS
  <1>1. TypeOK /\ Taken = {} /\ DOMAIN utxos = 1..N /\ N \in Nat /\ MaxPayments \in Nat
    BY InitInv, Numbers DEF Inv, Init, Taken
  <1>2. \A o \in 1..N : o \in Coin /\ Worths[o] = Values[o]
    BY <1>1 DEF Coin, Worths, Worth
  <1>3. ValuesRight /\ NoneLost /\ AllBalanced
    BY <1>1, <1>2 DEF Init, ValuesRight, NoneLost, AllBalanced, Unspent, Coin
  <1>4. Unspent = Coin
    BY <1>1 DEF Unspent, Spent
  <1>5. \A o \in Coin \ 1..N : Worths[o] = 0
    BY <1>1 DEF Coin, Worths, Worth
  <1>6. 1..N \in SUBSET Coin /\ IsFiniteSet(Coin) /\ IsFiniteSet(1..N) /\ IsFiniteSet(Coin \ 1..N)
    BY <1>1, <1>2, CoinsFinite
  <1>7. /\ SumFunctionOnSet(Worths, Coin) =
             SumFunctionOnSet(Worths, 1..N) + SumFunctionOnSet(Worths, Coin \ 1..N)
        /\ SumFunctionOnSet(Worths, 1..N) \in Nat
    BY <1>1, <1>6, WorthsNat, SumSplit, SumNat
  <1>8. SumFunctionOnSet(Worths, Coin \ 1..N) = 0
    BY <1>5, <1>6, SumZero
  <1>9. SumFunctionOnSet(Worths, 1..N) = MaxValue
    BY <1>2, <1>6, SumEqual DEF MaxValue
  <1>10. Paid = 0
    BY <1>1, FS_EmptySet, SumStep DEF Paid
  <1> QED BY <1>3, <1>4, <1>7, <1>8, <1>9, <1>10 DEF MoneyInv, Conserved

-----------------------------------------------------------------------------
(* The money, one lemma per action. *)

LEMMA MineMoney ==
    ASSUME Inv, MoneyInv, NEW M \in SUBSET Taken, Mine(M)
    PROVE  MoneyInv'
  <1>1. UNCHANGED <<utxos, txns, job, pc, tx>>
    BY DEF Mine, store, call
  <1>2. Taken' = Taken /\ \A i \in Taken : net'[i].tx = net[i].tx
    BY Numbers DEF Mine, Inv, Taken, Entry
  <1>3. \A i : Put(i)' => Put(i)
    BY <1>1 DEF Put, Stored, Active
  <1> QED BY <1>1, <1>2, <1>3, QuietStep DEF MoneyInv, AllBalanced

\* A caller takes up a balanced transaction or goes on with the one it has.
LEMMA CallMoney ==
    ASSUME Inv, MoneyInv, UNCHANGED <<net, utxos, txns, job>>, NEW c \in Callers,
           pc' = [pc EXCEPT ![c] = pc'[c]], tx' = [tx EXCEPT ![c] = tx'[c]],
           pc'[c] # "idle" => Balanced(tx'[c])
    PROVE  MoneyInv'
  <1>1. Taken' = Taken /\ \A i : Put(i)' => Put(i)
    BY DEF Taken, Put, Stored, Active
  <1>2. Worths' = Worths
    BY <1>1, SameWorths
  <1>3. AllBalanced'
    <2> SUFFICES ASSUME NEW d \in Callers, pc'[d] # "idle" PROVE Balanced(tx[d])'
      BY DEF AllBalanced
    <2>1. CASE d = c
      BY <1>2, <2>1 DEF Balanced
    <2>2. CASE d # c
      <3>1. pc[d] # "idle" /\ tx'[d] = tx[d]
        BY <2>2 DEF Inv, TypeOK
      <3> QED BY <1>2, <3>1 DEF Balanced, MoneyInv, AllBalanced
    <2> QED BY <2>1, <2>2
  <1> QED BY <1>1, <1>3, QuietStep DEF MoneyInv

LEMMA SpendMoney ==
    ASSUME Inv, MoneyInv, NEW c \in Callers, NEW a \in Amounts, Spend(c, a)
    PROVE  MoneyInv'
  <1>1. PICK S \in SUBSET Gathered, blockchainTip \in 1..height, rest \in 0..MaxValue :
          /\ rest = Total(S) - a - Fee(ScriptsReturned)
          /\ tx' = [tx EXCEPT ![c] =
                   [ins |-> S, pay |-> a, change |-> Change(rest),
                    fee |-> Fee(ScriptsReturned) + rest - Change(rest), key |-> None]]
    BY Zenon DEF Spend
  <1>2. UNCHANGED <<net, utxos, txns, job>> /\ pc' = [pc EXCEPT ![c] = "funded"]
    BY DEF Spend, server, store
  <1>3. /\ tx'[c].ins = S /\ tx'[c].pay = a /\ tx'[c].change = Change(rest)
        /\ tx'[c].fee = Fee(ScriptsReturned) + rest - Change(rest)
        /\ tx' = [tx EXCEPT ![c] = tx'[c]] /\ pc' = [pc EXCEPT ![c] = pc'[c]]
    BY <1>1, <1>2 DEF Inv, TypeOK
  <1>4. S \in SUBSET DOMAIN utxos
    BY DEF Gathered
  <1>5. Total(S) = SumFunctionOnSet(Worths, S) /\ Total(S) \in Nat
    BY <1>4, TotalIsWorth DEF Inv, MoneyInv
  <1>6. a \in Nat /\ rest \in Nat /\ Fee(ScriptsReturned) \in Nat /\ Change(rest) \in Nat
    BY ConstantsAssumption DEF Fee, ScriptsReturned, Change
  <1>7. Balanced(tx'[c])
    BY <1>1, <1>3, <1>5, <1>6 DEF Balanced
  <1> QED BY <1>2, <1>3, <1>7, CallMoney

LEMMA SignMoney ==
    ASSUME Inv, MoneyInv, NEW c \in Callers, NEW S \in SUBSET Coin, Sign(c, S)
    PROVE  MoneyInv'
  <1>1. PICK all \in 0..MaxValue :
          /\ all = Total(S)
          /\ tx' = [tx EXCEPT ![c] =
                   [ins |-> S, pay |-> 0, change |-> 0, fee |-> all, key |-> None]]
    BY Zenon DEF Sign
  <1>2. UNCHANGED <<net, utxos, txns, job>> /\ pc' = [pc EXCEPT ![c] = "built"]
    BY DEF Sign, server, store
  <1>3. /\ tx'[c].ins = S /\ tx'[c].pay = 0 /\ tx'[c].change = 0 /\ tx'[c].fee = all
        /\ tx' = [tx EXCEPT ![c] = tx'[c]] /\ pc' = [pc EXCEPT ![c] = pc'[c]]
    BY <1>1, <1>2 DEF Inv, TypeOK
  <1>4. S \in SUBSET DOMAIN utxos
    BY DEF Sign, Confirmed
  <1>5. Total(S) = SumFunctionOnSet(Worths, S) /\ Total(S) \in Nat
    BY <1>4, TotalIsWorth DEF Inv, MoneyInv
  <1>6. Balanced(tx'[c])
    BY <1>1, <1>3, <1>5 DEF Balanced
  <1> QED BY <1>2, <1>3, <1>6, CallMoney

LEMMA BuildTxMoney ==
    ASSUME Inv, MoneyInv, NEW c \in Callers, BuildTx(c)
    PROVE  MoneyInv'
  <1>1. UNCHANGED <<net, utxos, txns, job>> /\ pc' = [pc EXCEPT ![c] = "built"]
    BY DEF BuildTx, server, store
  <1>2. pc[c] # "idle" /\ tx[c] \in Transaction
    BY DEF BuildTx, Inv, TypeOK
  <1>3. /\ tx'[c].ins = tx[c].ins /\ tx'[c].pay = tx[c].pay
        /\ tx'[c].change = tx[c].change /\ tx'[c].fee = tx[c].fee
        /\ tx' = [tx EXCEPT ![c] = tx'[c]] /\ pc' = [pc EXCEPT ![c] = pc'[c]]
    <2>1. CASE tx[c].change = 0
      BY <1>1, <2>1 DEF BuildTx, Inv, TypeOK
    <2>2. CASE tx[c].change # 0
      <3>1. PICK k \in Key : tx' = [tx EXCEPT ![c].key = k]
        BY <2>2 DEF BuildTx
      <3>2. tx'[c] = [tx[c] EXCEPT !.key = k] /\ tx' = [tx EXCEPT ![c] = tx'[c]]
        BY <3>1 DEF Inv, TypeOK
      <3> QED BY <1>1, <1>2, <3>2 DEF Transaction, Inv, TypeOK
    <2> QED BY <2>1, <2>2
  <1>4. Balanced(tx'[c])
    BY <1>2, <1>3 DEF MoneyInv, AllBalanced, Balanced
  <1> QED BY <1>1, <1>3, <1>4, CallMoney

LEMMA NotBroadcastMoney ==
    ASSUME Inv, MoneyInv, NEW c \in Callers, NotBroadcast(c)
    PROVE  MoneyInv'
  <1>1. UNCHANGED <<net, utxos, txns, job>> /\ Forget(c)
    BY DEF NotBroadcast, server, store
  <1>2. /\ pc' = [pc EXCEPT ![c] = pc'[c]] /\ tx' = [tx EXCEPT ![c] = tx'[c]]
        /\ pc'[c] = "idle"
    BY <1>1 DEF Forget, Inv, TypeOK
  <1> QED BY <1>1, <1>2, CallMoney

LEMMA FreezeMoney ==
    ASSUME Inv, MoneyInv, NEW o \in Coin, FreezeUTXO(o) \/ UnFreezeUTXO(o)
    PROVE  MoneyInv'
  <1>1. /\ UNCHANGED <<net, txns, job, pc, tx>>
        /\ o \in DOMAIN utxos /\ DOMAIN utxos' = DOMAIN utxos
        /\ \A u \in DOMAIN utxos \ {o} : utxos'[u] = utxos[u]
        /\ \E b \in BOOLEAN : utxos'[o] = [utxos[o] EXCEPT !.frozen = b]
    BY DEF FreezeUTXO, UnFreezeUTXO, server, call
  <1>2. \A u \in DOMAIN utxos : utxos'[u].value = utxos[u].value
    BY <1>1 DEF Inv, TypeOK, Utxo
  <1>3. Taken' = Taken /\ \A i : Put(i)' => Put(i)
    BY <1>1 DEF Taken, Put, Stored, Active
  <1> QED BY <1>1, <1>2, <1>3, QuietStep DEF MoneyInv, AllBalanced

LEMMA SpendInputsMoney ==
    ASSUME Inv, MoneyInv, SpendInputs
    PROVE  MoneyInv'
  <1>1. /\ UNCHANGED <<net, txns, pc, tx>>
        /\ job.step = "inputs" /\ job' = [job EXCEPT !.step = "commit"]
        /\ utxos' = [o \in DOMAIN utxos \ net[job.tx].tx.ins |-> utxos[o]]
    BY DEF SpendInputs, server, call
  <1>2. Taken' = Taken /\ job.tx \in Taken /\ job'.tx = job.tx
    BY <1>1 DEF Taken, Inv, Working, Active, TypeOK
  <1>3. \A i : Put(i)' => Put(i)
    BY <1>1, <1>2 DEF Put, Stored, Active
  <1>4. \A o \in DOMAIN utxos \ DOMAIN utxos' : Spent(o)
    BY <1>1, <1>2 DEF Spent
  <1> QED BY <1>1, <1>2, <1>3, <1>4, QuietStep DEF MoneyInv, AllBalanced

LEMMA PutTxnMoney ==
    ASSUME Inv, MoneyInv, PutTxn
    PROVE  MoneyInv'
  <1>1. /\ UNCHANGED <<net, utxos, pc, tx>>
        /\ job.step = "commit" /\ job' = Idle /\ txns' = [txns EXCEPT ![job.tx] = job.height]
    BY DEF PutTxn, server, call
  <1>2. Taken' = Taken /\ Active /\ ~Active'
    BY <1>1 DEF Taken, Active, Idle
  <1>3. \A i \in Taken : Put(i)' => Put(i)
    BY <1>1, <1>2, Numbers DEF Put, Stored, Inv, TypeOK
  <1> QED BY <1>1, <1>2, <1>3, QuietStep DEF MoneyInv, AllBalanced

\* The change that is put is worth what the payment says.
LEMMA PutOutputsMoney ==
    ASSUME Inv, MoneyInv, NEW i \in Payment, PutOutputs(i)
    PROVE  MoneyInv'
  <1> DEFINE o1 == ChangeOf(i)
  <1>1. /\ UNCHANGED <<net, txns, pc, tx>> /\ i \in Taken
        /\ job' = [tx |-> i, height |-> net[i].height, step |-> "inputs"]
    BY DEF PutOutputs, server, call
  <1>2. /\ \A o \in DOMAIN utxos : o \in DOMAIN utxos'
        /\ \A o \in DOMAIN utxos' \ {o1} : o \in DOMAIN utxos /\ utxos'[o] = utxos[o]
        /\ PaysUs(i) => o1 \in DOMAIN utxos' /\ utxos'[o1] = ChangeCoin(i)
        /\ ~PaysUs(i) => utxos' = utxos
    BY DEF PutOutputs
  <1>3. Taken' = Taken /\ \A j : Put(j)' => Put(j) \/ j = i
    BY <1>1 DEF Taken, Put, Stored, Active
  <1>4. /\ Worths' = Worths /\ Unspent' = Unspent
    BY <1>1, <1>3, SameWorths
  <1>5. o1 \in Coin /\ Worths[o1] = net[i].tx.change /\ o1 = N + i /\ o1 - N = i
    <2>1. N \in Nat /\ i \in Nat /\ i >= 1 /\ o1 \in Coin
      BY Numbers DEF Inv, Payment
    <2>2. o1 - N = i /\ ~(o1 <= N)
      BY <2>1 DEF ChangeOf
    <2> QED BY <1>1, <2>1, <2>2 DEF Worths, Worth, ChangeOf
  <1> HIDE DEF o1
  <1>6. ValuesRight'
    <2> SUFFICES ASSUME NEW o \in DOMAIN utxos'
                 PROVE  utxos'[o].value = Worths[o] /\ (o > N => o - N \in Taken)
      BY <1>3, <1>4 DEF ValuesRight
    <2>1. CASE o = o1 /\ PaysUs(i)
      BY <1>1, <1>2, <1>5, <2>1 DEF ChangeCoin
    <2>2. CASE o # o1 \/ ~PaysUs(i)
      BY <1>2, <2>2 DEF MoneyInv, ValuesRight
    <2> QED BY <2>1, <2>2
  <1>7. NoneLost'
    <2> SUFFICES ASSUME NEW o \in Unspent \ DOMAIN utxos'
                 PROVE  o > N /\ (o - N \in Taken /\ Put(o - N)' => net[o - N].tx.change = 0)
      BY <1>1, <1>3, <1>4 DEF NoneLost
    <2>1. o \in Unspent \ DOMAIN utxos
      BY <1>2
    <2>2. o > N /\ (o - N \in Taken /\ Put(o - N) => net[o - N].tx.change = 0)
      BY <2>1 DEF MoneyInv, NoneLost
    <2>3. ASSUME o - N = i PROVE net[i].tx.change = 0
      <3>1. o = o1
        BY <1>5, <2>3, Numbers DEF Unspent, Coin, Inv, Payment
      <3> QED BY <1>2, <3>1 DEF PaysUs
    <2> QED BY <1>3, <2>2, <2>3
  <1> QED BY <1>1, <1>3, <1>6, <1>7, QuietStep DEF MoneyInv, AllBalanced

\* The server takes a transaction: what went in is what it paid and its change.
LEMMA BroadcastMoney ==
    ASSUME Inv, MoneyInv, NEW c \in Callers, Broadcast(c)
    PROVE  MoneyInv'
  <1>0. PICK new \in Nat : new = Len(net) + 1
    BY Numbers DEF Inv
  <1> DEFINE o1 == N + new
             t == tx[c]
             kept1 == Unspent \ t.ins
  <1>1. /\ Forget(c) /\ UNCHANGED <<utxos, txns, job>> /\ pc[c] = "built"
        /\ Accepts(t)
    BY DEF Broadcast, store
  <1>2. /\ Taken' = Taken \cup {new} /\ new \notin Taken /\ new \in Payment
        /\ \A i \in Taken : net'[i] = net[i]
        /\ net'[new].tx = t
    <2>1. [tx |-> tx[c], height |-> 0] \in Entry
      BY Numbers DEF Inv, TypeOK, Entry
    <2>2. net' = Append(net, [tx |-> tx[c], height |-> 0]) /\ Len(net) < MaxPayments
      BY DEF Broadcast
    <2>3. net \in Seq(Entry) /\ Len(net) \in Nat /\ Taken = 1..Len(net) /\ MaxPayments \in Nat
      BY Numbers DEF Inv
    <2>4. /\ Len(net') = Len(net) + 1
          /\ \A i \in 1..Len(net) : net'[i] = net[i]
          /\ net'[new] = [tx |-> tx[c], height |-> 0]
      BY <1>0, <2>1, <2>2, <2>3
    <2>5. Taken' = 1..(Len(net) + 1)
      BY <2>1, <2>2, <2>3 DEF Taken
    <2> QED BY <1>0, <2>2, <2>3, <2>4, <2>5 DEF Payment
  <1>3. /\ N \in Nat /\ new \in Nat /\ o1 \in Coin /\ o1 = ChangeOf(new)
        /\ o1 > N /\ ~(o1 <= N) /\ o1 - N = new /\ \A o \in Coin : o - N = new => o = o1
    BY <1>2, Numbers DEF Inv, ChangeOf, Coin, Payment
  <1> HIDE DEF o1
  <1>4. ~Final(new) /\ ~Offered(o1)
    <2>1. ~Final(new)
      <3>1. new \notin Stored /\ (Active => job.tx # new)
        BY <1>2 DEF Inv, Working
      <3>2. txns[new] = None
        BY <1>2, <3>1 DEF Stored
      <3> QED BY <3>1, <3>2 DEF Final, None
    <2> QED BY <1>2, <1>3, <2>1 DEF Inv, PutOnce
  <1>5. /\ o1 \notin t.ins /\ o1 \in Unspent
        /\ \A d \in Callers : o1 \notin tx[d].ins
    BY <1>3, <1>4 DEF Offered, Unspent, Spent
  <1>6. /\ t \in Transaction /\ t.ins \in SUBSET Coin /\ t.ins \in SUBSET Unspent
        /\ t.pay \in Nat /\ t.change \in Nat /\ t.fee \in Nat
    <2>1. t \in Transaction
      BY DEF Inv, TypeOK
    <2>2. t.ins \in SUBSET Coin
      BY <2>1 DEF Transaction
    <2>3. t.ins \in SUBSET Unspent
      BY <1>1, <2>2 DEF Accepts, Unspent
    <2> QED BY <2>1, <2>2, <2>3, AmountsNat
  <1>7. /\ \A o \in Coin : Spent(o)' <=> Spent(o) \/ o \in t.ins
        /\ Unspent' = kept1
    BY <1>2 DEF Spent, Unspent
  <1>8. /\ \A o \in Coin \ {o1} : Worths'[o] = Worths[o]
        /\ Worths[o1] = 0 /\ Worths'[o1] = t.change
    <2>1. \A o \in Coin \ {o1} : Worth(o)' = Worth(o)
      <3> SUFFICES ASSUME NEW o \in Coin \ {o1} PROVE Worth(o)' = Worth(o)
        OBVIOUS
      <3>1. o - N # new
        BY <1>3
      <3> QED BY <1>2, <3>1 DEF Worth
    <2>2. Worth(o1) = 0 /\ Worth(o1)' = t.change
      <3>1. ~(o1 <= N) /\ o1 - N = new /\ new \notin Taken /\ new \in Taken'
        BY <1>2, <1>3
      <3>2. Worth(o1) = 0
        BY <3>1 DEF Worth
      <3>3. Worth(o1)' = net'[new].tx.change
        BY <3>1 DEF Worth
      <3> QED BY <1>2, <3>2, <3>3
    <2>3. \A o \in Coin : Worths[o] = Worth(o) /\ Worths'[o] = Worth(o)'
      BY DEF Worths
    <2> QED BY <1>3, <2>1, <2>2, <2>3
  <1> HIDE DEF t
  <1>9. AllBalanced'
    <2> SUFFICES ASSUME NEW d \in Callers, pc'[d] # "idle" PROVE Balanced(tx[d])'
      BY DEF AllBalanced
    <2>1. pc[d] # "idle" /\ tx'[d] = tx[d] /\ tx[d].ins \in SUBSET Coin /\ o1 \notin tx[d].ins
      BY <1>1, <1>5, Forgotten DEF Inv, TypeOK, Transaction
    <2>2. \A o \in tx[d].ins : Worths'[o] = Worths[o]
      BY <1>8, <2>1
    <2>3. SumFunctionOnSet(Worths', tx[d].ins) = SumFunctionOnSet(Worths, tx[d].ins)
      BY <2>1, <2>2, SumEqual, CoinsFinite DEF Inv
    <2> QED BY <2>1, <2>3 DEF Balanced, MoneyInv, AllBalanced
  <1>10. ValuesRight'
    <2>1. o1 \notin DOMAIN utxos
      BY <1>2, <1>3 DEF MoneyInv, ValuesRight
    <2> QED BY <1>1, <1>2, <1>8, <2>1 DEF MoneyInv, ValuesRight, Inv, TypeOK
  <1>11. NoneLost'
    <2>1. ~Put(new) /\ \A i : Put(i)' <=> Put(i)
      BY <1>1, <1>2 DEF Put, Stored, Active, Inv, Working
    <2> SUFFICES ASSUME NEW o \in Unspent \ DOMAIN utxos
                 PROVE  o > N /\ (o - N \in Taken' /\ Put(o - N) => net'[o - N].tx.change = 0)
      BY <1>1, <1>7, <2>1 DEF NoneLost
    <2> QED BY <1>2, <2>1 DEF MoneyInv, NoneLost
  <1>12. Conserved'
    <2> DEFINE r == kept1 \ {o1}
    <2>1. /\ IsFiniteSet(Unspent) /\ IsFiniteSet(t.ins) /\ IsFiniteSet(kept1) /\ IsFiniteSet(r)
          /\ Unspent \in SUBSET Coin /\ kept1 \in SUBSET Coin /\ r \in SUBSET Coin
          /\ o1 \in kept1
      BY <1>5, <1>6, CoinsFinite DEF Inv, Unspent
    <2>2. SumFunctionOnSet(Worths, Unspent) =
            SumFunctionOnSet(Worths, t.ins) + SumFunctionOnSet(Worths, kept1)
      BY <1>6, <2>1, SumSplit, WorthsNat DEF Inv
    <2>3. SumFunctionOnSet(Worths, t.ins) = t.pay + t.change + t.fee
      BY <1>1 DEF MoneyInv, AllBalanced, Balanced, t
    <2> HIDE DEF kept1
    <2>4. SumFunctionOnSet(Worths, kept1) = 0 + SumFunctionOnSet(Worths, r)
      BY <1>8, <2>1, SumOut, WorthsNat DEF Inv
    <2>5. \A o \in Coin : Worths'[o] \in Nat
      BY <1>6, <1>8, WorthsNat DEF Inv
    <2>6. SumFunctionOnSet(Worths', kept1) = t.change + SumFunctionOnSet(Worths', r)
      BY <1>8, <2>1, <2>5, SumOut
    <2> HIDE DEF r
    <2>7. /\ SumFunctionOnSet(Worths', r) = SumFunctionOnSet(Worths, r)
          /\ SumFunctionOnSet(Worths, r) \in Nat
      BY <1>8, <2>1, SumEqual, SumNat, WorthsNat DEF Inv, r
    <2>8. Paid' = t.pay + t.fee + Paid /\ Paid \in Nat
      <3> DEFINE f == [i \in Taken |-> net[i].tx.pay + net[i].tx.fee]
      <3>1. \A i \in Taken : net[i].tx.pay \in Nat /\ net[i].tx.fee \in Nat
        BY Numbers, AmountsNat DEF Inv, Entry
      <3>2. /\ DOMAIN f = Taken /\ \A i \in Taken : f[i] \in Nat /\ f'[i] = f[i]
            /\ f'[new] = t.pay + t.fee
        BY <1>2, <3>1
      <3>3. Paid = SumFunctionOnSet(f, Taken) /\ Paid' = SumFunctionOnSet(f', Taken')
        BY DEF Paid
      <3> HIDE DEF f
      <3>4. /\ IsFiniteSet(Taken) /\ IsFiniteSet(Taken')
            /\ new \in Taken' /\ Taken' \ {new} = Taken
        BY <1>2, CoinsFinite, FS_AddElement DEF Inv
      <3>5. \A i \in Taken' : f'[i] \in Nat
        BY <1>2, <1>6, <3>2
      <3>6. SumFunctionOnSet(f', Taken') = f'[new] + SumFunctionOnSet(f', Taken' \ {new})
        BY <3>4, <3>5, SumOut, ZenonT(40)
      <3>7. SumFunctionOnSet(f', Taken) = SumFunctionOnSet(f, Taken)
        BY <3>2, <3>4, SumEqual
      <3>8. SumFunctionOnSet(f, Taken) \in Nat
        BY <3>2, <3>4, SumNat
      <3> QED BY <3>2, <3>3, <3>4, <3>6, <3>7, <3>8
    <2>9. MaxValue = SumFunctionOnSet(Worths, Unspent) + Paid
      BY DEF MoneyInv, Conserved
    <2>10. SumFunctionOnSet(Worths', Unspent') + Paid' = MaxValue
      BY <1>6, <1>7, <2>2, <2>3, <2>4, <2>6, <2>7, <2>8, <2>9
    <2> QED BY <2>10 DEF Conserved, MaxValue, N
  <1> QED BY <1>9, <1>10, <1>11, <1>12 DEF MoneyInv

LEMMA NextMoney == Inv /\ MoneyInv /\ [Next]_vars => MoneyInv'
  <1> SUFFICES ASSUME Inv, MoneyInv, [Next]_vars PROVE MoneyInv'
    OBVIOUS
  <1>1. ASSUME NEW c \in Callers, Call(c) PROVE MoneyInv'
    BY <1>1, SpendMoney, BuildTxMoney, SignMoney, BroadcastMoney, NotBroadcastMoney DEF Call
  <1>2. CASE AddTransaction
    BY <1>2, SpendInputsMoney, PutTxnMoney, PutOutputsMoney DEF AddTransaction
  <1>3. ASSUME NEW o \in Coin, FreezeUTXO(o) \/ UnFreezeUTXO(o) PROVE MoneyInv'
    BY <1>3, FreezeMoney
  <1>4. ASSUME NEW M \in SUBSET Taken, Mine(M) PROVE MoneyInv'
    BY <1>4, MineMoney
  <1>5. CASE UNCHANGED vars
    <2>1. UNCHANGED <<net, utxos, txns, job, pc, tx>>
      BY <1>5 DEF vars, server, store, call
    <2>2. Taken' = Taken /\ \A i : Put(i)' => Put(i)
      BY <2>1 DEF Taken, Put, Stored, Active
    <2> QED BY <2>1, <2>2, QuietStep DEF MoneyInv, AllBalanced
  <1> QED BY <1>1, <1>2, <1>3, <1>4, <1>5 DEF Next

\* When all is settled the coins nobody has spent are in the wallet, or worth
\* nothing.
LEMMA SettledAddsUp ==
    ASSUME Inv, MoneyInv
    PROVE  BalanceAddsUp
  <1> SUFFICES ASSUME Settled PROVE Total(DOMAIN utxos) + Paid = MaxValue
    BY DEF BalanceAddsUp
  <1>1. Taken \subseteq Stored
    BY Numbers DEF Settled, Stored, None, Inv
  <1>2. DOMAIN utxos \in SUBSET Unspent
    BY <1>1 DEF Inv, TypeOK, NoneBack, Done, Unspent, Spent
  <1> DEFINE missing == Unspent \ DOMAIN utxos
  <1>3. \A o \in missing : Worths[o] = 0
    <2> SUFFICES ASSUME NEW o \in missing PROVE Worth(o) = 0
      BY DEF Worths, Unspent
    <2>1. o > N /\ (o - N \in Taken => net[o - N].tx.change = 0)
      BY <1>1 DEF MoneyInv, NoneLost, Put
    <2>2. o \in Nat /\ N \in Nat
      BY Numbers DEF Inv, Unspent, Coin
    <2> QED BY <2>1, <2>2 DEF Worth
  <1>4. Unspent \in SUBSET Coin /\ IsFiniteSet(Unspent) /\ IsFiniteSet(missing)
    BY CoinsFinite DEF Inv, Unspent
  <1>5. SumFunctionOnSet(Worths, Unspent) =
          SumFunctionOnSet(Worths, DOMAIN utxos) + SumFunctionOnSet(Worths, missing)
    BY <1>2, <1>4, SumSplit, WorthsNat DEF Inv
  <1> HIDE DEF missing
  <1>6. SumFunctionOnSet(Worths, missing) = 0
    BY <1>3, <1>4, SumZero
  <1>7. /\ Total(DOMAIN utxos) = SumFunctionOnSet(Worths, DOMAIN utxos)
        /\ Total(DOMAIN utxos) \in Nat
    BY TotalIsWorth DEF Inv, MoneyInv
  <1> QED BY <1>5, <1>6, <1>7 DEF MoneyInv, Conserved

-----------------------------------------------------------------------------
(* Theorems. *)

\* Coins, transactions and calls keep their types: in particular change that the
\* wallet takes for its own has a key.
THEOREM TypeCorrect == Spec => []TypeOK
  BY Invariance, PTL DEF Inv

\* A payment the server will refuse has a rival that the wallet did not know when
\* it offered the coins.
THEOREM RivalsUnknown == Spec => []RivalUnknown
  BY Invariance, PTL DEF Inv

\* Spend never offers a confirmed coin that a user has frozen.
THEOREM FrozenStays == Spec => []FrozenNotSpent
  BY Invariance, PTL DEF Inv

\* Change goes to a key that no payment stored by then has paid its change to.
THEOREM NewChangeKey == Spec => ChangeToNewKey
  <1> DEFINE Fresh == \A c \in Callers : BuildTx(c) =>
          \A i \in Stored : net[i].tx.key # None => tx'[c].key # net[i].tx.key
  <1>1. Inv => Fresh
    <2> SUFFICES ASSUME Inv, NEW c \in Callers, BuildTx(c), NEW i \in Stored,
                        net[i].tx.key # None
                 PROVE  tx'[c].key # net[i].tx.key
      OBVIOUS
    <2>1. net[i].tx.key \in used
      BY DEF Inv, KeysKnown, Keyed, Working
    <2>2. CASE tx[c].change = 0
      BY <2>2 DEF BuildTx, Inv, KeysKnown
    <2>3. CASE tx[c].change # 0
      <3>1. PICK k \in Key : Unused(k) /\ tx' = [tx EXCEPT ![c].key = k]
        BY <2>3 DEF BuildTx
      <3>2. tx'[c].key = k
        BY <3>1 DEF Inv, TypeOK, Transaction
      <3> QED BY <2>1, <3>1, <3>2 DEF Unused
    <2> QED BY <2>2, <2>3
  <1>2. Inv => [Fresh]_vars
    BY <1>1
  <1>3. Spec => [][Fresh]_vars
    BY <1>2, Invariance, PTL
  <1> QED BY <1>3 DEF ChangeToNewKey

\* Once every payment is stored as confirmed, what is in the wallet is what was
\* there less what the payments paid, for any coins, payments and callers.
THEOREM BalanceRight == Spec => []BalanceAddsUp
  <1>1. Init /\ [][Next]_vars => [](Inv /\ MoneyInv)
    <2>1. Init => Inv /\ MoneyInv
      BY InitInv, InitMoney
    <2>2. Inv /\ MoneyInv /\ [Next]_vars => (Inv /\ MoneyInv)'
      BY NextInv, NextMoney
    <2> QED BY <2>1, <2>2, PTL
  <1>2. Inv /\ MoneyInv => BalanceAddsUp
    BY SettledAddsUp
  <1> QED BY <1>1, <1>2, PTL DEF Spec

-----------------------------------------------------------------------------
(* Import and sweep of other wallets' keys, next to the payments. *)

Imported == UNION {W!ToSet(ks) : ks \in ImportLists}

SweepType ==
    /\ unspent \subseteq W!Coin /\ always \subseteq unspent
    /\ keys \in Seq(Imported) /\ found \in Seq(W!Coin) /\ inputs \in Seq(W!Coin)
    /\ importing \in {"pkh", "wpkh"} => keys # <<>>

\* A key is swept whole: its coins that were never spent are among the inputs once
\* it is answered, and no coin of another key.
Whole ==
    /\ \A o \in always : Coins[o].key \in answered => o \in W!ToSet(inputs)
    /\ \A i \in DOMAIN inputs : Coins[inputs[i]].key \in answered

\* Between the two requests of a key the answer of the first is at hand.
HalfWay ==
    importing = "wpkh" =>
        /\ W!IsInjective(found)
        /\ \A i \in DOMAIN found : Coins[found[i]].key = Head(keys) /\ ~Coins[found[i]].witness
        /\ \A o \in always : Coins[o].key = Head(keys) /\ ~Coins[o].witness
                               => o \in W!ToSet(found)

\* Of a list without repetition no key is left that was answered.
OnceEach ==
    W!IsInjective(list) =>
        /\ W!IsInjective(keys) /\ W!IsInjective(inputs)
        /\ \A i \in DOMAIN keys : keys[i] \notin answered

\* What was signed is the sweep of the inputs.
SignedFee ==
    importing = "signed" =>
        /\ swept.fee = W!FeeForSerializeSize(W!TxSerialSizeEst(Len(inputs)))
        /\ swept.out = W!TotalValue - swept.fee

SweepInv == SweepType /\ Whole /\ HalfWay /\ OnceEach /\ SignedFee

\* What the instance takes from the library is what is used here.
LEMMA SameOperators ==
    ASSUME NEW S
    PROVE  /\ W!IsFiniteSet(S) <=> IsFiniteSet(S)
           /\ W!Cardinality(S) = Cardinality(S)
  <1>1. W!IsFiniteSet(S) <=> IsFiniteSet(S)
    BY Zenon DEF W!IsFiniteSet, IsFiniteSet
  <1>2. W!Cardinality(S) = Cardinality(S)
    BY Zenon DEF W!Cardinality, Cardinality
  <1> QED BY <1>1, <1>2

LEMMA CountTo ==
    ASSUME NEW n \in Nat
    PROVE  IsFiniteSet(1..n) /\ Cardinality(1..n) = n
  <1>1. 1 \in Int /\ n \in Int
    OBVIOUS
  <1>2. IsFiniteSet(1..n) /\ Cardinality(1..n) = IF 1 > n THEN 0 ELSE n - 1 + 1
    BY <1>1, FS_Interval
  <1> QED BY <1>2

\* What comes from the server: each unspent coin of the address once.
LEMMA Listed ==
    ASSUME W!WellFormed, unspent \subseteq W!Coin, NEW k, NEW b \in BOOLEAN,
           NEW s \in W!ListUnspent(k, b)
    PROVE  /\ s \in Seq(W!Coin) /\ W!IsInjective(s)
           /\ W!ToSet(s) = {o \in unspent : Coins[o].key = k /\ Coins[o].witness = b}
  <1> DEFINE S == {o \in unspent : Coins[o].key = k /\ Coins[o].witness = b}
             D == 1..Cardinality(S)
  <1>1. IsFiniteSet(S) /\ S \subseteq W!Coin
    BY FS_Subset, SameOperators DEF W!WellFormed
  <1>2. Cardinality(S) \in Nat /\ IsFiniteSet(D) /\ Cardinality(D) = Cardinality(S)
    <2> HIDE DEF S
    <2>1. Cardinality(S) \in Nat
      BY <1>1, FS_CardinalityType
    <2> QED BY <2>1, CountTo
  <1>3. s \in [D -> S] /\ \A i, j \in D : i # j => s[i] # s[j]
    <2>1. W!Cardinality(S) = Cardinality(S)
      BY SameOperators
    <2> QED BY <2>1 DEF W!ListUnspent, W!SetToSeqs
  <1> HIDE DEF S
  <1>4. s \in Seq(W!Coin)
    BY <1>1, <1>2, <1>3
  <1>5. s \in Injection(D, S)
    BY <1>3 DEF Injection, IsInjective
  <1>6. s \in Surjection(D, S)
    BY <1>1, <1>2, <1>5, FS_Injection
  <1>7. W!ToSet(s) = S
    BY <1>3, <1>6 DEF Surjection, W!ToSet
  <1> QED BY <1>3, <1>4, <1>7 DEF W!IsInjective, S

LEMMA Joined ==
    ASSUME NEW C, NEW s \in Seq(C), NEW t \in Seq(C)
    PROVE  /\ s \o t \in Seq(C)
           /\ W!ToSet(s \o t) = W!ToSet(s) \cup W!ToSet(t)
           /\ W!IsInjective(s) /\ W!IsInjective(t) /\ W!ToSet(s) \cap W!ToSet(t) = {}
                => W!IsInjective(s \o t)
  <1> DEFINE u == s \o t
  <1>1. /\ u \in Seq(C) /\ Len(u) = Len(s) + Len(t) /\ DOMAIN u = 1..(Len(s) + Len(t))
        /\ \A i \in 1..(Len(s) + Len(t)) : u[i] = IF i <= Len(s) THEN s[i] ELSE t[i - Len(s)]
        /\ Len(s) \in Nat /\ Len(t) \in Nat /\ DOMAIN s = 1..Len(s) /\ DOMAIN t = 1..Len(t)
    OBVIOUS
  <1> HIDE DEF u
  <1>2. /\ \A i \in DOMAIN s : i \in DOMAIN u /\ u[i] = s[i]
        /\ \A i \in DOMAIN t : Len(s) + i \in DOMAIN u /\ u[Len(s) + i] = t[i]
        /\ \A i \in DOMAIN u : \/ i \in DOMAIN s /\ u[i] = s[i]
                               \/ /\ i - Len(s) \in DOMAIN t /\ u[i] = t[i - Len(s)]
                                  /\ i > Len(s)
    <2>1. \A i \in DOMAIN s : i \in DOMAIN u /\ u[i] = s[i]
      BY <1>1
    <2>2. \A i \in DOMAIN t : Len(s) + i \in DOMAIN u /\ u[Len(s) + i] = t[i]
      <3> SUFFICES ASSUME NEW i \in DOMAIN t
                   PROVE  Len(s) + i \in DOMAIN u /\ u[Len(s) + i] = t[i]
        OBVIOUS
      <3>1. /\ Len(s) + i \in 1..(Len(s) + Len(t)) /\ ~(Len(s) + i <= Len(s))
            /\ (Len(s) + i) - Len(s) = i
        BY <1>1
      <3> QED BY <1>1, <3>1
    <2>3. ASSUME NEW i \in DOMAIN u
          PROVE  \/ i \in DOMAIN s /\ u[i] = s[i]
                 \/ /\ i - Len(s) \in DOMAIN t /\ u[i] = t[i - Len(s)]
                    /\ i > Len(s)
      BY <1>1
    <2> QED BY <2>1, <2>2, <2>3
  <1>3. W!ToSet(u) = W!ToSet(s) \cup W!ToSet(t)
    BY <1>2 DEF W!ToSet
  <1>4. ASSUME W!IsInjective(s), W!IsInjective(t), W!ToSet(s) \cap W!ToSet(t) = {},
               NEW i \in DOMAIN u, NEW j \in DOMAIN u, u[i] = u[j]
        PROVE  i = j
    <2>1. \A a \in DOMAIN s, b \in DOMAIN t : s[a] # t[b]
      BY <1>4 DEF W!ToSet
    <2>2. i \in Int /\ j \in Int /\ Len(s) \in Int
      BY <1>1
    <2>3. (i \in DOMAIN s <=> j \in DOMAIN s)
      BY <1>1, <1>2, <1>4, <2>1
    <2>4. CASE i \in DOMAIN s
      BY <1>2, <1>4, <2>3, <2>4 DEF W!IsInjective
    <2>5. CASE i \notin DOMAIN s
      <3>1. i - Len(s) = j - Len(s)
        BY <1>2, <1>4, <2>3, <2>5 DEF W!IsInjective
      <3> QED BY <2>2, <3>1
    <2> QED BY <2>4, <2>5
  <1> QED BY <1>1, <1>3, <1>4 DEF W!IsInjective, u

\* The list without its first key.
LEMMA Rest ==
    ASSUME NEW C, NEW s \in Seq(C), s # <<>>
    PROVE  /\ Tail(s) \in Seq(C) /\ 1 \in DOMAIN s /\ Head(s) = s[1]
           /\ \A i \in DOMAIN Tail(s) : i + 1 \in DOMAIN s /\ i + 1 # 1 /\ Tail(s)[i] = s[i + 1]
           /\ W!IsInjective(s) => W!IsInjective(Tail(s))
  <1>1. /\ Tail(s) \in Seq(C) /\ 1 \in DOMAIN s /\ Head(s) = s[1]
        /\ \A i \in DOMAIN Tail(s) : i + 1 \in DOMAIN s /\ i + 1 # 1 /\ Tail(s)[i] = s[i + 1]
        /\ \A i \in DOMAIN Tail(s) : i \in Int
    OBVIOUS
  <1>2. ASSUME W!IsInjective(s), NEW i \in DOMAIN Tail(s), NEW j \in DOMAIN Tail(s),
               Tail(s)[i] = Tail(s)[j]
        PROVE  i = j
    <2>1. i + 1 = j + 1
      BY <1>1, <1>2 DEF W!IsInjective
    <2> QED BY <1>1, <2>1
  <1> QED BY <1>1, <1>2 DEF W!IsInjective

-----------------------------------------------------------------------------
(* The sweep, one lemma per action. *)

LEMMA SweepInit == W!Init => SweepInv
  <1> SUFFICES ASSUME W!Init PROVE SweepInv
    OBVIOUS
  <1> QED BY DEF W!Init, SweepInv, SweepType, Whole, HalfWay, OnceEach, SignedFee,
                 W!IsInjective

\* Coins come and go: what was never spent can only get less.
LEMMA ServerSweep ==
    ASSUME SweepInv, NEW o \in W!Coin, W!Spend(o) \/ W!Receive(o)
    PROVE  SweepInv'
  <1>1. /\ UNCHANGED <<importing, keys, found, inputs, swept, answered, list>>
        /\ always' \subseteq always /\ always' \subseteq unspent' /\ unspent' \subseteq W!Coin
    BY DEF W!Spend, W!Receive, W!history, SweepInv, SweepType
  <1>2. SweepType'
    BY <1>1 DEF SweepInv, SweepType
  <1>3. Whole' /\ HalfWay'
    BY <1>1 DEF SweepInv, Whole, HalfWay
  <1>4. OnceEach' /\ SignedFee'
    BY <1>1 DEF SweepInv, OnceEach, SignedFee, W!TotalValue
  <1> QED BY <1>2, <1>3, <1>4 DEF SweepInv

LEMMA ImportAndSweepSweep ==
    ASSUME W!WellFormed, SweepInv, NEW ks \in ImportLists, W!ImportAndSweep(ks)
    PROVE  SweepInv'
  <1>1. /\ keys' = ks /\ list' = ks /\ importing' \in {"error", "next"}
        /\ found' = <<>> /\ inputs' = <<>> /\ answered' = {} /\ always' = unspent
        /\ unspent' = unspent
    BY DEF W!ImportAndSweep
  <1>2. ks \in Seq(Imported)
    <2>1. ks \in Seq(W!ToSet(ks)) /\ W!ToSet(ks) \subseteq Imported
      BY DEF W!WellFormed, Imported
    <2> QED BY <2>1
  <1>3. SweepType'
    BY <1>1, <1>2 DEF SweepInv, SweepType
  <1>4. Whole' /\ HalfWay' /\ OnceEach' /\ SignedFee'
    BY <1>1 DEF Whole, HalfWay, OnceEach, SignedFee, W!IsInjective
  <1> QED BY <1>3, <1>4 DEF SweepInv

\* A key is left out, for it is no key or a request failed.
LEMMA DropKey ==
    ASSUME SweepInv, keys # <<>>, keys' = Tail(keys), importing' = "next",
           found' \in Seq(W!Coin), UNCHANGED <<unspent, inputs, answered, always, list>>
    PROVE  SweepInv'
  <1>1. keys \in Seq(Imported)
    BY DEF SweepInv, SweepType
  <1>2. SweepType'
    BY <1>1, Rest DEF SweepInv, SweepType
  <1>3. Whole' /\ HalfWay' /\ SignedFee'
    BY DEF SweepInv, Whole, HalfWay, SignedFee
  <1>4. OnceEach'
    BY <1>1, Rest DEF SweepInv, OnceEach
  <1> QED BY <1>2, <1>3, <1>4 DEF SweepInv

LEMMA SkipKeySweep == ASSUME SweepInv, W!SkipKey PROVE SweepInv'
  BY DropKey DEF W!SkipKey, W!history, SweepInv, SweepType

LEMMA NextKeySweep == ASSUME SweepInv, W!NextKey PROVE SweepInv'
  <1>1. keys # <<>> /\ UNCHANGED <<unspent, inputs, swept, answered, always, list>> /\ found' = <<>>
    BY DEF W!NextKey, W!history
  <1>2. CASE Head(keys) \in Undecodable
    BY <1>1, <1>2, DropKey DEF W!NextKey
  <1>3. CASE Head(keys) \notin Undecodable
    <2>1. importing' = "pkh" /\ keys' = keys
      BY <1>3 DEF W!NextKey
    <2>2. SweepType'
      BY <1>1, <2>1 DEF SweepInv, SweepType
    <2>3. Whole' /\ HalfWay' /\ OnceEach' /\ SignedFee'
      BY <1>1, <2>1 DEF SweepInv, Whole, HalfWay, OnceEach, SignedFee
    <2> QED BY <2>2, <2>3 DEF SweepInv
  <1> QED BY <1>2, <1>3

LEMMA PubKeyHashSweep ==
    ASSUME W!WellFormed, SweepInv, W!GetPubKeyHashUtxos
    PROVE  SweepInv'
  <1>1. /\ importing = "pkh" /\ importing' = "wpkh" /\ found' \in W!ListUnspent(Head(keys), FALSE)
        /\ UNCHANGED <<unspent, keys, inputs, swept, answered, always, list>>
    BY DEF W!GetPubKeyHashUtxos, W!history
  <1>2. /\ found' \in Seq(W!Coin) /\ W!IsInjective(found')
        /\ W!ToSet(found') =
             {o \in unspent : Coins[o].key = Head(keys) /\ Coins[o].witness = FALSE}
    BY <1>1, Listed DEF SweepInv, SweepType
  <1>3. SweepType'
    BY <1>1, <1>2 DEF SweepInv, SweepType
  <1>4. HalfWay'
    <2>1. \A i \in DOMAIN found' : found'[i] \in W!ToSet(found')
      BY DEF W!ToSet
    <2>2. \A i \in DOMAIN found' : Coins[found'[i]].key = Head(keys) /\ ~Coins[found'[i]].witness
      BY <1>2, <2>1
    <2>3. \A o \in always : ~Coins[o].witness => Coins[o].witness = FALSE
      <3>1. \A o \in always : Coins[o].witness \in BOOLEAN
        BY DEF SweepInv, SweepType, W!WellFormed
      <3> QED BY <3>1, Zenon
    <2>4. \A o \in always : Coins[o].key = Head(keys) /\ ~Coins[o].witness => o \in W!ToSet(found')
      BY <1>2, <2>3, Zenon DEF SweepInv, SweepType
    <2> QED BY <1>1, <1>2, <2>2, <2>4 DEF HalfWay, W!ToSet, W!IsInjective
  <1>5. Whole' /\ OnceEach' /\ SignedFee'
    BY <1>1 DEF SweepInv, Whole, OnceEach, SignedFee
  <1> QED BY <1>3, <1>4, <1>5 DEF SweepInv

\* The second answer completes the key.
LEMMA WitnessSweep ==
    ASSUME W!WellFormed, SweepInv, W!GetWitnessPubKeyHashUtxos
    PROVE  SweepInv'
  <1> DEFINE k == Head(keys)
             both == inputs \o found
  <1>1. PICK more \in W!ListUnspent(k, TRUE) : inputs' = inputs \o found \o more
    BY DEF W!GetWitnessPubKeyHashUtxos
  <1>2. /\ importing = "wpkh" /\ importing' = "next" /\ answered' = answered \cup {k}
        /\ keys' = Tail(keys) /\ UNCHANGED <<unspent, found, swept, always, list>>
    BY DEF W!GetWitnessPubKeyHashUtxos
  <1>3. /\ keys \in Seq(Imported) /\ keys # <<>> /\ found \in Seq(W!Coin) /\ inputs \in Seq(W!Coin)
        /\ \A o \in always : o \in unspent /\ o \in W!Coin /\ Coins[o].witness \in BOOLEAN
    BY <1>2 DEF SweepInv, SweepType, W!WellFormed
  <1>4. /\ more \in Seq(W!Coin) /\ W!IsInjective(more)
        /\ W!ToSet(more) = {o \in unspent : Coins[o].key = k /\ Coins[o].witness = TRUE}
    BY Listed DEF SweepInv, SweepType
  <1> HIDE DEF k
  <1>5. /\ both \in Seq(W!Coin)
        /\ W!ToSet(both) = W!ToSet(inputs) \cup W!ToSet(found)
        /\ W!IsInjective(inputs) /\ W!IsInjective(found) /\ W!ToSet(inputs) \cap W!ToSet(found) = {}
             => W!IsInjective(both)
    BY <1>3, Joined
  <1> HIDE DEF both
  <1>6. /\ inputs' \in Seq(W!Coin)
        /\ W!ToSet(inputs') = W!ToSet(both) \cup W!ToSet(more)
        /\ W!IsInjective(both) /\ W!IsInjective(more) /\ W!ToSet(both) \cap W!ToSet(more) = {}
             => W!IsInjective(inputs')
    <2>1. inputs' = both \o more
      BY <1>1 DEF both
    <2> QED BY <1>4, <1>5, <2>1, Joined
  <1>7. /\ W!IsInjective(found)
        /\ \A o \in W!ToSet(found) : Coins[o].key = k /\ ~Coins[o].witness
        /\ \A o \in always : Coins[o].key = k /\ ~Coins[o].witness => o \in W!ToSet(found)
        /\ \A o \in W!ToSet(inputs) : Coins[o].key \in answered
        /\ \A o \in always : Coins[o].key \in answered => o \in W!ToSet(inputs)
    BY <1>2 DEF SweepInv, HalfWay, Whole, W!ToSet, k
  <1>8. SweepType'
    BY <1>2, <1>3, <1>6, Rest DEF SweepInv, SweepType
  <1>9. Whole'
    <2>1. \A o \in W!ToSet(inputs') : Coins[o].key \in answered'
      BY <1>2, <1>4, <1>5, <1>6, <1>7
    <2>2. \A i \in DOMAIN inputs' : inputs'[i] \in W!ToSet(inputs')
      BY DEF W!ToSet
    <2>3. \A o \in always : Coins[o].key \in answered' => o \in W!ToSet(inputs')
      BY <1>2, <1>3, <1>4, <1>5, <1>6, <1>7
    <2>4. W!ToSet(inputs') = W!ToSet(inputs)'
      BY DEF W!ToSet
    <2> QED BY <1>2, <2>1, <2>2, <2>3, <2>4 DEF Whole
  <1>10. OnceEach'
    <2> SUFFICES ASSUME W!IsInjective(list)
                 PROVE  /\ W!IsInjective(Tail(keys)) /\ W!IsInjective(inputs')
                        /\ \A i \in DOMAIN Tail(keys) : Tail(keys)[i] \notin answered'
      BY <1>2 DEF OnceEach, W!IsInjective
    <2>1. /\ W!IsInjective(keys) /\ W!IsInjective(inputs)
          /\ \A i \in DOMAIN keys : keys[i] \notin answered
      BY DEF SweepInv, OnceEach
    <2>2. k = keys[1] /\ 1 \in DOMAIN keys /\ k \notin answered
      BY <1>3, <2>1, Rest DEF k
    <2>3. \A i \in DOMAIN Tail(keys) : Tail(keys)[i] \notin answered'
      BY <1>2, <1>3, <2>1, <2>2, Rest DEF W!IsInjective
    <2>4. W!ToSet(inputs) \cap W!ToSet(found) = {}
      BY <1>7, <2>2
    <2>5. W!ToSet(both) \cap W!ToSet(more) = {}
      BY <1>4, <1>5, <1>7, <2>2
    <2>6. W!IsInjective(inputs')
      BY <1>4, <1>5, <1>6, <1>7, <2>1, <2>4, <2>5
    <2> QED BY <1>3, <2>1, <2>3, <2>6, Rest
  <1>11. HalfWay' /\ SignedFee'
    BY <1>2 DEF HalfWay, SignedFee
  <1> QED BY <1>8, <1>9, <1>10, <1>11 DEF SweepInv

\* All keys are through: what is left is the transaction.
LEMMA LastStepsSweep ==
    ASSUME SweepInv, W!Collected \/ W!SweepCoins \/ W!NoUnusedAddress
    PROVE  SweepInv'
  <1>1. /\ UNCHANGED <<unspent, keys, found, inputs, answered, always, list>>
        /\ importing' \in {"error", "sweep", "signed"}
        /\ importing' = "signed" =>
             /\ swept'.fee = W!FeeForSerializeSize(W!TxSerialSizeEst(Len(inputs)))
             /\ swept'.out = W!TotalValue - swept'.fee
    BY DEF W!Collected, W!SweepCoins, W!NoUnusedAddress, W!history
  <1>2. SweepType'
    BY <1>1 DEF SweepInv, SweepType
  <1>3. Whole' /\ HalfWay' /\ OnceEach'
    BY <1>1 DEF SweepInv, Whole, HalfWay, OnceEach
  <1>4. SignedFee'
    BY <1>1 DEF SignedFee, W!TotalValue
  <1> QED BY <1>2, <1>3, <1>4 DEF SweepInv

LEMMA SweepNext == W!WellFormed /\ SweepInv /\ [W!Next]_(W!vars) => SweepInv'
  <1> SUFFICES ASSUME W!WellFormed, SweepInv, [W!Next]_(W!vars) PROVE SweepInv'
    OBVIOUS
  <1>1. CASE W!Next
    BY <1>1, ServerSweep, ImportAndSweepSweep, NextKeySweep, PubKeyHashSweep, WitnessSweep,
       SkipKeySweep, LastStepsSweep DEF W!Next
  <1>2. CASE UNCHANGED W!vars
    <2>1. UNCHANGED <<unspent, importing, keys, found, inputs, swept, answered, always, list>>
      BY <1>2 DEF W!vars
    <2>2. SweepType' /\ Whole' /\ HalfWay' /\ OnceEach'
      BY <2>1 DEF SweepInv, SweepType, Whole, HalfWay, OnceEach
    <2>3. SignedFee'
      BY <2>1 DEF SweepInv, SignedFee, W!TotalValue
    <2> QED BY <2>2, <2>3 DEF SweepInv
  <1> QED BY <1>1, <1>2

LEMMA SweepInvariance == W!WellFormed /\ W!Spec => []SweepInv
  <1> SUFFICES ASSUME W!WellFormed PROVE W!Spec => []SweepInv
    OBVIOUS
  <1>1. W!Init => SweepInv
    BY SweepInit
  <1>2. SweepInv /\ [W!Next]_(W!vars) => SweepInv'
    BY SweepNext
  <1> QED BY <1>1, <1>2, PTL DEF W!Spec

\* A sweep takes all the coins of a key that stay, or none of them, and no coin
\* twice, whatever comes and goes at the server and whichever requests fail.
THEOREM SweptWhole == W!WellFormed /\ W!Spec => []SweepComplete
  <1>1. SweepInv => SweepComplete
    BY DEF SweepInv, Whole, OnceEach, SweepComplete, W!SweepComplete, W!ToSet
  <1> QED BY <1>1, SweepInvariance, PTL

\* The fee of a rate of 4 covers a witness, or a signature script, for every input.
LEMMA FeeCovers ==
    ASSUME W!WellFormed, W!RelayRate, NEW n \in Nat, NEW p \in 0..n
    PROVE  W!FeeForSerializeSize(W!TxSerialSizeEst(n)) \in Nat
           /\ W!FeeForSerializeSize(W!TxSerialSizeEst(n)) >=
                W!MinimumTxOverhead + W!P2WPKHOutputSize + p * W!P2PKHInputSize
                + (n - p) * W!InputSize + (2 + p + (n - p) * W!WitnessWeight + 3) \div 4
  <1> DEFINE size == 69 + 41 * n
             m == FeePerByte * size
             q == (5 + p + 109 * (n - p)) \div 4
  <1>1. FeePerByte \in Nat /\ FeePerByte >= 4
    BY DEF W!WellFormed, W!RelayRate
  <1>2. size \in Nat /\ W!TxSerialSizeEst(n) = size
    BY DEF W!TxSerialSizeEst, W!MinimumTxOverhead, W!InputSize, W!WitnessVBytes,
           W!P2WPKHOutputSize
  <1> HIDE DEF size
  <1>3. m \in Nat /\ m >= 4 * size /\ W!FeePerKB * size = 1000 * m
    <2>1. PICK g \in Nat : FeePerByte = 4 + g
      <3>1. FeePerByte - 4 \in Nat /\ FeePerByte = 4 + (FeePerByte - 4)
        BY <1>1
      <3> QED BY <3>1
    <2>2. g * size \in Nat /\ (4 + g) * size = 4 * size + g * size
      BY <1>2
    <2>3. W!FeePerKB = 1000 * FeePerByte
      BY <1>1 DEF W!FeePerKB
    <2>4. (1000 * FeePerByte) * size = 1000 * (FeePerByte * size)
      BY <1>1, <1>2
    <2> QED BY <1>2, <2>1, <2>2, <2>3, <2>4
  <1> HIDE DEF m
  <1>4. W!FeeForSerializeSize(size) = m
    <2>1. size >= 69
      BY DEF size
    <2>2. ~(1000 * m < 1000) /\ (1000 * m) \div 1000 = m
      BY <1>2, <1>3, <2>1
    <2> QED BY <1>3, <2>2 DEF W!FeeForSerializeSize
  <1>5. q \in Int /\ 4 * q <= 5 + p + 109 * (n - p)
    OBVIOUS
  <1>6. (2 + p + (n - p) * W!WitnessWeight + 3) \div 4 = q
    <2>1. 2 + p + (n - p) * W!WitnessWeight + 3 = 5 + p + 109 * (n - p)
      BY DEF W!WitnessWeight
    <2> QED BY <2>1
  <1> HIDE DEF q
  <1>7. m >= 10 + 31 + p * 149 + (n - p) * 41 + q
    BY <1>3, <1>5 DEF size
  <1> QED BY <1>2, <1>3, <1>4, <1>6, <1>7
          DEF W!MinimumTxOverhead, W!P2WPKHOutputSize, W!P2PKHInputSize, W!InputSize

\* The fee of a sweep is relayed for any number of inputs of either type, at any
\* rate of 4 or more.
THEOREM SweepRelayed == W!WellFormed /\ W!RelayRate /\ W!Spec => []RelayFeePaid
  <1> SUFFICES ASSUME W!WellFormed, W!RelayRate PROVE W!Spec => []RelayFeePaid
    OBVIOUS
  <1>1. SweepInv => RelayFeePaid
    <2> SUFFICES ASSUME SweepInv, importing = "signed"
                 PROVE  swept.fee >= W!SignedVSize
      BY DEF RelayFeePaid, W!RelayFeePaid
    <2> DEFINE D == {i \in DOMAIN inputs : ~Coins[inputs[i]].witness}
               n == Len(inputs)
               p == Cardinality(D)
    <2>1. n \in Nat /\ DOMAIN inputs = 1..n /\ D \subseteq 1..n
      BY DEF SweepInv, SweepType
    <2>2. p \in 0..n
      <3> HIDE DEF D, n
      <3>1. IsFiniteSet(1..n) /\ Cardinality(1..n) = IF 1 > n THEN 0 ELSE n - 1 + 1
        BY <2>1, FS_Interval
      <3>2. Cardinality(1..n) = n
        BY <2>1, <3>1
      <3>3. Cardinality(D) <= Cardinality(1..n) /\ IsFiniteSet(D)
        BY <2>1, <3>1, FS_Subset
      <3>4. Cardinality(D) \in Nat
        BY <3>3, FS_CardinalityType
      <3> QED BY <2>1, <3>2, <3>3, <3>4
    <2>3. W!SignedVSize =
            W!MinimumTxOverhead + W!P2WPKHOutputSize + p * W!P2PKHInputSize
            + (n - p) * W!InputSize + (2 + p + (n - p) * W!WitnessWeight + 3) \div 4
      BY SameOperators DEF W!SignedVSize
    <2>4. swept.fee = W!FeeForSerializeSize(W!TxSerialSizeEst(n))
      BY DEF SweepInv, SignedFee
    <2> HIDE DEF n, p
    <2> QED BY <2>1, <2>2, <2>3, <2>4, FeeCovers
  <1> QED BY <1>1, SweepInvariance, PTL
=============================================================================
