------------------------------- MODULE Sweep -------------------------------
(***************************************************************************)
(* Import of private keys of another wallet (client/btc/import_sweep.go)    *)
(* and the transaction that moves their coins to this one (SweepCoins,      *)
(* wallet/wltbtc/sweep.go, sizes.go).  For every key the server is asked    *)
(* twice, for the coins of its P2PKH address and then of its P2WPKH one,    *)
(* while coins come and go; a request may fail.  The P2WSH, P2SH and P2PK   *)
(* coins of a key are never asked for.  The transaction is signed, and      *)
(* serialised, and not sent.                                                *)
(***************************************************************************)
EXTENDS Integers, Sequences, FiniteSets, SequencesExt

CONSTANTS
    Coins,          \* coin -> [key, witness, value]
    ImportLists,    \* lists of imported key strings
    Undecodable,    \* strings that are not a WIF
    FeePerByte      \* of fee level NORMAL

VARIABLES
    unspent,        \* server: coins not spent
    pc,             \* "idle", "next", "pkh", "wpkh", "sweep", "signed", "error"
    keys,           \* imported keys not yet looked at
    found,          \* getUtxos: coins of the key asked for
    inputs,         \* coins to sweep
    tx,             \* the sweep: value of its output and its fee
    answered,       \* history: keys both of whose requests were answered
    always,         \* history: coins unspent since the import began
    list            \* history: what was imported

vars == <<unspent, pc, keys, found, inputs, tx, answered, always, list>>
history == <<answered, always, list>>

NoTx == [out |-> 0, fee |-> 0]
Coin == DOMAIN Coins

\* What the constants may be: lists may name any keys, again and again.
WellFormed ==
    /\ IsFiniteSet(Coin) /\ FeePerByte \in Nat
    /\ \A o \in Coin : Coins[o].witness \in BOOLEAN /\ Coins[o].value \in Nat
    /\ \A ks \in ImportLists : ks \in Seq(ToSet(ks))

Init ==
    /\ unspent \in SUBSET Coin
    /\ pc = "idle" /\ keys = <<>> /\ found = <<>> /\ inputs = <<>> /\ tx = NoTx
    /\ answered = {} /\ always = {} /\ list = <<>>

-----------------------------------------------------------------------------
(* The server. *)

Spend(o) ==
    /\ o \in unspent
    /\ unspent' = unspent \ {o} /\ always' = always \ {o}
    /\ UNCHANGED <<pc, keys, found, inputs, tx, answered, list>>

Receive(o) ==
    /\ o \in Coin \ unspent
    /\ unspent' = unspent \cup {o}
    /\ UNCHANGED <<pc, keys, found, inputs, tx, history>>

-----------------------------------------------------------------------------
(* ImportAndSweep. *)

ImportAndSweep(ks) ==
    /\ pc \in {"idle", "signed", "error"}
    /\ keys' = ks /\ list' = ks
    /\ pc' = IF ks = <<>> THEN "error" ELSE "next"
    /\ found' = <<>> /\ inputs' = <<>> /\ tx' = NoTx
    /\ answered' = {} /\ always' = unspent
    /\ UNCHANGED unspent

\* What cannot be decoded is skipped with a warning.
NextKey ==
    /\ pc = "next" /\ keys # <<>>
    /\ IF Head(keys) \in Undecodable
       THEN keys' = Tail(keys) /\ UNCHANGED pc
       ELSE pc' = "pkh" /\ UNCHANGED keys
    /\ found' = <<>>
    /\ UNCHANGED <<unspent, inputs, tx, history>>

\* GetListUnspent of one of the addresses of a key, in the server's order.
ListUnspent(k, witness) ==
    SetToSeqs({o \in unspent : Coins[o].key = k /\ Coins[o].witness = witness})

GetPubKeyHashUtxos ==
    /\ pc = "pkh"
    /\ found' \in ListUnspent(Head(keys), FALSE)
    /\ pc' = "wpkh"
    /\ UNCHANGED <<unspent, keys, inputs, tx, history>>

\* getUtxos returns the coins of both addresses and ImportAndSweep adds them.
GetWitnessPubKeyHashUtxos ==
    /\ pc = "wpkh"
    /\ \E more \in ListUnspent(Head(keys), TRUE) : inputs' = inputs \o found \o more
    /\ answered' = answered \cup {Head(keys)}
    /\ keys' = Tail(keys) /\ pc' = "next"
    /\ UNCHANGED <<unspent, found, tx, always, list>>

\* No leader, or one of the two requests fails: nothing of the key is swept.
KeepFound ==
    /\ pc \in {"pkh", "wpkh"}
    /\ inputs' = inputs \o found
    /\ keys' = Tail(keys) /\ pc' = "next"
    /\ UNCHANGED <<unspent, found, tx, history>>

SkipKey ==
    /\ pc \in {"pkh", "wpkh"}
    /\ keys' = Tail(keys) /\ pc' = "next"
    /\ UNCHANGED <<unspent, found, inputs, tx, history>>

Collected ==
    /\ pc = "next" /\ keys = <<>>
    /\ pc' = IF inputs = <<>> THEN "error" ELSE "sweep"
    /\ UNCHANGED <<unspent, keys, found, inputs, tx, history>>

-----------------------------------------------------------------------------
(* SweepCoins. *)

TotalValue == SumFunction([i \in DOMAIN inputs |-> Coins[inputs[i]].value])

\* txSerialSizeEst of the transaction with its inputs and no output: overhead,
\* unsigned inputs, one witness with marker and flag, and the output.
MinimumTxOverhead == 10
InputSize == 41
WitnessVBytes == 28
P2WPKHOutputSize == 31
OneInputEst(n) == MinimumTxOverhead + InputSize + WitnessVBytes + P2WPKHOutputSize
TxSerialSizeEst(n) == MinimumTxOverhead + n * InputSize + WitnessVBytes + P2WPKHOutputSize

FeePerKB == FeePerByte * 1000

\* txrules.FeeForSerializeSize.
FeeForSerializeSize(size) ==
    IF FeePerKB * size < 1000 THEN FeePerKB ELSE (FeePerKB * size) \div 1000

\* txrules.CheckOutput: neither negative nor dust, at the rate of the sweep.
\* The cost of an output is that of it and of an input that spends it.
SpendingSize == 98
CheckOutput(value) == value >= 0 /\ (value * 1000) \div (3 * SpendingSize) >= FeePerKB

SweepCoins ==
    /\ pc = "sweep"
    /\ LET fee == FeeForSerializeSize(TxSerialSizeEst(Len(inputs)))
           outValue == TotalValue - fee
       IN  IF CheckOutput(outValue)
           THEN tx' = [out |-> outValue, fee |-> fee] /\ pc' = "signed"
           ELSE UNCHANGED tx /\ pc' = "error"
    /\ UNCHANGED <<unspent, keys, found, inputs, history>>

\* The wallet has no unused receiving key to pay to.
NoUnusedAddress ==
    /\ pc = "sweep" /\ pc' = "error"
    /\ UNCHANGED <<unspent, keys, found, inputs, tx, history>>

-----------------------------------------------------------------------------
Next ==
    \/ \E o \in Coin : Spend(o) \/ Receive(o)
    \/ \E ks \in ImportLists : ImportAndSweep(ks)
    \/ NextKey \/ GetPubKeyHashUtxos \/ GetWitnessPubKeyHashUtxos \/ SkipKey
    \/ Collected \/ SweepCoins \/ NoUnusedAddress

Spec == Init /\ [][Next]_vars

-----------------------------------------------------------------------------
(* Properties. *)

\* A sweep spends every coin of an answered key that was unspent all the time,
\* and no coin of a key one of whose requests failed: a key is swept whole or
\* not at all, though its coins are read in two requests.  A list without
\* repeated keys gives no coin twice.
SweepComplete ==
    pc = "signed" =>
        /\ {o \in always : Coins[o].key \in answered} \subseteq ToSet(inputs)
        /\ \A o \in ToSet(inputs) : Coins[o].key \in answered
        /\ IsInjective(list) => IsInjective(inputs)

\* The fee is that of an unsigned transaction with one witness.  It still pays
\* one unit per virtual byte of the signed one, which is what servers relay,
\* whatever the number and the type of its inputs, at a rate of 4 or more: the
\* estimate is short by up to 108 bytes for each input from another wallet's
\* P2PKH address, and only the rate makes up for it.
P2PKHInputSize == 149
WitnessWeight == 109
SignedVSize ==
    LET pkh  == Cardinality({i \in DOMAIN inputs : ~Coins[inputs[i]].witness})
        wpkh == Len(inputs) - pkh
    IN  MinimumTxOverhead + P2WPKHOutputSize + pkh * P2PKHInputSize + wpkh * InputSize
        + (2 + pkh + wpkh * WitnessWeight + 3) \div 4
RelayRate == FeePerByte >= 4
RelayFeePaid ==
    pc = "signed" => tx.fee >= SignedVSize
=============================================================================
