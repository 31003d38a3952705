----------------------------- MODULE Datastore -----------------------------
(***************************************************************************)
(* What the interfaces of wallet/datastore.go promise the wallet, whichever *)
(* database is behind them: seven tables, of which every call changes one  *)
(* row at once or nothing, and queries that are answered from what is      *)
(* there.  A call about a row that does not exist changes nothing.         *)
(*                                                                         *)
(* The frozen mark of a spent coin is not among the promises: sqlite does  *)
(* not keep it, and Stxo.IsEqual does not look at it.                      *)
(***************************************************************************)
EXTENDS StoreTypes

VARIABLES
    utxos,          \* outpoint -> utxo
    stxos,          \* outpoint -> stxo without its frozen mark
    txns,           \* transaction id -> txn
    keys,           \* purpose -> index -> used
    subs,           \* script -> subscribed
    enc,            \* the encrypted storage: password and contents
    date,           \* the creation date is recorded
    last            \* the last call: its arguments and what it returned

vars == <<utxos, stxos, txns, keys, subs, enc, date, last>>

Spent(s) == [height |-> s.height, watchOnly |-> s.watchOnly,
             spendHeight |-> s.spendHeight, spender |-> s.spender]

-----------------------------------------------------------------------------
(* Changes.  Put replaces, Delete is content with a missing row. *)

PutUtxo(o, u) ==
    /\ last' = [PutUtxo |-> <<o, u>>]
    /\ utxos' = [utxos EXCEPT ![o] = u]
    /\ UNCHANGED <<stxos, txns, keys, subs, enc, date>>

SetWatchOnly(o) ==
    /\ last' = [SetWatchOnly |-> <<o>>]
    /\ utxos' = IF utxos[o] = NoRow THEN utxos ELSE [utxos EXCEPT ![o].watchOnly = TRUE]
    /\ UNCHANGED <<stxos, txns, keys, subs, enc, date>>

\* Freeze (b) and UnFreeze (~b)
Freeze(o, b) ==
    /\ last' = [Freeze |-> <<o, b>>]
    /\ utxos' = IF utxos[o] = NoRow THEN utxos ELSE [utxos EXCEPT ![o].frozen = b]
    /\ UNCHANGED <<stxos, txns, keys, subs, enc, date>>

DeleteUtxo(o) ==
    /\ last' = [DeleteUtxo |-> <<o>>]
    /\ utxos' = [utxos EXCEPT ![o] = NoRow]
    /\ UNCHANGED <<stxos, txns, keys, subs, enc, date>>

PutStxo(o, s) ==
    /\ last' = [PutStxo |-> <<o, s>>]
    /\ stxos' = [stxos EXCEPT ![o] = Spent(s)]
    /\ UNCHANGED <<utxos, txns, keys, subs, enc, date>>

DeleteStxo(o) ==
    /\ last' = [DeleteStxo |-> <<o>>]
    /\ stxos' = [stxos EXCEPT ![o] = NoRow]
    /\ UNCHANGED <<utxos, txns, keys, subs, enc, date>>

PutTxn(t, r) ==
    /\ last' = [PutTxn |-> <<t, r>>]
    /\ txns' = [txns EXCEPT ![t] = r]
    /\ UNCHANGED <<utxos, stxos, keys, subs, enc, date>>

UpdateHeight(t, h) ==
    /\ last' = [UpdateHeight |-> <<t, h>>]
    /\ txns' = IF txns[t] = NoRow THEN txns ELSE [txns EXCEPT ![t].height = h]
    /\ UNCHANGED <<utxos, stxos, keys, subs, enc, date>>

DeleteTxn(t) ==
    /\ last' = [DeleteTxn |-> <<t>>]
    /\ txns' = [txns EXCEPT ![t] = NoRow]
    /\ UNCHANGED <<utxos, stxos, keys, subs, enc, date>>

\* The wallet puts keys in the order of their indexes.
PutKey(p, i) ==
    /\ last' = [PutKey |-> <<p, i>>]
    /\ keys[p][i] = NoRow
    /\ keys' = [keys EXCEPT ![p][i] = FALSE]
    /\ UNCHANGED <<utxos, stxos, txns, subs, enc, date>>

MarkKeyAsUsed(p, i) ==
    /\ last' = [MarkKeyAsUsed |-> <<p, i>>]
    /\ keys' = IF keys[p][i] = NoRow THEN keys ELSE [keys EXCEPT ![p][i] = TRUE]
    /\ UNCHANGED <<utxos, stxos, txns, subs, enc, date>>

\* Put (b) and Delete (~b) of a subscription
Subscribe(s, b) ==
    /\ last' = [Subscribe |-> <<s, b>>]
    /\ subs' = [subs EXCEPT ![s] = b]
    /\ UNCHANGED <<utxos, stxos, txns, keys, enc, date>>

PutEncrypted(b, pw) ==
    /\ last' = [PutEncrypted |-> <<b, pw>>]
    /\ enc' = [pw |-> pw, secret |-> b]
    /\ UNCHANGED <<utxos, stxos, txns, keys, subs, date>>

PutCreationDate ==
    /\ last' = [PutCreationDate |-> <<>>]
    /\ date' = TRUE
    /\ UNCHANGED <<utxos, stxos, txns, keys, subs, enc>>

-----------------------------------------------------------------------------
(* Queries. *)

Stored(p) == {i \in Index : keys[p][i] # NoRow}
Unused(p) == {i \in Index : keys[p][i] = FALSE}
AfterLastUsed(p) == {i \in Unused(p) : \A j \in Index : keys[p][j] = TRUE => j < i}

Answered(a) ==
    /\ last' = a
    /\ UNCHANGED <<utxos, stxos, txns, keys, subs, enc, date>>

GetAllUtxos == Answered([GetAllUtxos |-> utxos])
\* A list of spent coins, in any order.
GetAllStxos == Answered([GetAllStxos |-> {<<o, stxos[o]>> : o \in {x \in Op : stxos[x] # NoRow}}])
GetTxn(t) == Answered([GetTxn |-> <<t, txns[t]>>])

GetAllTxns(includeWatchOnly) ==
    Answered([GetAllTxns |-> <<includeWatchOnly, [t \in Tx |->
        IF txns[t] # NoRow /\ (includeWatchOnly \/ ~txns[t].watchOnly)
        THEN txns[t] ELSE NoRow]>>])

\* "Fetch the last index for the given key purpose"
GetLastKeyIndex(p) ==
    \/ \E i \in Stored(p) : /\ \A j \in Stored(p) : j <= i
                            /\ Answered([GetLastKeyIndex |-> <<p, i, keys[p][i]>>])
    \/ Stored(p) = {} /\ Answered([GetLastKeyIndex |-> <<p>>])

GetPathForKey(p, i) == Answered([GetPathForKey |-> <<p, i, keys[p][i] # NoRow>>])

\* "Get a list of unused key indexes": which they are, and which one is first, the
\* key that the wallet hands out.
GetUnused(p) ==
    \/ \E i \in Unused(p) : /\ \A j \in Unused(p) : i <= j
                            /\ Answered([GetUnused |-> <<p, Unused(p), i>>])
    \/ Unused(p) = {} /\ Answered([GetUnused |-> <<p>>])

GetAllKeys == Answered([GetAllKeys |-> [p \in Purpose |-> Stored(p)]])

\* "Get the number of unused keys following the last used key"
GetLookaheadWindow(p) == Answered([GetLookaheadWindow |-> <<p, Cardinality(AfterLastUsed(p))>>])

GetSubscription(s) == Answered([GetSubscription |-> <<s, subs[s]>>])
GetAllSubscriptions == Answered([GetAllSubscriptions |-> subs])

\* The contents, for the password they were stored with only.
GetDecrypted(pw) ==
    /\ enc # NoRow
    /\ Answered([GetDecrypted |-> <<pw, IF pw = enc.pw THEN enc.secret ELSE NoRow>>])

GetCreationDate == Answered([GetCreationDate |-> date])

-----------------------------------------------------------------------------
Init ==
    /\ utxos = [o \in Op |-> NoRow]
    /\ stxos = [o \in Op |-> NoRow]
    /\ txns = [t \in Tx |-> NoRow]
    /\ keys = [p \in Purpose |-> [i \in Index |-> NoRow]]
    /\ subs = [s \in Script |-> FALSE]
    /\ enc = NoRow /\ date \in BOOLEAN /\ last = NoRow

Change ==
    \/ \E o \in Op : \/ \E u \in Utxo : PutUtxo(o, u)
                     \/ SetWatchOnly(o) \/ DeleteUtxo(o)
                     \/ \E b \in BOOLEAN : Freeze(o, b)
                     \/ \E s \in Stxo : PutStxo(o, s)
                     \/ DeleteStxo(o)
    \/ \E t \in Tx : \/ \E r \in Txn : PutTxn(t, r)
                     \/ \E h \in Height : UpdateHeight(t, h)
                     \/ DeleteTxn(t)
    \/ \E p \in Purpose, i \in Index : PutKey(p, i) \/ MarkKeyAsUsed(p, i)
    \/ \E s \in Script, b \in BOOLEAN : Subscribe(s, b)
    \/ \E b \in Secret, pw \in Password : PutEncrypted(b, pw)
    \/ PutCreationDate

Query ==
    \/ GetAllUtxos \/ GetAllStxos \/ GetAllKeys \/ GetAllSubscriptions \/ GetCreationDate
    \/ \E t \in Tx : GetTxn(t)
    \/ \E w \in BOOLEAN : GetAllTxns(w)
    \/ \E p \in Purpose : \/ GetLastKeyIndex(p) \/ GetUnused(p) \/ GetLookaheadWindow(p)
                          \/ \E i \in Index : GetPathForKey(p, i)
    \/ \E s \in Script : GetSubscription(s)
    \/ \E pw \in Password : GetDecrypted(pw)

Next == Change \/ Query

Spec == Init /\ [][Next]_vars
=============================================================================
