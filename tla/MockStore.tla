----------------------------- MODULE MockStore ------------------------------
(***************************************************************************)
(* The datastore that the wallet's tests use (wallet/wltbtc/mock.go and    *)
(* its copies for Dash and Firo): maps in memory.  Its stxos are filed     *)
(* under their spender, not under their outpoint.                          *)
(***************************************************************************)
EXTENDS StoreTypes

CONSTANT MockPassword       \* "abc"

VARIABLES
    utxos,
    stxos,          \* spender -> the coin it spends, at its outpoint
    txns, keys, subs, enc, date,
    last            \* the last call: its arguments and what it returned

-----------------------------------------------------------------------------
(* Changes.  A missing entry is reported as "not found". *)

PutUtxo(o, u) ==
    /\ utxos' = [utxos EXCEPT ![o] = u] /\ last' = [PutUtxo |-> <<o, u>>]
    /\ UNCHANGED <<stxos, txns, keys, subs, enc, date>>

SetWatchOnly(o) ==
    /\ utxos' = IF utxos[o] = NoRow THEN utxos ELSE [utxos EXCEPT ![o].watchOnly = TRUE]
    /\ last' = [SetWatchOnly |-> <<o>>]
    /\ UNCHANGED <<stxos, txns, keys, subs, enc, date>>

Freeze(o) ==
    /\ utxos' = IF utxos[o] = NoRow THEN utxos ELSE [utxos EXCEPT ![o].frozen = TRUE]
    /\ last' = [Freeze |-> <<o, TRUE>>]
    /\ UNCHANGED <<stxos, txns, keys, subs, enc, date>>

\* It is WatchOnly that is cleared.
UnFreeze(o) ==
    /\ utxos' = IF utxos[o] = NoRow THEN utxos ELSE [utxos EXCEPT ![o].watchOnly = FALSE]
    /\ last' = [Freeze |-> <<o, FALSE>>]
    /\ UNCHANGED <<stxos, txns, keys, subs, enc, date>>

DeleteUtxo(o) ==
    /\ utxos' = [utxos EXCEPT ![o] = NoRow] /\ last' = [DeleteUtxo |-> <<o>>]
    /\ UNCHANGED <<stxos, txns, keys, subs, enc, date>>

PutStxo(o, s) ==
    /\ stxos' = [stxos EXCEPT ![s.spender] = [op |-> o, stxo |-> s]]
    /\ last' = [PutStxo |-> <<o, s>>]
    /\ UNCHANGED <<utxos, txns, keys, subs, enc, date>>

\* The caller's stxo is the coin at o, spent by t.
DeleteStxo(o, t) ==
    /\ stxos' = [stxos EXCEPT ![t] = NoRow] /\ last' = [DeleteStxo |-> <<o>>]
    /\ UNCHANGED <<utxos, txns, keys, subs, enc, date>>

PutTxn(t, r) ==
    /\ txns' = [txns EXCEPT ![t] = r] /\ last' = [PutTxn |-> <<t, r>>]
    /\ UNCHANGED <<utxos, stxos, keys, subs, enc, date>>

UpdateHeight(t, h) ==
    /\ txns' = IF txns[t] = NoRow THEN txns ELSE [txns EXCEPT ![t].height = h]
    /\ last' = [UpdateHeight |-> <<t, h>>]
    /\ UNCHANGED <<utxos, stxos, keys, subs, enc, date>>

DeleteTxn(t) ==
    /\ txns' = [txns EXCEPT ![t] = NoRow] /\ last' = [DeleteTxn |-> <<t>>]
    /\ UNCHANGED <<utxos, stxos, keys, subs, enc, date>>

\* GetFreshKey puts the key after the last one.
PutKey(p, i) ==
    /\ \A j \in Index : keys[p][j] # NoRow => j < i
    /\ keys' = [keys EXCEPT ![p][i] = FALSE] /\ last' = [PutKey |-> <<p, i>>]
    /\ UNCHANGED <<utxos, stxos, txns, subs, enc, date>>

MarkKeyAsUsed(p, i) ==
    /\ keys' = IF keys[p][i] = NoRow THEN keys ELSE [keys EXCEPT ![p][i] = TRUE]
    /\ last' = [MarkKeyAsUsed |-> <<p, i>>]
    /\ UNCHANGED <<utxos, stxos, txns, subs, enc, date>>

PutSubscription(s) ==
    /\ subs' = [subs EXCEPT ![s] = TRUE] /\ last' = [Subscribe |-> <<s, TRUE>>]
    /\ UNCHANGED <<utxos, stxos, txns, keys, enc, date>>

DeleteSubscription(s) ==
    /\ subs' = [subs EXCEPT ![s] = FALSE] /\ last' = [Subscribe |-> <<s, FALSE>>]
    /\ UNCHANGED <<utxos, stxos, txns, keys, enc, date>>

\* The contents are kept backwards, for the one password it accepts.
reverse(b) == [i \in 1 .. Len(b) |-> b[Len(b) + 1 - i]]

PutEncrypted(b, pw) ==
    /\ pw = MockPassword
    /\ enc' = reverse(b) /\ last' = [PutEncrypted |-> <<b, pw>>]
    /\ UNCHANGED <<utxos, stxos, txns, keys, subs, date>>

PutCreationDate ==
    /\ date' = TRUE /\ last' = [PutCreationDate |-> <<>>]
    /\ UNCHANGED <<utxos, stxos, txns, keys, subs, enc>>

-----------------------------------------------------------------------------
(* Queries. *)

Answered(a) ==
    /\ last' = a
    /\ UNCHANGED <<utxos, stxos, txns, keys, subs, enc, date>>

GetAllUtxos == Answered([GetAllUtxos |-> utxos])

StxoOf(s) == [height |-> s.height, watchOnly |-> s.watchOnly,
              spendHeight |-> s.spendHeight, spender |-> s.spender]
Filed == {t \in Tx : stxos[t] # NoRow}
GetAllStxos ==
    Answered([GetAllStxos |-> {<<stxos[t].op, StxoOf(stxos[t].stxo)>> : t \in Filed}])

GetTxn(t) == Answered([GetTxn |-> <<t, txns[t]>>])

GetAllTxns(includeWatchOnly) ==
    LET Skipped(t) == txns[t] # NoRow /\ ~includeWatchOnly /\ txns[t].watchOnly
    IN Answered([GetAllTxns |-> <<includeWatchOnly,
                    [t \in Tx |-> IF Skipped(t) THEN NoRow ELSE txns[t]]>>])

Entries(p) == {i \in Index : keys[p][i] # NoRow}
Unused(p) == {i \in Entries(p) : ~keys[p][i]}

GetLastKeyIndex(p) ==
    \/ \E i \in Entries(p) : /\ \A j \in Entries(p) : j <= i
                             /\ Answered([GetLastKeyIndex |-> <<p, i, keys[p][i]>>])
    \/ Entries(p) = {} /\ Answered([GetLastKeyIndex |-> <<p>>])

GetPathForKey(p, i) == Answered([GetPathForKey |-> <<p, i, keys[p][i] # NoRow>>])

GetUnused(p) ==
    \/ \E i \in Unused(p) : /\ \A j \in Unused(p) : i <= j
                            /\ Answered([GetUnused |-> <<p, Unused(p), i>>])
    \/ Unused(p) = {} /\ Answered([GetUnused |-> <<p>>])

GetAllKeys == Answered([GetAllKeys |-> [p \in Purpose |-> Entries(p)]])

\* The unused keys above the last used one.
GetLookaheadWindow(p) ==
    Answered([GetLookaheadWindow |-> <<p, Cardinality(
        {i \in Unused(p) : \A j \in Entries(p) : keys[p][j] => j < i})>>])

GetSubscription(s) == Answered([GetSubscription |-> <<s, subs[s]>>])
GetElectrumScripthash(s) == Answered([GetSubscription |-> <<s, subs[s]>>])
GetAllSubscriptions == Answered([GetAllSubscriptions |-> subs])

GetDecrypted(pw) ==
    /\ enc # NoRow
    /\ Answered([GetDecrypted |-> <<pw, IF pw = MockPassword THEN reverse(enc) ELSE NoRow>>])

GetCreationDate == Answered([GetCreationDate |-> date])

-----------------------------------------------------------------------------
\* createTxStore: every map is empty, the creation date is now, and what the
\* encrypted storage holds, ten zero bytes, stands for nothing.
Init ==
    /\ utxos = [o \in Op |-> NoRow]
    /\ stxos = [t \in Tx |-> NoRow]
    /\ txns = [t \in Tx |-> NoRow]
    /\ keys = [p \in Purpose |-> [i \in Index |-> NoRow]]
    /\ subs = [s \in Script |-> FALSE]
    /\ enc = NoRow /\ date = TRUE /\ last = NoRow

Utxos ==
    \/ \E o \in Op : \/ \E u \in Utxo : PutUtxo(o, u)
                     \/ SetWatchOnly(o) \/ Freeze(o) \/ UnFreeze(o) \/ DeleteUtxo(o)
    \/ GetAllUtxos

Stxos ==
    \/ \E o \in Op : \/ \E s \in Stxo : PutStxo(o, s)
                     \/ \E t \in Tx : DeleteStxo(o, t)
    \/ GetAllStxos

Txns ==
    \/ \E t \in Tx : \/ \E r \in Txn : PutTxn(t, r)
                     \/ \E h \in Height : UpdateHeight(t, h)
                     \/ DeleteTxn(t) \/ GetTxn(t)
    \/ \E w \in BOOLEAN : GetAllTxns(w)

Keys ==
    \/ \E p \in Purpose :
         \/ \E i \in Index : PutKey(p, i) \/ MarkKeyAsUsed(p, i) \/ GetPathForKey(p, i)
         \/ GetLastKeyIndex(p) \/ GetUnused(p) \/ GetLookaheadWindow(p)
    \/ GetAllKeys

Others ==
    \/ \E s \in Script : \/ PutSubscription(s) \/ DeleteSubscription(s)
                         \/ GetSubscription(s) \/ GetElectrumScripthash(s)
    \/ \E pw \in Password : GetDecrypted(pw) \/ \E b \in Secret : PutEncrypted(b, pw)
    \/ GetAllSubscriptions \/ PutCreationDate \/ GetCreationDate

Next == Utxos \/ Stxos \/ Txns \/ Keys \/ Others
=============================================================================
