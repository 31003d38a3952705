---------------------------- MODULE SqliteStore -----------------------------
(***************************************************************************)
(* The sqlite datastore (wallet/db): one statement, or one transaction,    *)
(* per call, under a mutex that all tables share.  Flags are columns of    *)
(* integers, a spent coin has no column for its frozen mark, and keys are  *)
(* listed in the order of their rowids.                                    *)
(***************************************************************************)
EXTENDS StoreTypes

VARIABLES
    utxos, stxos, txns, keys, subs, enc, date,
    last            \* the last call: its arguments and what it returned

Bit == {0, 1}
UtxoRow == [height : Height, watchOnly : Bit, frozen : Bit]
StxoRow == [height : Height, watchOnly : Bit, spendHeight : Height, spender : Tx]
TxnRow == [height : Height, watchOnly : Bit]
KeyRow == [used : Bit, rowid : Nat]

Column(b) == IF b THEN 1 ELSE 0

\* How queries read a flag.
IsOne(n) == n = 1
IsPositive(n) == n > 0
IsNotZero(n) == n # 0

-----------------------------------------------------------------------------
(* "insert or replace", "update ... where" and "delete ... where". *)

\* The insert without its frozen column.
PutUnfrozen(o, u) ==
    /\ utxos' = [utxos EXCEPT ![o] =
                  [height |-> u.height, watchOnly |-> Column(u.watchOnly), frozen |-> 0]]
    /\ last' = [PutUtxo |-> <<o, u>>]
    /\ UNCHANGED <<stxos, txns, keys, subs, enc, date>>

PutUtxo(o, u) ==
    /\ utxos' = [utxos EXCEPT ![o] =
                  [height |-> u.height, watchOnly |-> Column(u.watchOnly),
                   frozen |-> Column(u.frozen)]]
    /\ last' = [PutUtxo |-> <<o, u>>]
    /\ UNCHANGED <<stxos, txns, keys, subs, enc, date>>

SetWatchOnly(o) ==
    /\ utxos' = IF utxos[o] = NoRow THEN utxos ELSE [utxos EXCEPT ![o].watchOnly = 1]
    /\ last' = [SetWatchOnly |-> <<o>>]
    /\ UNCHANGED <<stxos, txns, keys, subs, enc, date>>

Freeze(o) ==
    /\ utxos' = IF utxos[o] = NoRow THEN utxos ELSE [utxos EXCEPT ![o].frozen = 1]
    /\ last' = [Freeze |-> <<o, TRUE>>]
    /\ UNCHANGED <<stxos, txns, keys, subs, enc, date>>

UnFreeze(o) ==
    /\ utxos' = IF utxos[o] = NoRow THEN utxos ELSE [utxos EXCEPT ![o].frozen = 0]
    /\ last' = [Freeze |-> <<o, FALSE>>]
    /\ UNCHANGED <<stxos, txns, keys, subs, enc, date>>

DeleteUtxo(o) ==
    /\ utxos' = [utxos EXCEPT ![o] = NoRow] /\ last' = [DeleteUtxo |-> <<o>>]
    /\ UNCHANGED <<stxos, txns, keys, subs, enc, date>>

PutStxo(o, s) ==
    /\ stxos' = [stxos EXCEPT ![o] =
                  [height |-> s.height, watchOnly |-> Column(s.watchOnly),
                   spendHeight |-> s.spendHeight, spender |-> s.spender]]
    /\ last' = [PutStxo |-> <<o, s>>]
    /\ UNCHANGED <<utxos, txns, keys, subs, enc, date>>

DeleteStxo(o) ==
    /\ stxos' = [stxos EXCEPT ![o] = NoRow] /\ last' = [DeleteStxo |-> <<o>>]
    /\ UNCHANGED <<utxos, txns, keys, subs, enc, date>>

PutTxn(t, r) ==
    /\ txns' = [txns EXCEPT ![t] = [height |-> r.height, watchOnly |-> Column(r.watchOnly)]]
    /\ last' = [PutTxn |-> <<t, r>>]
    /\ UNCHANGED <<utxos, stxos, keys, subs, enc, date>>

UpdateHeight(t, h) ==
    /\ txns' = IF txns[t] = NoRow THEN txns ELSE [txns EXCEPT ![t].height = h]
    /\ last' = [UpdateHeight |-> <<t, h>>]
    /\ UNCHANGED <<utxos, stxos, keys, subs, enc, date>>

DeleteTxn(t) ==
    /\ txns' = [txns EXCEPT ![t] = NoRow] /\ last' = [DeleteTxn |-> <<t>>]
    /\ UNCHANGED <<utxos, stxos, keys, subs, enc, date>>

Rows(p) == {i \in Index : keys[p][i] # NoRow}
Rowids == {0} \cup UNION {{keys[p][i].rowid : i \in Rows(p)} : p \in Purpose}

\* GetFreshKey puts the key after the last one; a plain insert, which gives the new
\* row a rowid above all others of the table.
PutKey(p, i) ==
    /\ \A j \in Rows(p) : j < i
    /\ \E r \in Rowids :
         /\ \A q \in Rowids : q <= r
         /\ keys' = [keys EXCEPT ![p][i] = [used |-> 0, rowid |-> r + 1]]
    /\ last' = [PutKey |-> <<p, i>>]
    /\ UNCHANGED <<utxos, stxos, txns, subs, enc, date>>

MarkKeyAsUsed(p, i) ==
    /\ keys' = IF keys[p][i] = NoRow THEN keys ELSE [keys EXCEPT ![p][i].used = 1]
    /\ last' = [MarkKeyAsUsed |-> <<p, i>>]
    /\ UNCHANGED <<utxos, stxos, txns, subs, enc, date>>

PutSubscription(s) ==
    /\ subs' = [subs EXCEPT ![s] = TRUE] /\ last' = [Subscribe |-> <<s, TRUE>>]
    /\ UNCHANGED <<utxos, stxos, txns, keys, enc, date>>

DeleteSubscription(s) ==
    /\ subs' = [subs EXCEPT ![s] = FALSE] /\ last' = [Subscribe |-> <<s, FALSE>>]
    /\ UNCHANGED <<utxos, stxos, txns, keys, enc, date>>

\* The contents are sealed with a key derived from the password, which opens them.
encryptBytes(b, pw) == [pw |-> pw, secret |-> b]
decryptBytes(e, pw) == IF pw = e.pw THEN e.secret ELSE NoRow

PutEncrypted(b, pw) ==
    /\ enc' = encryptBytes(b, pw) /\ last' = [PutEncrypted |-> <<b, pw>>]
    /\ UNCHANGED <<utxos, stxos, txns, keys, subs, date>>

PutCreationDate ==
    /\ date' = TRUE /\ last' = [PutCreationDate |-> <<>>]
    /\ UNCHANGED <<utxos, stxos, txns, keys, subs, enc>>

-----------------------------------------------------------------------------
(* Queries. *)

Answered(a) ==
    /\ last' = a
    /\ UNCHANGED <<utxos, stxos, txns, keys, subs, enc, date>>

UtxoOf(r) ==
    IF r = NoRow THEN NoRow
    ELSE [height |-> r.height, watchOnly |-> IsOne(r.watchOnly), frozen |-> IsOne(r.frozen)]

StxoOf(r) ==
    IF r = NoRow THEN NoRow
    ELSE [height |-> r.height, watchOnly |-> IsPositive(r.watchOnly),
          spendHeight |-> r.spendHeight, spender |-> r.spender]

TxnOf(r) ==
    IF r = NoRow THEN NoRow
    ELSE [height |-> r.height, watchOnly |-> IsPositive(r.watchOnly)]

GetAllUtxos == Answered([GetAllUtxos |-> [o \in Op |-> UtxoOf(utxos[o])]])
GetAllStxos ==
    Answered([GetAllStxos |-> {<<o, StxoOf(stxos[o])>> : o \in {x \in Op : stxos[x] # NoRow}}])
GetTxn(t) == Answered([GetTxn |-> <<t, TxnOf(txns[t])>>])

GetAllTxns(includeWatchOnly) ==
    LET Skipped(t) == txns[t] # NoRow /\ IsPositive(txns[t].watchOnly) /\ ~includeWatchOnly
    IN Answered([GetAllTxns |-> <<includeWatchOnly,
                    [t \in Tx |-> IF Skipped(t) THEN NoRow ELSE TxnOf(txns[t])]>>])

Unused(p) == {i \in Rows(p) : keys[p][i].used = 0}
NotAfter(p, i, j) == keys[p][i].rowid <= keys[p][j].rowid

\* "order by rowid desc limit 1"
GetLastKeyIndex(p) ==
    \/ \E i \in Rows(p) : /\ \A j \in Rows(p) : NotAfter(p, j, i)
                          /\ Answered([GetLastKeyIndex |-> <<p, i, IsNotZero(keys[p][i].used)>>])
    \/ Rows(p) = {} /\ Answered([GetLastKeyIndex |-> <<p>>])

GetPathForKey(p, i) == Answered([GetPathForKey |-> <<p, i, keys[p][i] # NoRow>>])

\* "used=0 order by rowid asc"
GetUnused(p) ==
    \/ \E i \in Unused(p) : /\ \A j \in Unused(p) : NotAfter(p, i, j)
                            /\ Answered([GetUnused |-> <<p, Unused(p), i>>])
    \/ Unused(p) = {} /\ Answered([GetUnused |-> <<p>>])

GetAllKeys == Answered([GetAllKeys |-> [p \in Purpose |-> Rows(p)]])

\* The rows from the newest back to, and without, the first used one.
GetLookaheadWindow(p) ==
    Answered([GetLookaheadWindow |-> <<p, Cardinality(
        {i \in Rows(p) : \A j \in Rows(p) : NotAfter(p, i, j) => keys[p][j].used = 0})>>])

GetSubscription(s) == Answered([GetSubscription |-> <<s, subs[s]>>])
GetElectrumScripthash(s) == Answered([GetSubscription |-> <<s, subs[s]>>])
GetAllSubscriptions == Answered([GetAllSubscriptions |-> subs])

GetDecrypted(pw) ==
    /\ enc # NoRow
    /\ Answered([GetDecrypted |-> <<pw, decryptBytes(enc, pw)>>])

GetCreationDate == Answered([GetCreationDate |-> date])

-----------------------------------------------------------------------------
\* initDatabaseTables: every table exists and is empty.
Init ==
    /\ utxos = [o \in Op |-> NoRow]
    /\ stxos = [o \in Op |-> NoRow]
    /\ txns = [t \in Tx |-> NoRow]
    /\ keys = [p \in Purpose |-> [i \in Index |-> NoRow]]
    /\ subs = [s \in Script |-> FALSE]
    /\ enc = NoRow /\ date = FALSE /\ last = NoRow

Utxos ==
    \/ \E o \in Op : \/ \E u \in Utxo : PutUtxo(o, u)
                     \/ SetWatchOnly(o) \/ Freeze(o) \/ UnFreeze(o) \/ DeleteUtxo(o)
    \/ GetAllUtxos

Stxos ==
    \/ \E o \in Op : DeleteStxo(o) \/ \E s \in Stxo : PutStxo(o, s)
    \/ GetAllStxos

Txns ==
    \/ \E t \in Tx : \/ \E r \in Txn : PutTxn(t, r)
                     \/ \E h \in Height : UpdateHeight(t, h)
                     \/ DeleteTxn(t) \/ GetTxn(t)
    \/ \E w \in BOOLEAN : GetAllTxns(w)

Keys ==
    \/ \E p \in Purpose :
         \/ \E i \in Index : PutKey(p, i) \/ MarkKeyAsUsed(p, i) \/ GetPathForKey(p, i)
         \/ GetLastKeyIndex(p) \/ GetUnused(p) \/ GetLookaheadWindow(p)
    \/ GetAllKeys

Others ==
    \/ \E s \in Script : \/ PutSubscription(s) \/ DeleteSubscription(s)
                         \/ GetSubscription(s) \/ GetElectrumScripthash(s)
    \/ \E pw \in Password : GetDecrypted(pw) \/ \E b \in Secret : PutEncrypted(b, pw)
    \/ GetAllSubscriptions \/ PutCreationDate \/ GetCreationDate

Next == Utxos \/ Stxos \/ Txns \/ Keys \/ Others
=============================================================================
