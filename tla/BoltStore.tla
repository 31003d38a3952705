----------------------------- MODULE BoltStore ------------------------------
(***************************************************************************)
(* The bbolt datastore (wallet/bdb): one bucket per table.  put, get and   *)
(* delete of a record are one transaction each, under the mutex that all   *)
(* tables share; the calls that change a field read the record in one      *)
(* transaction and write it back in another, so that other calls, on the   *)
(* same record too, and a crash can come between.                          *)
(***************************************************************************)
EXTENDS StoreTypes

CONSTANT Callers    \* goroutines of the wallet

VARIABLES
    utxos, stxos, txns, keys, subs, enc, date,
    last,           \* the last call: its arguments and what it returned
    call            \* per caller: the record it has read and will write back

NoCall == [op |-> "none"]

-----------------------------------------------------------------------------
(* get, then put: SetWatchOnly, Freeze and UnFreeze, UpdateHeight,         *)
(* MarkKeyAsUsed.  Without a record get fails and nothing is written.      *)

Get(c, op, bucket, id, rec, what) ==
    /\ call[c] = NoCall
    /\ IF rec = NoRow
       THEN call' = call /\ last' = what
       ELSE /\ call' = [call EXCEPT ![c] = [op |-> op, bucket |-> bucket, id |-> id, rec |-> rec]]
            /\ last' = last
    /\ UNCHANGED <<utxos, stxos, txns, keys, subs, enc, date>>

Returns(c, what) == call' = [call EXCEPT ![c] = NoCall] /\ last' = what

GetSetWatchOnly(c, o) ==
    Get(c, <<"watch", TRUE>>, "utxos", o, utxos[o], [SetWatchOnly |-> <<o>>])
GetFreeze(c, o) ==
    Get(c, <<"freeze", TRUE>>, "utxos", o, utxos[o], [Freeze |-> <<o, TRUE>>])
GetUnFreeze(c, o) ==
    Get(c, <<"freeze", FALSE>>, "utxos", o, utxos[o], [Freeze |-> <<o, FALSE>>])
GetMarkKeyAsUsed(c, p, i) ==
    Get(c, <<"used", TRUE>>, "keys", <<p, i>>, keys[p][i], [MarkKeyAsUsed |-> <<p, i>>])
GetUpdateHeight(c, t, h) ==
    Get(c, <<"height", h>>, "txns", t, txns[t], [UpdateHeight |-> <<t, h>>])

PutSetWatchOnly(c) ==
    /\ call[c] # NoCall /\ call[c].op[1] = "watch"
    /\ utxos' = [utxos EXCEPT ![call[c].id] = [call[c].rec EXCEPT !.watchOnly = TRUE]]
    /\ Returns(c, [SetWatchOnly |-> <<call[c].id>>])
    /\ UNCHANGED <<stxos, txns, keys, subs, enc, date>>

PutFreeze(c) ==
    /\ call[c] # NoCall /\ call[c].op[1] = "freeze"
    /\ utxos' = [utxos EXCEPT ![call[c].id] = [call[c].rec EXCEPT !.frozen = call[c].op[2]]]
    /\ Returns(c, [Freeze |-> <<call[c].id, call[c].op[2]>>])
    /\ UNCHANGED <<stxos, txns, keys, subs, enc, date>>

PutMarkKeyAsUsed(c) ==
    /\ call[c] # NoCall /\ call[c].op[1] = "used"
    /\ keys' = [keys EXCEPT ![call[c].id[1]][call[c].id[2]] = TRUE]
    /\ Returns(c, [MarkKeyAsUsed |-> <<call[c].id[1], call[c].id[2]>>])
    /\ UNCHANGED <<utxos, stxos, txns, subs, enc, date>>

PutUpdateHeight(c) ==
    /\ call[c] # NoCall /\ call[c].op[1] = "height"
    /\ txns' = [txns EXCEPT ![call[c].id] = [call[c].rec EXCEPT !.height = call[c].op[2]]]
    /\ Returns(c, [UpdateHeight |-> <<call[c].id, call[c].op[2]>>])
    /\ UNCHANGED <<utxos, stxos, keys, subs, enc, date>>

\* The process dies: the database has what was written, the calls are gone.
Crash ==
    /\ call' = [c \in Callers |-> NoCall]
    /\ UNCHANGED <<utxos, stxos, txns, keys, subs, enc, date, last>>

-----------------------------------------------------------------------------
(* put and delete. *)

PutUtxo(o, u) ==
    /\ utxos' = [utxos EXCEPT ![o] = u] /\ last' = [PutUtxo |-> <<o, u>>]
    /\ UNCHANGED <<stxos, txns, keys, subs, enc, date, call>>

DeleteUtxo(o) ==
    /\ utxos' = [utxos EXCEPT ![o] = NoRow] /\ last' = [DeleteUtxo |-> <<o>>]
    /\ UNCHANGED <<stxos, txns, keys, subs, enc, date, call>>

PutStxo(o, s) ==
    /\ stxos' = [stxos EXCEPT ![o] = s] /\ last' = [PutStxo |-> <<o, s>>]
    /\ UNCHANGED <<utxos, txns, keys, subs, enc, date, call>>

DeleteStxo(o) ==
    /\ stxos' = [stxos EXCEPT ![o] = NoRow] /\ last' = [DeleteStxo |-> <<o>>]
    /\ UNCHANGED <<utxos, txns, keys, subs, enc, date, call>>

PutTxn(t, r) ==
    /\ txns' = [txns EXCEPT ![t] = r] /\ last' = [PutTxn |-> <<t, r>>]
    /\ UNCHANGED <<utxos, stxos, keys, subs, enc, date, call>>

DeleteTxn(t) ==
    /\ txns' = [txns EXCEPT ![t] = NoRow] /\ last' = [DeleteTxn |-> <<t>>]
    /\ UNCHANGED <<utxos, stxos, keys, subs, enc, date, call>>

\* GetFreshKey puts the key after the last one.
PutKey(p, i) ==
    /\ \A j \in Index : keys[p][j] # NoRow => j < i
    /\ keys' = [keys EXCEPT ![p][i] = FALSE] /\ last' = [PutKey |-> <<p, i>>]
    /\ UNCHANGED <<utxos, stxos, txns, subs, enc, date, call>>

PutSubscription(s) ==
    /\ subs' = [subs EXCEPT ![s] = TRUE] /\ last' = [Subscribe |-> <<s, TRUE>>]
    /\ UNCHANGED <<utxos, stxos, txns, keys, enc, date, call>>

DeleteSubscription(s) ==
    /\ subs' = [subs EXCEPT ![s] = FALSE] /\ last' = [Subscribe |-> <<s, FALSE>>]
    /\ UNCHANGED <<utxos, stxos, txns, keys, enc, date, call>>

\* The contents are sealed with a key derived from the password, which opens them.
encryptBytes(b, pw) == [pw |-> pw, secret |-> b]
decryptBytes(e, pw) == IF pw = e.pw THEN e.secret ELSE NoRow

PutEncrypted(b, pw) ==
    /\ enc' = encryptBytes(b, pw) /\ last' = [PutEncrypted |-> <<b, pw>>]
    /\ UNCHANGED <<utxos, stxos, txns, keys, subs, date, call>>

PutCreationDate ==
    /\ date' = TRUE /\ last' = [PutCreationDate |-> <<>>]
    /\ UNCHANGED <<utxos, stxos, txns, keys, subs, enc, call>>

-----------------------------------------------------------------------------
(* Queries, one read transaction each. *)

Answered(a) ==
    /\ last' = a
    /\ UNCHANGED <<utxos, stxos, txns, keys, subs, enc, date, call>>

\* The spent coin as callers compare it.
StxoOf(r) ==
    IF r = NoRow THEN NoRow
    ELSE [height |-> r.height, watchOnly |-> r.watchOnly,
          spendHeight |-> r.spendHeight, spender |-> r.spender]

GetAllUtxos == Answered([GetAllUtxos |-> utxos])
GetAllStxos ==
    Answered([GetAllStxos |-> {<<o, StxoOf(stxos[o])>> : o \in {x \in Op : stxos[x] # NoRow}}])
GetTxn(t) == Answered([GetTxn |-> <<t, txns[t]>>])

GetAllTxns(includeWatchOnly) ==
    LET Skipped(t) == txns[t] # NoRow /\ txns[t].watchOnly /\ ~includeWatchOnly
    IN Answered([GetAllTxns |-> <<includeWatchOnly,
                    [t \in Tx |-> IF Skipped(t) THEN NoRow ELSE txns[t]]>>])

\* getAllSorted: the records in the order of their indexes, of one purpose here.
Records(p) == {i \in Index : keys[p][i] # NoRow}
Unused(p) == {i \in Records(p) : ~keys[p][i]}

GetLastKeyIndex(p) ==
    \/ \E i \in Records(p) : /\ \A j \in Records(p) : j <= i
                             /\ Answered([GetLastKeyIndex |-> <<p, i, keys[p][i]>>])
    \/ Records(p) = {} /\ Answered([GetLastKeyIndex |-> <<p>>])

GetPathForKey(p, i) == Answered([GetPathForKey |-> <<p, i, keys[p][i] # NoRow>>])

GetUnused(p) ==
    \/ \E i \in Unused(p) : /\ \A j \in Unused(p) : i <= j
                            /\ Answered([GetUnused |-> <<p, Unused(p), i>>])
    \/ Unused(p) = {} /\ Answered([GetUnused |-> <<p>>])

GetAllKeys == Answered([GetAllKeys |-> [p \in Purpose |-> Records(p)]])

\* Every unused key is counted, not only those after the last used one.
GetLookaheadWindow(p) == Answered([GetLookaheadWindow |-> <<p, Cardinality(Unused(p))>>])

GetSubscription(s) == Answered([GetSubscription |-> <<s, subs[s]>>])
GetElectrumScripthash(s) == Answered([GetSubscription |-> <<s, subs[s]>>])
GetAllSubscriptions == Answered([GetAllSubscriptions |-> subs])

\* Without a value decryptBytes slices nothing and panics; a wallet that is loaded
\* has been created, and with that its storage put.
GetDecrypted(pw) ==
    /\ enc # NoRow
    /\ Answered([GetDecrypted |-> <<pw, decryptBytes(enc, pw)>>])

GetCreationDate == Answered([GetCreationDate |-> date])

-----------------------------------------------------------------------------
\* initDatabaseBuckets: every bucket exists and is empty.
Init ==
    /\ utxos = [o \in Op |-> NoRow]
    /\ stxos = [o \in Op |-> NoRow]
    /\ txns = [t \in Tx |-> NoRow]
    /\ keys = [p \in Purpose |-> [i \in Index |-> NoRow]]
    /\ subs = [s \in Script |-> FALSE]
    /\ enc = NoRow /\ date = FALSE /\ last = NoRow
    /\ call = [c \in Callers |-> NoCall]

Utxos ==
    \/ \E o \in Op :
         \/ \E u \in Utxo : PutUtxo(o, u)
         \/ DeleteUtxo(o)
         \/ \E c \in Callers : GetSetWatchOnly(c, o) \/ GetFreeze(c, o) \/ GetUnFreeze(c, o)
    \/ \E c \in Callers : PutSetWatchOnly(c) \/ PutFreeze(c)
    \/ GetAllUtxos

Stxos ==
    \/ \E o \in Op : DeleteStxo(o) \/ \E s \in Stxo : PutStxo(o, s)
    \/ GetAllStxos

Txns ==
    \/ \E t \in Tx :
         \/ \E r \in Txn : PutTxn(t, r)
         \/ DeleteTxn(t) \/ GetTxn(t)
         \/ \E c \in Callers, h \in Height : GetUpdateHeight(c, t, h)
    \/ \E c \in Callers : PutUpdateHeight(c)
    \/ \E w \in BOOLEAN : GetAllTxns(w)

Keys ==
    \/ \E p \in Purpose :
         \/ \E i \in Index : \/ PutKey(p, i) \/ GetPathForKey(p, i)
                             \/ \E c \in Callers : GetMarkKeyAsUsed(c, p, i)
         \/ GetLastKeyIndex(p) \/ GetUnused(p) \/ GetLookaheadWindow(p)
    \/ \E c \in Callers : PutMarkKeyAsUsed(c)
    \/ GetAllKeys

Others ==
    \/ \E s \in Script : \/ PutSubscription(s) \/ DeleteSubscription(s)
                         \/ GetSubscription(s) \/ GetElectrumScripthash(s)
    \/ \E pw \in Password : GetDecrypted(pw) \/ \E b \in Secret : PutEncrypted(b, pw)
    \/ GetAllSubscriptions \/ PutCreationDate \/ GetCreationDate

Next == Utxos \/ Stxos \/ Txns \/ Keys \/ Others \/ Crash
=============================================================================
