---------------------------- MODULE StoresProofs ----------------------------
(***************************************************************************)
(* The three datastores implement Datastore, for any rows, keys, scripts,  *)
(* passwords and callers.                                                  *)
(***************************************************************************)
EXTENDS Stores, FiniteSetTheorems, TLAPS

-----------------------------------------------------------------------------
(* Type correctness, one lemma for each database. *)

Rest == subs \in [Script -> BOOLEAN] /\ date \in BOOLEAN

LEMMA InitType == Init => TypeOK
  <1> SUFFICES ASSUME Init PROVE TypeOK
    OBVIOUS
  <1>1. CASE db = "bbolt" /\ B!Init
    BY <1>1 DEF B!Init, TypeOK, BoltOK, Table, B!NoCall
  <1>2. CASE db = "sqlite" /\ S!Init
    BY <1>2 DEF S!Init, TypeOK, SqliteOK, Table
  <1>3. CASE db = "mock" /\ M!Init
    BY <1>3 DEF M!Init, TypeOK, MockOK, Table, M!Filed
  <1> QED BY <1>1, <1>2, <1>3 DEF Init

\* The modules agree on what a row is.
LEMMA SameRows ==
    /\ B!Utxo = Utxo /\ S!Utxo = Utxo /\ M!Utxo = Utxo /\ D!Utxo = Utxo
    /\ B!Stxo = Stxo /\ S!Stxo = Stxo /\ M!Stxo = Stxo /\ D!Stxo = Stxo
    /\ B!Txn = Txn /\ S!Txn = Txn /\ M!Txn = Txn /\ D!Txn = Txn
  BY DEF Utxo, B!Utxo, S!Utxo, M!Utxo, D!Utxo, Stxo, B!Stxo, S!Stxo, M!Stxo,
         D!Stxo, Txn, B!Txn, S!Txn, M!Txn, D!Txn

LEMMA SameCardinality ==
    ASSUME NEW X
    PROVE  /\ B!Cardinality(X) = Cardinality(X) /\ S!Cardinality(X) = Cardinality(X)
           /\ M!Cardinality(X) = Cardinality(X) /\ D!Cardinality(X) = Cardinality(X)
  BY DEF Cardinality, B!Cardinality, S!Cardinality, M!Cardinality, D!Cardinality

\* A call of bbolt that reads before it writes.
LEMMA GetType ==
    ASSUME BoltOK, Rest, NEW c \in Callers, NEW op, NEW bucket, NEW id, NEW rec, NEW what,
           rec # NoRow => [op |-> op, bucket |-> bucket, id |-> id, rec |-> rec] \in Call,
           B!Get(c, op, bucket, id, rec, what)
    PROVE  BoltOK' /\ Rest'
  <1>1. call' \in [Callers -> Call \cup {B!NoCall}]
    BY DEF BoltOK, B!Get
  <1> QED BY <1>1 DEF BoltOK, Rest, B!Get

\* bbolt
LEMMA BoltType ==
    ASSUME BoltOK, Rest, B!Next
    PROVE  BoltOK' /\ Rest'
  <1>1. CASE B!Utxos
    <2>1. ASSUME NEW o \in Op, NEW u \in Utxo, B!PutUtxo(o, u) PROVE BoltOK' /\ Rest'
      BY <2>1 DEF BoltOK, Rest, Table, B!PutUtxo
    <2>2. ASSUME NEW o \in Op, B!DeleteUtxo(o) PROVE BoltOK' /\ Rest'
      BY <2>2 DEF BoltOK, Rest, Table, B!DeleteUtxo
    <2>3. ASSUME B!GetAllUtxos PROVE BoltOK' /\ Rest'
      BY <2>3 DEF BoltOK, Rest, B!GetAllUtxos, B!Answered
    <2>4. ASSUME NEW c \in Callers, NEW o \in Op, B!GetSetWatchOnly(c,
        o) PROVE BoltOK' /\ Rest'
      BY <2>4, GetType DEF BoltOK, Table, Call, B!GetSetWatchOnly
    <2>5. ASSUME NEW c \in Callers, NEW o \in Op, B!GetFreeze(c, o) PROVE BoltOK' /\ Rest'
      BY <2>5, GetType DEF BoltOK, Table, Call, B!GetFreeze
    <2>6. ASSUME NEW c \in Callers, NEW o \in Op, B!GetUnFreeze(c, o) PROVE BoltOK' /\ Rest'
      BY <2>6, GetType DEF BoltOK, Table, Call, B!GetUnFreeze
    <2>7. ASSUME NEW c \in Callers, B!PutSetWatchOnly(c) PROVE BoltOK' /\ Rest'
      BY <2>7, ZenonT(40) DEF BoltOK, Rest, Table, Call, Utxo, Txn, B!PutSetWatchOnly, B!Returns,
          B!NoCall
    <2>8. ASSUME NEW c \in Callers, B!PutFreeze(c) PROVE BoltOK' /\ Rest'
      BY <2>8, ZenonT(40) DEF BoltOK, Rest, Table, Call, Utxo, Txn, B!PutFreeze, B!Returns, B!NoCall
    <2> QED BY <1>1, <2>1, <2>2, <2>3, <2>4, <2>5, <2>6, <2>7, <2>8, SameRows DEF B!Utxos
  <1>2. CASE B!Stxos
    <2>1. ASSUME NEW o \in Op, NEW s \in Stxo, B!PutStxo(o, s) PROVE BoltOK' /\ Rest'
      BY <2>1 DEF BoltOK, Rest, Table, B!PutStxo
    <2>2. ASSUME NEW o \in Op, B!DeleteStxo(o) PROVE BoltOK' /\ Rest'
      BY <2>2 DEF BoltOK, Rest, Table, B!DeleteStxo
    <2>3. ASSUME B!GetAllStxos PROVE BoltOK' /\ Rest'
      BY <2>3 DEF BoltOK, Rest, B!GetAllStxos, B!Answered
    <2> QED BY <1>2, <2>1, <2>2, <2>3, SameRows DEF B!Stxos
  <1>3. CASE B!Txns
    <2>1. ASSUME NEW t \in Tx, NEW r \in Txn, B!PutTxn(t, r) PROVE BoltOK' /\ Rest'
      BY <2>1 DEF BoltOK, Rest, Table, B!PutTxn
    <2>2. ASSUME NEW t \in Tx, B!DeleteTxn(t) PROVE BoltOK' /\ Rest'
      BY <2>2 DEF BoltOK, Rest, Table, B!DeleteTxn
    <2>3. ASSUME NEW t \in Tx, B!GetTxn(t) PROVE BoltOK' /\ Rest'
      BY <2>3 DEF BoltOK, Rest, B!GetTxn, B!Answered
    <2>4. ASSUME NEW w \in BOOLEAN, B!GetAllTxns(w) PROVE BoltOK' /\ Rest'
      BY <2>4 DEF BoltOK, Rest, B!GetAllTxns, B!Answered
    <2>5. ASSUME NEW t \in Tx, NEW c \in Callers, NEW h \in Height,
        B!GetUpdateHeight(c, t, h) PROVE BoltOK' /\ Rest'
      BY <2>5, GetType DEF BoltOK, Table, Call, B!GetUpdateHeight
    <2>6. ASSUME NEW c \in Callers, B!PutUpdateHeight(c) PROVE BoltOK' /\ Rest'
      BY <2>6 DEF BoltOK, Rest, Table, Call, Utxo, Txn, B!PutUpdateHeight, B!Returns,
          B!NoCall
    <2> QED BY <1>3, <2>1, <2>2, <2>3, <2>4, <2>5, <2>6, SameRows DEF B!Txns
  <1>4. CASE B!Keys
    <2>1. ASSUME NEW p \in Purpose, NEW i \in Index, B!PutKey(p, i) PROVE BoltOK' /\ Rest'
      BY <2>1 DEF BoltOK, Rest, Table, B!PutKey
    <2>2. ASSUME NEW p \in Purpose, NEW i \in Index, B!GetPathForKey(p,
        i) PROVE BoltOK' /\ Rest'
      BY <2>2 DEF BoltOK, Rest, B!GetPathForKey, B!Answered
    <2>3. ASSUME NEW p \in Purpose, B!GetLastKeyIndex(p) PROVE BoltOK' /\ Rest'
      BY <2>3 DEF BoltOK, Rest, B!GetLastKeyIndex, B!Answered
    <2>4. ASSUME NEW p \in Purpose, B!GetUnused(p) PROVE BoltOK' /\ Rest'
      BY <2>4 DEF BoltOK, Rest, B!GetUnused, B!Answered
    <2>5. ASSUME NEW p \in Purpose, B!GetLookaheadWindow(p) PROVE BoltOK' /\ Rest'
      BY <2>5 DEF BoltOK, Rest, B!GetLookaheadWindow, B!Answered
    <2>6. ASSUME B!GetAllKeys PROVE BoltOK' /\ Rest'
      BY <2>6 DEF BoltOK, Rest, B!GetAllKeys, B!Answered
    <2>7. ASSUME NEW p \in Purpose, NEW i \in Index, NEW c \in Callers,
        B!GetMarkKeyAsUsed(c, p, i) PROVE BoltOK' /\ Rest'
      <3>1. keys[p][i] # NoRow => keys[p][i] \in BOOLEAN
        BY DEF BoltOK, Table
      <3> QED BY <2>7, <3>1, GetType DEF Call, B!GetMarkKeyAsUsed
    <2>8. ASSUME NEW c \in Callers, B!PutMarkKeyAsUsed(c) PROVE BoltOK' /\ Rest'
      BY <2>8 DEF BoltOK, Rest, Table, Call, Utxo, Txn, B!PutMarkKeyAsUsed, B!Returns,
          B!NoCall
    <2> QED BY <1>4, <2>1, <2>2, <2>3, <2>4, <2>5, <2>6, <2>7, <2>8 DEF B!Keys
  <1>5. CASE B!Others
    <2>1. ASSUME NEW s \in Script, B!PutSubscription(s) PROVE BoltOK' /\ Rest'
      BY <2>1 DEF BoltOK, Rest, Table, B!PutSubscription
    <2>2. ASSUME NEW s \in Script, B!DeleteSubscription(s) PROVE BoltOK' /\ Rest'
      BY <2>2 DEF BoltOK, Rest, Table, B!DeleteSubscription
    <2>3. ASSUME NEW s \in Script, B!GetSubscription(s) PROVE BoltOK' /\ Rest'
      BY <2>3 DEF BoltOK, Rest, B!GetSubscription, B!Answered
    <2>4. ASSUME NEW s \in Script, B!GetElectrumScripthash(s) PROVE BoltOK' /\ Rest'
      BY <2>4 DEF BoltOK, Rest, B!GetElectrumScripthash, B!Answered
    <2>5. ASSUME NEW pw \in Password, B!GetDecrypted(pw) PROVE BoltOK' /\ Rest'
      BY <2>5 DEF BoltOK, Rest, B!GetDecrypted, B!Answered
    <2>6. ASSUME NEW pw \in Password, NEW b \in Secret, B!PutEncrypted(b,
        pw) PROVE BoltOK' /\ Rest'
      BY <2>6 DEF BoltOK, Rest, Enc, B!PutEncrypted, B!encryptBytes
    <2>7. ASSUME B!GetAllSubscriptions PROVE BoltOK' /\ Rest'
      BY <2>7 DEF BoltOK, Rest, B!GetAllSubscriptions, B!Answered
    <2>8. ASSUME B!PutCreationDate PROVE BoltOK' /\ Rest'
      BY <2>8 DEF BoltOK, Rest, Table, B!PutCreationDate
    <2>9. ASSUME B!GetCreationDate PROVE BoltOK' /\ Rest'
      BY <2>9 DEF BoltOK, Rest, B!GetCreationDate, B!Answered
    <2> QED BY <1>5, <2>1, <2>2, <2>3, <2>4, <2>5, <2>6, <2>7, <2>8, <2>9 DEF B!Others
  <1>6. CASE B!Crash
    BY <1>6 DEF BoltOK, Rest, B!Crash
  <1> QED BY <1>1, <1>2, <1>3, <1>4, <1>5, <1>6 DEF B!Next

\* sqlite
LEMMA SqliteType ==
    ASSUME SqliteOK, Rest, S!Next
    PROVE  SqliteOK' /\ Rest'
  <1>1. CASE S!Utxos
    <2>1. ASSUME NEW o \in Op, NEW u \in Utxo, S!PutUtxo(o, u) PROVE SqliteOK' /\ Rest'
      BY <2>1 DEF SqliteOK, Rest, Table, Utxo, S!UtxoRow, S!Bit, S!Column, S!PutUtxo
    <2>2. ASSUME NEW o \in Op, S!DeleteUtxo(o) PROVE SqliteOK' /\ Rest'
      BY <2>2 DEF SqliteOK, Rest, Table, S!DeleteUtxo
    <2>3. ASSUME S!GetAllUtxos PROVE SqliteOK' /\ Rest'
      BY <2>3 DEF SqliteOK, Rest, S!GetAllUtxos, S!Answered
    <2>4. ASSUME NEW o \in Op, S!SetWatchOnly(o) PROVE SqliteOK' /\ Rest'
      BY <2>4 DEF SqliteOK, Rest, Table, S!UtxoRow, S!Bit, S!SetWatchOnly
    <2>5. ASSUME NEW o \in Op, S!Freeze(o) PROVE SqliteOK' /\ Rest'
      BY <2>5 DEF SqliteOK, Rest, Table, S!UtxoRow, S!Bit, S!Freeze
    <2>6. ASSUME NEW o \in Op, S!UnFreeze(o) PROVE SqliteOK' /\ Rest'
      BY <2>6 DEF SqliteOK, Rest, Table, S!UtxoRow, S!Bit, S!UnFreeze
    <2> QED BY <1>1, <2>1, <2>2, <2>3, <2>4, <2>5, <2>6, SameRows DEF S!Utxos
  <1>2. CASE S!Stxos
    <2>1. ASSUME NEW o \in Op, NEW s \in Stxo, S!PutStxo(o, s) PROVE SqliteOK' /\ Rest'
      BY <2>1 DEF SqliteOK, Rest, Table, Stxo, S!StxoRow, S!Bit, S!Column, S!PutStxo
    <2>2. ASSUME NEW o \in Op, S!DeleteStxo(o) PROVE SqliteOK' /\ Rest'
      BY <2>2 DEF SqliteOK, Rest, Table, S!DeleteStxo
    <2>3. ASSUME S!GetAllStxos PROVE SqliteOK' /\ Rest'
      BY <2>3 DEF SqliteOK, Rest, S!GetAllStxos, S!Answered
    <2> QED BY <1>2, <2>1, <2>2, <2>3, SameRows DEF S!Stxos
  <1>3. CASE S!Txns
    <2>1. ASSUME NEW t \in Tx, NEW r \in Txn, S!PutTxn(t, r) PROVE SqliteOK' /\ Rest'
      BY <2>1 DEF SqliteOK, Rest, Table, Txn, S!TxnRow, S!Bit, S!Column, S!PutTxn
    <2>2. ASSUME NEW t \in Tx, S!DeleteTxn(t) PROVE SqliteOK' /\ Rest'
      BY <2>2 DEF SqliteOK, Rest, Table, S!DeleteTxn
    <2>3. ASSUME NEW t \in Tx, S!GetTxn(t) PROVE SqliteOK' /\ Rest'
      BY <2>3 DEF SqliteOK, Rest, S!GetTxn, S!Answered
    <2>4. ASSUME NEW w \in BOOLEAN, S!GetAllTxns(w) PROVE SqliteOK' /\ Rest'
      BY <2>4 DEF SqliteOK, Rest, S!GetAllTxns, S!Answered
    <2>5. ASSUME NEW t \in Tx, NEW h \in Height, S!UpdateHeight(t,
        h) PROVE SqliteOK' /\ Rest'
      BY <2>5 DEF SqliteOK, Rest, Table, S!TxnRow, S!UpdateHeight
    <2> QED BY <1>3, <2>1, <2>2, <2>3, <2>4, <2>5, SameRows DEF S!Txns
  <1>4. CASE S!Keys
    <2>1. ASSUME NEW p \in Purpose, NEW i \in Index, S!PutKey(p, i) PROVE SqliteOK' /\ Rest'
      BY <2>1 DEF SqliteOK, Rest, Table, S!KeyRow, S!Bit, S!Rows, S!Rowids, S!PutKey
    <2>2. ASSUME NEW p \in Purpose, NEW i \in Index, S!GetPathForKey(p,
        i) PROVE SqliteOK' /\ Rest'
      BY <2>2 DEF SqliteOK, Rest, S!GetPathForKey, S!Answered
    <2>3. ASSUME NEW p \in Purpose, S!GetLastKeyIndex(p) PROVE SqliteOK' /\ Rest'
      BY <2>3 DEF SqliteOK, Rest, S!GetLastKeyIndex, S!Answered
    <2>4. ASSUME NEW p \in Purpose, S!GetUnused(p) PROVE SqliteOK' /\ Rest'
      BY <2>4 DEF SqliteOK, Rest, S!GetUnused, S!Answered
    <2>5. ASSUME NEW p \in Purpose, S!GetLookaheadWindow(p) PROVE SqliteOK' /\ Rest'
      BY <2>5 DEF SqliteOK, Rest, S!GetLookaheadWindow, S!Answered
    <2>6. ASSUME S!GetAllKeys PROVE SqliteOK' /\ Rest'
      BY <2>6 DEF SqliteOK, Rest, S!GetAllKeys, S!Answered
    <2>7. ASSUME NEW p \in Purpose, NEW i \in Index, S!MarkKeyAsUsed(p,
        i) PROVE SqliteOK' /\ Rest'
      BY <2>7 DEF SqliteOK, Rest, Table, S!KeyRow, S!Bit, S!MarkKeyAsUsed
    <2> QED BY <1>4, <2>1, <2>2, <2>3, <2>4, <2>5, <2>6, <2>7 DEF S!Keys
  <1>5. CASE S!Others
    <2>1. ASSUME NEW s \in Script, S!PutSubscription(s) PROVE SqliteOK' /\ Rest'
      BY <2>1 DEF SqliteOK, Rest, Table, S!PutSubscription
    <2>2. ASSUME NEW s \in Script, S!DeleteSubscription(s) PROVE SqliteOK' /\ Rest'
      BY <2>2 DEF SqliteOK, Rest, Table, S!DeleteSubscription
    <2>3. ASSUME NEW s \in Script, S!GetSubscription(s) PROVE SqliteOK' /\ Rest'
      BY <2>3 DEF SqliteOK, Rest, S!GetSubscription, S!Answered
    <2>4. ASSUME NEW s \in Script, S!GetElectrumScripthash(s) PROVE SqliteOK' /\ Rest'
      BY <2>4 DEF SqliteOK, Rest, S!GetElectrumScripthash, S!Answered
    <2>5. ASSUME NEW pw \in Password, S!GetDecrypted(pw) PROVE SqliteOK' /\ Rest'
      BY <2>5 DEF SqliteOK, Rest, S!GetDecrypted, S!Answered
    <2>6. ASSUME NEW pw \in Password, NEW b \in Secret, S!PutEncrypted(b,
        pw) PROVE SqliteOK' /\ Rest'
      BY <2>6 DEF SqliteOK, Rest, Enc, S!PutEncrypted, S!encryptBytes
    <2>7. ASSUME S!GetAllSubscriptions PROVE SqliteOK' /\ Rest'
      BY <2>7 DEF SqliteOK, Rest, S!GetAllSubscriptions, S!Answered
    <2>8. ASSUME S!PutCreationDate PROVE SqliteOK' /\ Rest'
      BY <2>8 DEF SqliteOK, Rest, Table, S!PutCreationDate
    <2>9. ASSUME S!GetCreationDate PROVE SqliteOK' /\ Rest'
      BY <2>9 DEF SqliteOK, Rest, S!GetCreationDate, S!Answered
    <2> QED BY <1>5, <2>1, <2>2, <2>3, <2>4, <2>5, <2>6, <2>7, <2>8, <2>9 DEF S!Others
  <1> QED BY <1>1, <1>2, <1>3, <1>4, <1>5 DEF S!Next

\* The mock
LEMMA MockType ==
    ASSUME MockOK, Rest, M!Next
    PROVE  MockOK' /\ Rest'
  <1>1. CASE M!Utxos
    <2>1. ASSUME NEW o \in Op, NEW u \in Utxo, M!PutUtxo(o, u) PROVE MockOK' /\ Rest'
      BY <2>1 DEF MockOK, Rest, M!Filed, Table, M!PutUtxo
    <2>2. ASSUME NEW o \in Op, M!DeleteUtxo(o) PROVE MockOK' /\ Rest'
      BY <2>2 DEF MockOK, Rest, M!Filed, Table, M!DeleteUtxo
    <2>3. ASSUME M!GetAllUtxos PROVE MockOK' /\ Rest'
      BY <2>3 DEF MockOK, Rest, M!Filed, M!GetAllUtxos, M!Answered
    <2>4. ASSUME NEW o \in Op, M!SetWatchOnly(o) PROVE MockOK' /\ Rest'
      BY <2>4 DEF MockOK, Rest, M!Filed, Table, Utxo, M!SetWatchOnly
    <2>5. ASSUME NEW o \in Op, M!Freeze(o) PROVE MockOK' /\ Rest'
      BY <2>5 DEF MockOK, Rest, M!Filed, Table, Utxo, M!Freeze
    <2>6. ASSUME NEW o \in Op, M!UnFreeze(o) PROVE MockOK' /\ Rest'
      BY <2>6 DEF MockOK, Rest, M!Filed, Table, Utxo, M!UnFreeze
    <2> QED BY <1>1, <2>1, <2>2, <2>3, <2>4, <2>5, <2>6, SameRows DEF M!Utxos
  <1>2. CASE M!Txns
    <2>1. ASSUME NEW t \in Tx, NEW r \in Txn, M!PutTxn(t, r) PROVE MockOK' /\ Rest'
      BY <2>1 DEF MockOK, Rest, M!Filed, Table, M!PutTxn
    <2>2. ASSUME NEW t \in Tx, M!DeleteTxn(t) PROVE MockOK' /\ Rest'
      BY <2>2 DEF MockOK, Rest, M!Filed, Table, M!DeleteTxn
    <2>3. ASSUME NEW t \in Tx, M!GetTxn(t) PROVE MockOK' /\ Rest'
      BY <2>3 DEF MockOK, Rest, M!Filed, M!GetTxn, M!Answered
    <2>4. ASSUME NEW w \in BOOLEAN, M!GetAllTxns(w) PROVE MockOK' /\ Rest'
      BY <2>4 DEF MockOK, Rest, M!Filed, M!GetAllTxns, M!Answered
    <2>5. ASSUME NEW t \in Tx, NEW h \in Height, M!UpdateHeight(t, h) PROVE MockOK' /\ Rest'
      BY <2>5 DEF MockOK, Rest, M!Filed, Table, Txn, M!UpdateHeight
    <2> QED BY <1>2, <2>1, <2>2, <2>3, <2>4, <2>5, SameRows DEF M!Txns
  <1>3. CASE M!Keys
    <2>1. ASSUME NEW p \in Purpose, NEW i \in Index, M!PutKey(p, i) PROVE MockOK' /\ Rest'
      BY <2>1 DEF MockOK, Rest, M!Filed, Table, M!PutKey
    <2>2. ASSUME NEW p \in Purpose, NEW i \in Index, M!GetPathForKey(p,
        i) PROVE MockOK' /\ Rest'
      BY <2>2 DEF MockOK, Rest, M!Filed, M!GetPathForKey, M!Answered
    <2>3. ASSUME NEW p \in Purpose, M!GetLastKeyIndex(p) PROVE MockOK' /\ Rest'
      BY <2>3 DEF MockOK, Rest, M!Filed, M!GetLastKeyIndex, M!Answered
    <2>4. ASSUME NEW p \in Purpose, M!GetUnused(p) PROVE MockOK' /\ Rest'
      BY <2>4 DEF MockOK, Rest, M!Filed, M!GetUnused, M!Answered
    <2>5. ASSUME NEW p \in Purpose, M!GetLookaheadWindow(p) PROVE MockOK' /\ Rest'
      BY <2>5 DEF MockOK, Rest, M!Filed, M!GetLookaheadWindow, M!Answered
    <2>6. ASSUME M!GetAllKeys PROVE MockOK' /\ Rest'
      BY <2>6 DEF MockOK, Rest, M!Filed, M!GetAllKeys, M!Answered
    <2>7. ASSUME NEW p \in Purpose, NEW i \in Index, M!MarkKeyAsUsed(p,
        i) PROVE MockOK' /\ Rest'
      BY <2>7 DEF MockOK, Rest, M!Filed, Table, M!MarkKeyAsUsed
    <2> QED BY <1>3, <2>1, <2>2, <2>3, <2>4, <2>5, <2>6, <2>7 DEF M!Keys
  <1>4. CASE M!Others
    <2>1. ASSUME NEW s \in Script, M!PutSubscription(s) PROVE MockOK' /\ Rest'
      BY <2>1 DEF MockOK, Rest, M!Filed, Table, M!PutSubscription
    <2>2. ASSUME NEW s \in Script, M!DeleteSubscription(s) PROVE MockOK' /\ Rest'
      BY <2>2 DEF MockOK, Rest, M!Filed, Table, M!DeleteSubscription
    <2>3. ASSUME NEW s \in Script, M!GetSubscription(s) PROVE MockOK' /\ Rest'
      BY <2>3 DEF MockOK, Rest, M!Filed, M!GetSubscription, M!Answered
    <2>4. ASSUME NEW s \in Script, M!GetElectrumScripthash(s) PROVE MockOK' /\ Rest'
      BY <2>4 DEF MockOK, Rest, M!Filed, M!GetElectrumScripthash, M!Answered
    <2>5. ASSUME NEW pw \in Password, M!GetDecrypted(pw) PROVE MockOK' /\ Rest'
      BY <2>5 DEF MockOK, Rest, M!Filed, M!GetDecrypted, M!Answered
    <2>6. ASSUME NEW pw \in Password, NEW b \in Secret, M!PutEncrypted(b,
        pw) PROVE MockOK' /\ Rest'
      BY <2>6 DEF MockOK, Rest, M!Filed, Table, M!PutEncrypted
    <2>7. ASSUME M!GetAllSubscriptions PROVE MockOK' /\ Rest'
      BY <2>7 DEF MockOK, Rest, M!Filed, M!GetAllSubscriptions, M!Answered
    <2>8. ASSUME M!PutCreationDate PROVE MockOK' /\ Rest'
      BY <2>8 DEF MockOK, Rest, M!Filed, Table, M!PutCreationDate
    <2>9. ASSUME M!GetCreationDate PROVE MockOK' /\ Rest'
      BY <2>9 DEF MockOK, Rest, M!Filed, M!GetCreationDate, M!Answered
    <2> QED BY <1>4, <2>1, <2>2, <2>3, <2>4, <2>5, <2>6, <2>7, <2>8, <2>9 DEF M!Others
  <1>5. CASE M!Stxos
    <2>1. ASSUME NEW o \in Op, NEW s \in Stxo, M!PutStxo(o, s) PROVE MockOK' /\ Rest'
      <3>1. s.spender \in Tx /\ [op |-> o, stxo |-> s] \in [op : Op, stxo : Stxo]
        BY DEF Stxo
      <3>2. stxos' \in [Tx -> [op : Op, stxo : Stxo] \cup {NoRow}]
        BY <2>1, <3>1 DEF MockOK, M!PutStxo
      <3>3. \A t \in Tx : stxos'[t] = IF t = s.spender THEN [op |-> o, stxo |-> s] ELSE stxos[t]
        BY <2>1, <3>1 DEF MockOK, M!PutStxo
      <3>4. ASSUME NEW t \in Tx, stxos'[t] # NoRow PROVE stxos'[t].stxo.spender = t
        BY <3>3, <3>4 DEF MockOK, M!Filed
      <3> QED BY <2>1, <3>2, <3>4 DEF MockOK, Rest, M!PutStxo, M!Filed
    <2>2. ASSUME NEW o \in Op, NEW t \in Tx, M!DeleteStxo(o, t) PROVE MockOK' /\ Rest'
      BY <2>2 DEF MockOK, Rest, M!DeleteStxo, M!Filed
    <2>3. ASSUME M!GetAllStxos PROVE MockOK' /\ Rest'
      BY <2>3 DEF MockOK, Rest, M!Filed, M!GetAllStxos, M!Answered
    <2> QED BY <1>5, <2>1, <2>2, <2>3, SameRows DEF M!Stxos
  <1> QED BY <1>1, <1>2, <1>3, <1>4, <1>5 DEF M!Next

-----------------------------------------------------------------------------
(* bbolt: a key that has been read is still there when it is written back. *)

KeyCurrent ==
    \A c \in Callers : call[c] # B!NoCall /\ call[c].bucket = "keys"
                       => keys[call[c].id[1]][call[c].id[2]] # NoRow

LEMMA CallType ==
    ASSUME BoltOK, NEW c \in Callers, call[c] # B!NoCall
    PROVE  /\ call[c].op[1] \in {"watch", "freeze"}
                => call[c].bucket = "utxos" /\ call[c].id \in Op /\ call[c].rec \in Utxo
           /\ call[c].op[1] = "freeze" => call[c].op[2] \in BOOLEAN
           /\ call[c].op[1] = "used" => call[c].bucket = "keys"
           /\ call[c].bucket = "keys"
                => /\ call[c].id[1] \in Purpose /\ call[c].id[2] \in Index
           /\ call[c].op[1] = "height"
                => /\ call[c].bucket = "txns" /\ call[c].id \in Tx /\ call[c].rec \in Txn
                   /\ call[c].op[2] \in Height
  BY DEF BoltOK, Call

LEMMA BoltCurrent ==
    ASSUME BoltOK, KeyCurrent, B!Next
    PROVE  KeyCurrent'
  <1>1. ASSUME \A q \in Purpose, i \in Index : keys[q][i] # NoRow => keys'[q][i] # NoRow,
               \A d \in Callers : call'[d] # B!NoCall /\ call'[d].bucket = "keys"
                                 => call'[d] = call[d]
        PROVE  KeyCurrent'
    BY <1>1, CallType DEF KeyCurrent
  <1>2. ASSUME NEW c \in Callers, NEW op, NEW bucket, NEW id, NEW rec, NEW what,
               bucket \in {"utxos", "txns"}, B!Get(c, op, bucket, id, rec, what)
        PROVE  KeyCurrent'
    <2>1. \A d \in Callers : call'[d] # B!NoCall /\ call'[d].bucket = "keys"
                             => call'[d] = call[d]
      BY <1>2 DEF B!Get, BoltOK
    <2> QED BY <1>1, <1>2, <2>1 DEF B!Get
  <1>3. ASSUME NEW c \in Callers, NEW what, B!Returns(c, what), keys' = keys
        PROVE  KeyCurrent'
    BY <1>1, <1>3 DEF B!Returns, BoltOK
  <1>4. ASSUME NEW p \in Purpose, NEW i \in Index, NEW c \in Callers, B!GetMarkKeyAsUsed(c, p, i)
        PROVE  KeyCurrent'
    <2>1. keys' = keys
      BY <1>4 DEF B!GetMarkKeyAsUsed, B!Get
    <2>2. CASE keys[p][i] = NoRow
      BY <1>1, <1>4, <2>1, <2>2 DEF B!GetMarkKeyAsUsed, B!Get
    <2>3. CASE keys[p][i] # NoRow
      <3> DEFINE r == [op |-> <<"used", TRUE>>, bucket |-> "keys", id |-> <<p, i>>,
                       rec |-> keys[p][i]]
      <3>1. call' = [call EXCEPT ![c] = r]
        BY <1>4, <2>3 DEF B!GetMarkKeyAsUsed, B!Get
      <3>2. r.id[1] = p /\ r.id[2] = i
        OBVIOUS
      <3> HIDE DEF r
      <3>3. \A d \in Callers : call'[d] = IF d = c THEN r ELSE call[d]
        BY <3>1 DEF BoltOK
      <3>4. ASSUME NEW d \in Callers, call'[d] # B!NoCall, call'[d].bucket = "keys"
            PROVE  keys[call'[d].id[1]][call'[d].id[2]] # NoRow
        BY <2>3, <3>2, <3>3, <3>4 DEF KeyCurrent
      <3> QED BY <2>1, <3>4 DEF KeyCurrent
    <2> QED BY <2>2, <2>3
  <1>5. ASSUME NEW c \in Callers, B!PutMarkKeyAsUsed(c) PROVE KeyCurrent'
    <2>1. \A q \in Purpose, i \in Index : keys[q][i] # NoRow => keys'[q][i] # NoRow
      BY <1>5, CallType, NoRowAssumption DEF BoltOK, Table, B!PutMarkKeyAsUsed
    <2>2. \A d \in Callers : call'[d] # B!NoCall => call'[d] = call[d]
      BY <1>5 DEF BoltOK, B!PutMarkKeyAsUsed, B!Returns
    <2> QED BY <1>1, <2>1, <2>2
  <1>6. ASSUME NEW p \in Purpose, NEW i \in Index, B!PutKey(p, i) PROVE KeyCurrent'
    <2>1. \A q \in Purpose, j \in Index : keys[q][j] # NoRow => keys'[q][j] # NoRow
      BY <1>6, NoRowAssumption DEF BoltOK, Table, B!PutKey
    <2> QED BY <1>1, <1>6, <2>1 DEF B!PutKey
  <1>7. ASSUME UNCHANGED <<keys, call>> PROVE KeyCurrent'
    BY <1>1, <1>7
  <1>8. CASE B!Utxos
    <2>1. ASSUME NEW c \in Callers, NEW o \in Op,
                 B!GetSetWatchOnly(c, o) \/ B!GetFreeze(c, o) \/ B!GetUnFreeze(c, o)
          PROVE  KeyCurrent'
      <3>1. CASE B!GetSetWatchOnly(c, o)
        BY <3>1, <1>2 DEF B!GetSetWatchOnly
      <3>2. CASE B!GetFreeze(c, o)
        BY <3>2, <1>2 DEF B!GetFreeze
      <3>3. CASE B!GetUnFreeze(c, o)
        BY <3>3, <1>2 DEF B!GetUnFreeze
      <3> QED BY <2>1, <3>1, <3>2, <3>3
    <2>2. ASSUME NEW c \in Callers, B!PutSetWatchOnly(c) \/ B!PutFreeze(c)
          PROVE  KeyCurrent'
      BY <1>3, <2>2 DEF B!PutSetWatchOnly, B!PutFreeze
    <2> QED BY <1>7, <1>8, <2>1, <2>2 DEF B!Utxos, B!PutUtxo, B!DeleteUtxo, B!GetAllUtxos,
           B!Answered
  <1>9. CASE B!Stxos
    BY <1>7, <1>9 DEF B!Stxos, B!PutStxo, B!DeleteStxo, B!GetAllStxos, B!Answered
  <1>10. CASE B!Txns
    <2>1. ASSUME NEW c \in Callers, NEW t \in Tx, NEW h \in Height, B!GetUpdateHeight(c, t, h)
          PROVE  KeyCurrent'
      BY <1>2, <2>1 DEF B!GetUpdateHeight
    <2>2. ASSUME NEW c \in Callers, B!PutUpdateHeight(c) PROVE KeyCurrent'
      BY <1>3, <2>2 DEF B!PutUpdateHeight
    <2> QED BY <1>7, <1>10, <2>1, <2>2 DEF B!Txns, B!PutTxn, B!DeleteTxn, B!GetTxn,
           B!GetAllTxns, B!Answered
  <1>11. CASE B!Keys
    BY <1>4, <1>5, <1>6, <1>7, <1>11 DEF B!Keys, B!GetPathForKey, B!GetLastKeyIndex,
       B!GetUnused, B!GetLookaheadWindow, B!GetAllKeys, B!Answered
  <1>12. CASE B!Others
    BY <1>7, <1>12 DEF B!Others, B!PutSubscription, B!DeleteSubscription, B!GetSubscription,
       B!GetElectrumScripthash, B!GetDecrypted, B!PutEncrypted, B!GetAllSubscriptions,
       B!PutCreationDate, B!GetCreationDate, B!Answered
  <1>13. CASE B!Crash
    BY <1>13 DEF KeyCurrent, B!Crash
  <1> QED BY <1>8, <1>9, <1>10, <1>11, <1>12, <1>13 DEF B!Next

-----------------------------------------------------------------------------
(* bbolt implements Datastore. *)

LEMMA BoltSeen ==
    ASSUME db = "bbolt", db' = db
    PROVE  /\ UtxosSeen = utxos /\ UtxosSeen' = utxos'
           /\ StxosSeen = [o \in Op |-> B!StxoOf(stxos[o])]
           /\ StxosSeen' = [o \in Op |-> B!StxoOf(stxos'[o])]
           /\ TxnsSeen = txns /\ TxnsSeen' = txns'
           /\ KeysSeen = keys /\ KeysSeen' = keys'
           /\ EncSeen = enc /\ EncSeen' = enc'
  BY DEF UtxosSeen, StxosSeen, TxnsSeen, KeysSeen, EncSeen, B!StxoOf

\* A spent coin as it is seen is told from none.
LEMMA StxoThere ==
    /\ B!StxoOf(NoRow) = NoRow
    /\ \A s \in Stxo : B!StxoOf(s) # NoRow /\ M!StxoOf(s) # NoRow
  <1>1. \A s \in Stxo : B!StxoOf(s) \in SpentCoin /\ M!StxoOf(s) \in SpentCoin
    BY NoRowAssumption DEF Stxo, SpentCoin, B!StxoOf, M!StxoOf
  <1> QED BY <1>1, NoRowAssumption DEF B!StxoOf

LEMMA BoltUnused ==
    ASSUME db = "bbolt", BoltOK, NEW p \in Purpose
    PROVE  B!Unused(p) = D!Unused(p)
  <1>1. \A i \in Index : (keys[p][i] # NoRow /\ ~keys[p][i]) <=> keys[p][i] = FALSE
    <2> TAKE i \in Index
    <2>1. keys[p][i] \in BOOLEAN \cup {NoRow}
      BY DEF BoltOK, Table
    <2>2. CASE keys[p][i] = NoRow
      BY <2>2, NoRowAssumption
    <2>3. CASE keys[p][i] = TRUE
      BY <2>3
    <2>4. CASE keys[p][i] = FALSE
      BY <2>4, NoRowAssumption
    <2> QED BY <2>1, <2>2, <2>3, <2>4
  <1> QED BY <1>1 DEF B!Unused, B!Records, D!Unused, KeysSeen

LEMMA BoltImplements ==
    ASSUME db = "bbolt", db' = db, BoltOK, KeyCurrent, B!Next
    PROVE  [D!Next]_(D!vars) \/ Diverges
  <1>1. CASE B!Utxos
    <2>1. ASSUME NEW o \in Op, NEW u \in Utxo, B!PutUtxo(o, u) PROVE [D!Next]_(D!vars)
      <3>1. D!PutUtxo(o, u)
        BY <2>1, BoltSeen DEF B!PutUtxo, D!PutUtxo
      <3> QED BY <3>1, SameRows DEF D!Next, D!Change
    <2>2. ASSUME NEW o \in Op, B!DeleteUtxo(o) PROVE [D!Next]_(D!vars)
      <3>1. D!DeleteUtxo(o)
        BY <2>2, BoltSeen DEF B!DeleteUtxo, D!DeleteUtxo
      <3> QED BY <3>1, SameRows DEF D!Next, D!Change
    <2>3. ASSUME B!GetAllUtxos PROVE [D!Next]_(D!vars)
      <3>1. D!GetAllUtxos
        BY <2>3, BoltSeen DEF B!GetAllUtxos, B!Answered, D!GetAllUtxos, D!Answered
      <3> QED BY <3>1 DEF D!Next, D!Query
    <2>4. ASSUME NEW c \in Callers, NEW o \in Op, B!GetSetWatchOnly(c,
        o) PROVE [D!Next]_(D!vars)
      <3>1. D!SetWatchOnly(o) \/ UNCHANGED D!vars
        BY <2>4, BoltSeen DEF D!SetWatchOnly, D!vars, B!GetSetWatchOnly, B!Get
      <3> QED BY <3>1 DEF D!Next, D!Change
    <2>5. ASSUME NEW c \in Callers, NEW o \in Op, B!GetFreeze(c, o) PROVE [D!Next]_(D!vars)
      <3>1. D!Freeze(o, TRUE) \/ UNCHANGED D!vars
        BY <2>5, BoltSeen DEF D!Freeze, D!vars, B!GetFreeze, B!Get
      <3> QED BY <3>1 DEF D!Next, D!Change
    <2>6. ASSUME NEW c \in Callers, NEW o \in Op, B!GetUnFreeze(c,
        o) PROVE [D!Next]_(D!vars)
      <3>1. D!Freeze(o, FALSE) \/ UNCHANGED D!vars
        BY <2>6, BoltSeen DEF D!Freeze, D!vars, B!GetUnFreeze, B!Get
      <3> QED BY <3>1 DEF D!Next, D!Change
    <2>7. ASSUME NEW c \in Callers, B!PutSetWatchOnly(c), ~Stale(c) PROVE [D!Next]_(D!vars)
      <3>1. utxos[call[c].id] = call[c].rec /\ call[c].id \in Op /\ call[c].rec \in Utxo
        BY <2>7, CallType DEF Stale, B!PutSetWatchOnly
      <3>2. D!SetWatchOnly(call[c].id)
        BY <2>7, <3>1, BoltSeen, NoRowAssumption DEF BoltOK, Table, D!SetWatchOnly,
            B!PutSetWatchOnly, B!Returns
      <3> QED BY <2>7, <3>2, CallType DEF D!Next, D!Change, B!PutSetWatchOnly
    <2>8. ASSUME NEW c \in Callers, B!PutFreeze(c), ~Stale(c) PROVE [D!Next]_(D!vars)
      <3>1. utxos[call[c].id] = call[c].rec /\ call[c].id \in Op /\ call[c].rec \in Utxo
        BY <2>8, CallType DEF Stale, B!PutFreeze
      <3>2. D!Freeze(call[c].id, call[c].op[2])
        BY <2>8, <3>1, BoltSeen, NoRowAssumption DEF BoltOK, Table, D!Freeze,
            B!PutFreeze, B!Returns
      <3> QED BY <2>8, <3>2, CallType DEF D!Next, D!Change, B!PutFreeze
    <2>9. ASSUME NEW c \in Callers, B!PutSetWatchOnly(c) \/ B!PutFreeze(c), Stale(c)
          PROVE  Diverges
      BY <2>9 DEF Diverges, LostUpdate
    <2> QED BY <1>1, <2>1, <2>2, <2>3, <2>4, <2>5, <2>6, <2>7, <2>8, <2>9, SameRows DEF B!Utxos
  <1>2. CASE B!Stxos
    <2>1. ASSUME NEW o \in Op, NEW s \in Stxo, B!PutStxo(o, s) PROVE [D!Next]_(D!vars)
      <3>1. B!StxoOf(s) = D!Spent(s)
        BY NoRowAssumption DEF B!StxoOf, D!Spent
      <3>2. StxosSeen' = [StxosSeen EXCEPT ![o] = D!Spent(s)]
        BY <2>1, <3>1, BoltSeen DEF B!PutStxo, BoltOK, Table
      <3>3. D!PutStxo(o, s)
        BY <2>1, <3>2, BoltSeen DEF B!PutStxo, D!PutStxo
      <3> QED BY <3>3, SameRows DEF D!Next, D!Change
    <2>2. ASSUME NEW o \in Op, B!DeleteStxo(o) PROVE [D!Next]_(D!vars)
      <3>1. B!StxoOf(NoRow) = NoRow
        BY NoRowAssumption DEF B!StxoOf, D!Spent
      <3>2. StxosSeen' = [StxosSeen EXCEPT ![o] = NoRow]
        BY <2>2, <3>1, BoltSeen DEF B!DeleteStxo, BoltOK, Table
      <3>3. D!DeleteStxo(o)
        BY <2>2, <3>2, BoltSeen DEF B!DeleteStxo, D!DeleteStxo
      <3> QED BY <3>3, SameRows DEF D!Next, D!Change
    <2>3. ASSUME B!GetAllStxos PROVE [D!Next]_(D!vars)
      <3>1. D!GetAllStxos
        <4>1. \A o \in Op : stxos[o] # NoRow <=> StxosSeen[o] # NoRow
          BY BoltSeen, StxoThere DEF BoltOK, Table
        <4>2. {<<o, B!StxoOf(stxos[o])>> : o \in {x \in Op : stxos[x] # NoRow}}
                = {<<o, StxosSeen[o]>> : o \in {x \in Op : StxosSeen[x] # NoRow}}
          BY <4>1, BoltSeen
        <4> QED BY <2>3, <4>2, BoltSeen DEF B!GetAllStxos, B!Answered, D!GetAllStxos, D!Answered
      <3> QED BY <3>1 DEF D!Next, D!Query
    <2> QED BY <1>2, <2>1, <2>2, <2>3, SameRows DEF B!Stxos
  <1>3. CASE B!Txns
    <2>1. ASSUME NEW t \in Tx, NEW r \in Txn, B!PutTxn(t, r) PROVE [D!Next]_(D!vars)
      <3>1. D!PutTxn(t, r)
        BY <2>1, BoltSeen DEF B!PutTxn, D!PutTxn
      <3> QED BY <3>1, SameRows DEF D!Next, D!Change
    <2>2. ASSUME NEW t \in Tx, B!DeleteTxn(t) PROVE [D!Next]_(D!vars)
      <3>1. D!DeleteTxn(t)
        BY <2>2, BoltSeen DEF B!DeleteTxn, D!DeleteTxn
      <3> QED BY <3>1, SameRows DEF D!Next, D!Change
    <2>3. ASSUME NEW t \in Tx, B!GetTxn(t) PROVE [D!Next]_(D!vars)
      <3>1. D!GetTxn(t)
        BY <2>3, BoltSeen DEF B!GetTxn, B!Answered, D!GetTxn, D!Answered
      <3> QED BY <3>1 DEF D!Next, D!Query
    <2>4. ASSUME NEW w \in BOOLEAN, B!GetAllTxns(w) PROVE [D!Next]_(D!vars)
      <3>1. D!GetAllTxns(w)
        BY <2>4, BoltSeen DEF B!GetAllTxns, B!Answered, D!GetAllTxns, D!Answered,
            BoltOK, Table, Txn
      <3> QED BY <3>1 DEF D!Next, D!Query
    <2>5. ASSUME NEW t \in Tx, NEW c \in Callers, NEW h \in Height,
        B!GetUpdateHeight(c, t, h) PROVE [D!Next]_(D!vars)
      <3>1. D!UpdateHeight(t, h) \/ UNCHANGED D!vars
        BY <2>5, BoltSeen DEF D!UpdateHeight, D!vars, B!GetUpdateHeight, B!Get
      <3> QED BY <3>1 DEF D!Next, D!Change
    <2>6. ASSUME NEW c \in Callers, B!PutUpdateHeight(c), ~Stale(c) PROVE [D!Next]_(D!vars)
      <3>1. txns[call[c].id] = call[c].rec /\ call[c].id \in Tx /\ call[c].rec \in Txn
        BY <2>6, CallType DEF Stale, B!PutUpdateHeight
      <3>2. D!UpdateHeight(call[c].id, call[c].op[2])
        BY <2>6, <3>1, BoltSeen, NoRowAssumption DEF BoltOK, Table, D!UpdateHeight,
            B!PutUpdateHeight, B!Returns
      <3> QED BY <2>6, <3>2, CallType DEF D!Next, D!Change, B!PutUpdateHeight
    <2>7. ASSUME NEW c \in Callers, B!PutUpdateHeight(c), Stale(c) PROVE Diverges
      BY <2>7 DEF Diverges, LostUpdate
    <2> QED BY <1>3, <2>1, <2>2, <2>3, <2>4, <2>5, <2>6, <2>7, SameRows DEF B!Txns
  <1>4. CASE B!Keys
    <2>1. ASSUME NEW p \in Purpose, NEW i \in Index, B!PutKey(p, i) PROVE [D!Next]_(D!vars)
      <3>1. D!PutKey(p, i)
        BY <2>1, BoltSeen, IndexAssumption DEF B!PutKey, D!PutKey, BoltOK
      <3> QED BY <3>1, SameRows DEF D!Next, D!Change
    <2>2. ASSUME NEW p \in Purpose, NEW i \in Index, B!GetPathForKey(p,
        i) PROVE [D!Next]_(D!vars)
      <3>1. D!GetPathForKey(p, i)
        BY <2>2, BoltSeen DEF B!GetPathForKey, B!Answered, D!GetPathForKey, D!Answered
      <3> QED BY <3>1 DEF D!Next, D!Query
    <2>3. ASSUME NEW p \in Purpose, B!GetLastKeyIndex(p) PROVE [D!Next]_(D!vars)
      <3>1. D!GetLastKeyIndex(p)
        BY <2>3, BoltSeen DEF B!GetLastKeyIndex, B!Answered, D!GetLastKeyIndex,
            D!Answered, B!Records, D!Stored
      <3> QED BY <3>1 DEF D!Next, D!Query
    <2>4. ASSUME NEW p \in Purpose, B!GetUnused(p) PROVE [D!Next]_(D!vars)
      <3>1. B!Unused(p) = D!Unused(p)
        BY BoltUnused
      <3>2. D!GetUnused(p)
        BY <2>4, <3>1, BoltSeen DEF B!GetUnused, B!Answered, D!GetUnused, D!Answered
      <3> QED BY <3>2 DEF D!Next, D!Query
    <2>5. ASSUME NEW p \in Purpose, B!GetLookaheadWindow(p)
          PROVE  [D!Next]_(D!vars) \/ Diverges
      <3>1. CASE D!AfterLastUsed(p) = D!Unused(p)
        <4>1. D!GetLookaheadWindow(p)
          BY <2>5, <3>1, BoltUnused, BoltSeen, SameCardinality DEF B!GetLookaheadWindow,
             B!Answered, D!GetLookaheadWindow, D!Answered
        <4> QED BY <4>1 DEF D!Next, D!Query
      <3>2. CASE D!AfterLastUsed(p) # D!Unused(p)
        BY <2>5, <3>2 DEF Diverges, CountsAllUnused
      <3> QED BY <3>1, <3>2
    <2>6. ASSUME B!GetAllKeys PROVE [D!Next]_(D!vars)
      <3>1. D!GetAllKeys
        BY <2>6, BoltSeen DEF B!GetAllKeys, B!Answered, D!GetAllKeys, D!Answered,
            B!Records, D!Stored
      <3> QED BY <3>1 DEF D!Next, D!Query
    <2>7. ASSUME NEW p \in Purpose, NEW i \in Index, NEW c \in Callers,
        B!GetMarkKeyAsUsed(c, p, i) PROVE [D!Next]_(D!vars)
      <3>1. D!MarkKeyAsUsed(p, i) \/ UNCHANGED D!vars
        BY <2>7, BoltSeen DEF D!MarkKeyAsUsed, D!vars, B!GetMarkKeyAsUsed, B!Get
      <3> QED BY <3>1 DEF D!Next, D!Change
    <2>8. ASSUME NEW c \in Callers, B!PutMarkKeyAsUsed(c) PROVE [D!Next]_(D!vars)
      <3>1. keys[call[c].id[1]][call[c].id[2]] # NoRow
        BY <2>8, CallType DEF KeyCurrent, B!PutMarkKeyAsUsed
      <3>2. D!MarkKeyAsUsed(call[c].id[1], call[c].id[2])
        BY <2>8, <3>1, BoltSeen, NoRowAssumption DEF BoltOK, Table, D!MarkKeyAsUsed,
            B!PutMarkKeyAsUsed, B!Returns
      <3> QED BY <2>8, <3>2, CallType DEF D!Next, D!Change, B!PutMarkKeyAsUsed
    <2> QED BY <1>4, <2>1, <2>2, <2>3, <2>4, <2>5, <2>6, <2>7, <2>8 DEF B!Keys
  <1>5. CASE B!Others
    <2>1. ASSUME NEW s \in Script, B!PutSubscription(s) PROVE [D!Next]_(D!vars)
      <3>1. D!Subscribe(s, TRUE)
        BY <2>1, BoltSeen DEF B!PutSubscription, D!Subscribe
      <3> QED BY <3>1, SameRows DEF D!Next, D!Change
    <2>2. ASSUME NEW s \in Script, B!DeleteSubscription(s) PROVE [D!Next]_(D!vars)
      <3>1. D!Subscribe(s, FALSE)
        BY <2>2, BoltSeen DEF B!DeleteSubscription, D!Subscribe
      <3> QED BY <3>1, SameRows DEF D!Next, D!Change
    <2>3. ASSUME NEW s \in Script, B!GetSubscription(s) PROVE [D!Next]_(D!vars)
      <3>1. D!GetSubscription(s)
        BY <2>3, BoltSeen DEF B!GetSubscription, B!Answered, D!GetSubscription, D!Answered
      <3> QED BY <3>1 DEF D!Next, D!Query
    <2>4. ASSUME NEW s \in Script, B!GetElectrumScripthash(s) PROVE [D!Next]_(D!vars)
      <3>1. D!GetSubscription(s)
        BY <2>4, BoltSeen DEF B!GetElectrumScripthash, B!Answered, D!GetSubscription,
            D!Answered
      <3> QED BY <3>1 DEF D!Next, D!Query
    <2>5. ASSUME NEW pw \in Password, B!GetDecrypted(pw) PROVE [D!Next]_(D!vars)
      <3>1. D!GetDecrypted(pw)
        BY <2>5, BoltSeen DEF B!GetDecrypted, B!Answered, D!GetDecrypted, D!Answered,
            B!decryptBytes
      <3> QED BY <3>1 DEF D!Next, D!Query
    <2>6. ASSUME NEW pw \in Password, NEW b \in Secret, B!PutEncrypted(b,
        pw) PROVE [D!Next]_(D!vars)
      <3>1. D!PutEncrypted(b, pw)
        BY <2>6, BoltSeen DEF B!PutEncrypted, D!PutEncrypted, B!encryptBytes
      <3> QED BY <3>1, SameRows DEF D!Next, D!Change
    <2>7. ASSUME B!GetAllSubscriptions PROVE [D!Next]_(D!vars)
      <3>1. D!GetAllSubscriptions
        BY <2>7, BoltSeen DEF B!GetAllSubscriptions, B!Answered, D!GetAllSubscriptions,
            D!Answered
      <3> QED BY <3>1 DEF D!Next, D!Query
    <2>8. ASSUME B!PutCreationDate PROVE [D!Next]_(D!vars)
      <3>1. D!PutCreationDate
        BY <2>8, BoltSeen DEF B!PutCreationDate, D!PutCreationDate
      <3> QED BY <3>1, SameRows DEF D!Next, D!Change
    <2>9. ASSUME B!GetCreationDate PROVE [D!Next]_(D!vars)
      <3>1. D!GetCreationDate
        BY <2>9, BoltSeen DEF B!GetCreationDate, B!Answered, D!GetCreationDate, D!Answered
      <3> QED BY <3>1 DEF D!Next, D!Query
    <2> QED BY <1>5, <2>1, <2>2, <2>3, <2>4, <2>5, <2>6, <2>7, <2>8, <2>9 DEF B!Others
  <1>6. CASE B!Crash
    BY <1>6, BoltSeen DEF D!vars, B!Crash
  <1> QED BY <1>1, <1>2, <1>3, <1>4, <1>5, <1>6 DEF B!Next

-----------------------------------------------------------------------------
(* sqlite: the order of the rowids is that of the key indexes, because a   *)
(* new key has a rowid and an index above those that are there.            *)

Ordered ==
    \A p \in Purpose : \A i, j \in S!Rows(p) :
      i < j <=> keys[p][i].rowid < keys[p][j].rowid

LEMMA SqliteOrdered ==
    ASSUME SqliteOK, Ordered, S!Next
    PROVE  Ordered'
  <1>1. CASE S!Utxos
    <2>1. ASSUME NEW o \in Op, NEW u \in Utxo, S!PutUtxo(o, u) PROVE Ordered'
      BY <2>1 DEF Ordered, S!Rows, S!PutUtxo
    <2>2. ASSUME NEW o \in Op, S!DeleteUtxo(o) PROVE Ordered'
      BY <2>2 DEF Ordered, S!Rows, S!DeleteUtxo
    <2>3. ASSUME S!GetAllUtxos PROVE Ordered'
      BY <2>3 DEF Ordered, S!Rows, S!GetAllUtxos, S!Answered
    <2>4. ASSUME NEW o \in Op, S!SetWatchOnly(o) PROVE Ordered'
      BY <2>4 DEF Ordered, S!Rows, S!SetWatchOnly
    <2>5. ASSUME NEW o \in Op, S!Freeze(o) PROVE Ordered'
      BY <2>5 DEF Ordered, S!Rows, S!Freeze
    <2>6. ASSUME NEW o \in Op, S!UnFreeze(o) PROVE Ordered'
      BY <2>6 DEF Ordered, S!Rows, S!UnFreeze
    <2> QED BY <1>1, <2>1, <2>2, <2>3, <2>4, <2>5, <2>6, SameRows DEF S!Utxos
  <1>2. CASE S!Stxos
    <2>1. ASSUME NEW o \in Op, NEW s \in Stxo, S!PutStxo(o, s) PROVE Ordered'
      BY <2>1 DEF Ordered, S!Rows, S!PutStxo
    <2>2. ASSUME NEW o \in Op, S!DeleteStxo(o) PROVE Ordered'
      BY <2>2 DEF Ordered, S!Rows, S!DeleteStxo
    <2>3. ASSUME S!GetAllStxos PROVE Ordered'
      BY <2>3 DEF Ordered, S!Rows, S!GetAllStxos, S!Answered
    <2> QED BY <1>2, <2>1, <2>2, <2>3, SameRows DEF S!Stxos
  <1>3. CASE S!Txns
    <2>1. ASSUME NEW t \in Tx, NEW r \in Txn, S!PutTxn(t, r) PROVE Ordered'
      BY <2>1 DEF Ordered, S!Rows, S!PutTxn
    <2>2. ASSUME NEW t \in Tx, S!DeleteTxn(t) PROVE Ordered'
      BY <2>2 DEF Ordered, S!Rows, S!DeleteTxn
    <2>3. ASSUME NEW t \in Tx, S!GetTxn(t) PROVE Ordered'
      BY <2>3 DEF Ordered, S!Rows, S!GetTxn, S!Answered
    <2>4. ASSUME NEW w \in BOOLEAN, S!GetAllTxns(w) PROVE Ordered'
      BY <2>4 DEF Ordered, S!Rows, S!GetAllTxns, S!Answered
    <2>5. ASSUME NEW t \in Tx, NEW h \in Height, S!UpdateHeight(t, h) PROVE Ordered'
      BY <2>5 DEF Ordered, S!Rows, S!UpdateHeight
    <2> QED BY <1>3, <2>1, <2>2, <2>3, <2>4, <2>5, SameRows DEF S!Txns
  <1>4. CASE S!Keys
    <2>1. ASSUME NEW p \in Purpose, NEW i \in Index, S!PutKey(p, i) PROVE Ordered'
      <3>1. PICK r \in S!Rowids : (\A q \in S!Rowids : q <= r)
            /\ keys' = [keys EXCEPT ![p][i] = [used |-> 0, rowid |-> r + 1]]
        BY <2>1 DEF S!PutKey
      <3>2. r \in Nat /\ \A q \in Purpose : \A j \in S!Rows(q) : keys[q][j].rowid \in Nat
            /\ keys[q][j].rowid < r + 1
        BY <3>1 DEF S!Rowids, S!Rows, SqliteOK, Table, S!KeyRow
      <3>3. \A j \in S!Rows(p) : j < i
        BY <2>1 DEF S!PutKey
      <3>4. (\A q \in Purpose : q # p => keys'[q] = keys[q])
            /\ (\A j \in Index : j # i => keys'[p][j] = keys[p][j]) /\ keys'[p][i].rowid = r + 1
        BY <3>1 DEF SqliteOK, Table
      <3> QED BY <3>2, <3>3, <3>4, IndexAssumption DEF Ordered, S!Rows
    <2>2. ASSUME NEW p \in Purpose, NEW i \in Index, S!GetPathForKey(p, i) PROVE Ordered'
      BY <2>2 DEF Ordered, S!Rows, S!GetPathForKey, S!Answered
    <2>3. ASSUME NEW p \in Purpose, S!GetLastKeyIndex(p) PROVE Ordered'
      BY <2>3 DEF Ordered, S!Rows, S!GetLastKeyIndex, S!Answered
    <2>4. ASSUME NEW p \in Purpose, S!GetUnused(p) PROVE Ordered'
      BY <2>4 DEF Ordered, S!Rows, S!GetUnused, S!Answered
    <2>5. ASSUME NEW p \in Purpose, S!GetLookaheadWindow(p) PROVE Ordered'
      BY <2>5 DEF Ordered, S!Rows, S!GetLookaheadWindow, S!Answered
    <2>6. ASSUME S!GetAllKeys PROVE Ordered'
      BY <2>6 DEF Ordered, S!Rows, S!GetAllKeys, S!Answered
    <2>7. ASSUME NEW p \in Purpose, NEW i \in Index, S!MarkKeyAsUsed(p, i) PROVE Ordered'
      BY <2>7, RowAssumption DEF Ordered, SqliteOK, Table, S!KeyRow, S!Bit, S!Rows,
          S!MarkKeyAsUsed
    <2> QED BY <1>4, <2>1, <2>2, <2>3, <2>4, <2>5, <2>6, <2>7 DEF S!Keys
  <1>5. CASE S!Others
    <2>1. ASSUME NEW s \in Script, S!PutSubscription(s) PROVE Ordered'
      BY <2>1 DEF Ordered, S!Rows, S!PutSubscription
    <2>2. ASSUME NEW s \in Script, S!DeleteSubscription(s) PROVE Ordered'
      BY <2>2 DEF Ordered, S!Rows, S!DeleteSubscription
    <2>3. ASSUME NEW s \in Script, S!GetSubscription(s) PROVE Ordered'
      BY <2>3 DEF Ordered, S!Rows, S!GetSubscription, S!Answered
    <2>4. ASSUME NEW s \in Script, S!GetElectrumScripthash(s) PROVE Ordered'
      BY <2>4 DEF Ordered, S!Rows, S!GetElectrumScripthash, S!Answered
    <2>5. ASSUME NEW pw \in Password, S!GetDecrypted(pw) PROVE Ordered'
      BY <2>5 DEF Ordered, S!Rows, S!GetDecrypted, S!Answered
    <2>6. ASSUME NEW pw \in Password, NEW b \in Secret, S!PutEncrypted(b, pw) PROVE Ordered'
      BY <2>6 DEF Ordered, S!Rows, S!PutEncrypted
    <2>7. ASSUME S!GetAllSubscriptions PROVE Ordered'
      BY <2>7 DEF Ordered, S!Rows, S!GetAllSubscriptions, S!Answered
    <2>8. ASSUME S!PutCreationDate PROVE Ordered'
      BY <2>8 DEF Ordered, S!Rows, S!PutCreationDate
    <2>9. ASSUME S!GetCreationDate PROVE Ordered'
      BY <2>9 DEF Ordered, S!Rows, S!GetCreationDate, S!Answered
    <2> QED BY <1>5, <2>1, <2>2, <2>3, <2>4, <2>5, <2>6, <2>7, <2>8, <2>9 DEF S!Others
  <1> QED BY <1>1, <1>2, <1>3, <1>4, <1>5 DEF S!Next

-----------------------------------------------------------------------------
(* sqlite implements Datastore. *)

LEMMA SqliteSeen ==
    ASSUME db = "sqlite", db' = db
    PROVE  /\ UtxosSeen = [o \in Op |-> S!UtxoOf(utxos[o])]
           /\ UtxosSeen' = [o \in Op |-> S!UtxoOf(utxos'[o])]
           /\ StxosSeen = [o \in Op |-> S!StxoOf(stxos[o])]
           /\ StxosSeen' = [o \in Op |-> S!StxoOf(stxos'[o])]
           /\ TxnsSeen = [t \in Tx |-> S!TxnOf(txns[t])]
           /\ TxnsSeen' = [t \in Tx |-> S!TxnOf(txns'[t])]
           /\ EncSeen = enc /\ EncSeen' = enc'
           /\ KeysSeen = [p \in Purpose |-> [i \in Index |-> KeyOf(keys[p][i])]]
           /\ KeysSeen' = [p \in Purpose |-> [i \in Index |-> KeyOf(keys'[p][i])]]
           /\ keys' = keys => KeysSeen' = KeysSeen
  BY DEF UtxosSeen, StxosSeen, TxnsSeen, KeysSeen, KeyOf, EncSeen, S!UtxoOf, S!StxoOf, S!TxnOf

\* What is put is what is seen.
LEMMA SqliteRows ==
    /\ S!UtxoOf(NoRow) = NoRow /\ S!StxoOf(NoRow) = NoRow /\ S!TxnOf(NoRow) = NoRow
    /\ \A u \in Utxo : S!UtxoOf([height |-> u.height, watchOnly |-> S!Column(u.watchOnly),
                                 frozen |-> S!Column(u.frozen)]) = u
    /\ \A s \in Stxo : S!StxoOf([height |-> s.height, watchOnly |-> S!Column(s.watchOnly),
                                 spendHeight |-> s.spendHeight, spender |-> s.spender])
                         = D!Spent(s)
    /\ \A r \in Txn : S!TxnOf([height |-> r.height, watchOnly |-> S!Column(r.watchOnly)]) = r
  <1>1. S!UtxoOf(NoRow) = NoRow /\ S!StxoOf(NoRow) = NoRow /\ S!TxnOf(NoRow) = NoRow
    BY DEF S!UtxoOf, S!StxoOf, S!TxnOf
  <1>2. ASSUME NEW u \in Utxo
        PROVE  S!UtxoOf([height |-> u.height, watchOnly |-> S!Column(u.watchOnly),
                         frozen |-> S!Column(u.frozen)]) = u
    BY RowAssumption DEF S!UtxoOf, S!Column, S!IsOne, Utxo, S!UtxoRow, S!Bit
  <1>3. ASSUME NEW s \in Stxo
        PROVE  S!StxoOf([height |-> s.height, watchOnly |-> S!Column(s.watchOnly),
                         spendHeight |-> s.spendHeight, spender |-> s.spender]) = D!Spent(s)
    BY RowAssumption DEF S!StxoOf, S!Column, S!IsPositive, Stxo, S!StxoRow, S!Bit, D!Spent
  <1>4. ASSUME NEW r \in Txn
        PROVE  S!TxnOf([height |-> r.height, watchOnly |-> S!Column(r.watchOnly)]) = r
    BY RowAssumption DEF S!TxnOf, S!Column, S!IsPositive, Txn, S!TxnRow, S!Bit
  <1> QED BY <1>1, <1>2, <1>3, <1>4

LEMMA KeysPut ==
    ASSUME NEW f, f = [q \in Purpose |-> [j \in Index |-> f[q][j]]],
           NEW g, g = [q \in Purpose |-> [j \in Index |-> g[q][j]]],
           NEW p \in Purpose, NEW i \in Index, NEW v,
           \A q \in Purpose, j \in Index : g[q][j] = IF q = p /\ j = i THEN v ELSE f[q][j]
    PROVE  g = [f EXCEPT ![p][i] = v]
  <1> DEFINE e == [f EXCEPT ![p][i] = v]
  <1>1. \A q \in Purpose : g[q] = e[q]
    <2> TAKE q \in Purpose
    <2>1. CASE q = p
      <3>1. g[q] = [j \in Index |-> g[q][j]] /\ f[q] = [j \in Index |-> f[q][j]]
        OBVIOUS
      <3>2. e[q] = [f[q] EXCEPT ![i] = v]
        BY <2>1
      <3> QED BY <2>1, <3>1, <3>2
    <2>2. CASE q # p
      <3>1. g[q] = [j \in Index |-> g[q][j]] /\ f[q] = [j \in Index |-> f[q][j]]
        OBVIOUS
      <3>2. e[q] = f[q]
        BY <2>2
      <3> QED BY <2>2, <3>1, <3>2
    <2> QED BY <2>1, <2>2
  <1> QED BY <1>1

LEMMA SeenPut ==
    ASSUME db = "sqlite", db' = db, NEW p \in Purpose, NEW i \in Index, NEW v,
           \A q \in Purpose, j \in Index :
             KeyOf(keys'[q][j]) = IF q = p /\ j = i THEN v ELSE KeyOf(keys[q][j])
    PROVE  KeysSeen' = [KeysSeen EXCEPT ![p][i] = v]
  <1>1. /\ KeysSeen = [q \in Purpose |-> [j \in Index |-> KeysSeen[q][j]]]
        /\ KeysSeen' = [q \in Purpose |-> [j \in Index |-> KeysSeen'[q][j]]]
    BY SqliteSeen
  <1>2. \A q \in Purpose, j \in Index :
          KeysSeen'[q][j] = IF q = p /\ j = i THEN v ELSE KeysSeen[q][j]
    BY SqliteSeen
  <1> QED BY <1>1, <1>2, KeysPut

LEMMA UtxoExcept ==
    ASSUME NEW h, NEW w, NEW f, NEW x
    PROVE  /\ [[height |-> h, watchOnly |-> w, frozen |-> f] EXCEPT !.watchOnly = x]
                = [height |-> h, watchOnly |-> x, frozen |-> f]
           /\ [[height |-> h, watchOnly |-> w, frozen |-> f] EXCEPT !.frozen = x]
                = [height |-> h, watchOnly |-> w, frozen |-> x]
  OBVIOUS

\* A field of a row that is set is set in what is seen.
LEMMA SqliteFields ==
    /\ \A r \in S!UtxoRow :
         /\ r # NoRow /\ S!UtxoOf(r) # NoRow
         /\ S!UtxoOf([r EXCEPT !.watchOnly = 1]) = [S!UtxoOf(r) EXCEPT !.watchOnly = TRUE]
         /\ S!UtxoOf([r EXCEPT !.frozen = 1]) = [S!UtxoOf(r) EXCEPT !.frozen = TRUE]
         /\ S!UtxoOf([r EXCEPT !.frozen = 0]) = [S!UtxoOf(r) EXCEPT !.frozen = FALSE]
    /\ \A r \in S!TxnRow : \A h \in Height :
         /\ r # NoRow /\ S!TxnOf(r) # NoRow
         /\ S!TxnOf([r EXCEPT !.height = h]) = [S!TxnOf(r) EXCEPT !.height = h]
  <1>1. ASSUME NEW r \in S!UtxoRow
        PROVE  /\ r # NoRow /\ S!UtxoOf(r) # NoRow
               /\ S!UtxoOf([r EXCEPT !.watchOnly = 1]) = [S!UtxoOf(r) EXCEPT !.watchOnly = TRUE]
               /\ S!UtxoOf([r EXCEPT !.frozen = 1]) = [S!UtxoOf(r) EXCEPT !.frozen = TRUE]
               /\ S!UtxoOf([r EXCEPT !.frozen = 0]) = [S!UtxoOf(r) EXCEPT !.frozen = FALSE]
    <2>1. r # NoRow /\ [r EXCEPT !.watchOnly = 1] # NoRow /\ [r EXCEPT !.frozen = 1] # NoRow
          /\ [r EXCEPT !.frozen = 0] # NoRow
      BY RowAssumption DEF S!UtxoRow, S!Bit
    <2>2. S!UtxoOf(r) = [height |-> r.height, watchOnly |-> S!IsOne(r.watchOnly), frozen |-> S!IsOne(r.frozen)]
      BY <2>1 DEF S!UtxoOf
    <2>3. S!UtxoOf(r) \in Utxo
      BY <2>2 DEF Utxo, S!UtxoRow, S!IsOne
    <2>4. [r EXCEPT !.watchOnly = 1]
          = [height |-> r.height, watchOnly |-> 1, frozen |-> r.frozen]
      BY DEF S!UtxoRow
    <2>5. \A x \in {0, 1} : [r EXCEPT !.frozen = x]
                            = [height |-> r.height, watchOnly |-> r.watchOnly, frozen |-> x]
      BY DEF S!UtxoRow
    <2>6. S!IsOne(1) = TRUE /\ S!IsOne(0) = FALSE
      BY DEF S!IsOne
    <2>7. \A x : x # NoRow => S!UtxoOf(x)
          = [height |-> x.height, watchOnly |-> S!IsOne(x.watchOnly),
                                         frozen |-> S!IsOne(x.frozen)]
      BY DEF S!UtxoOf
    <2>8. ASSUME NEW b \in BOOLEAN, S!IsOne(1) = b
          PROVE  S!UtxoOf([r EXCEPT !.watchOnly = 1]) = [S!UtxoOf(r) EXCEPT !.watchOnly = b]
      <3>1. S!UtxoOf([r EXCEPT !.watchOnly = 1])
              = [height |-> r.height, watchOnly |-> b, frozen |-> S!IsOne(r.frozen)]
        BY <2>1, <2>4, <2>7, <2>8
      <3> QED BY <3>1, <2>2, UtxoExcept
    <2>9. ASSUME NEW x \in {0, 1}, NEW b \in BOOLEAN, S!IsOne(x) = b
          PROVE  S!UtxoOf([r EXCEPT !.frozen = x]) = [S!UtxoOf(r) EXCEPT !.frozen = b]
      <3>1. [r EXCEPT !.frozen = x] # NoRow
        BY <2>1
      <3>2. S!UtxoOf([r EXCEPT !.frozen = x])
              = [height |-> r.height, watchOnly |-> S!IsOne(r.watchOnly), frozen |-> b]
        BY <3>1, <2>5, <2>7, <2>9
      <3> QED BY <3>2, <2>2, UtxoExcept
    <2> QED BY <2>1, <2>3, <2>6, <2>8, <2>9, NoRowAssumption
  <1>2. ASSUME NEW r \in S!TxnRow, NEW h \in Height
        PROVE  /\ r # NoRow /\ S!TxnOf(r) # NoRow
               /\ S!TxnOf([r EXCEPT !.height = h]) = [S!TxnOf(r) EXCEPT !.height = h]
    <2>1. r # NoRow /\ [r EXCEPT !.height = h] # NoRow
      BY RowAssumption DEF S!TxnRow
    <2>2. S!TxnOf(r) \in Txn
      BY <2>1 DEF S!TxnOf, Txn, S!TxnRow, S!IsPositive
    <2> QED BY <2>1, <2>2, NoRowAssumption DEF S!TxnOf, S!TxnRow
  <1> QED BY <1>1, <1>2

\* A spent coin that is there is seen.
LEMMA SqliteStxo == S!StxoOf(NoRow) = NoRow /\ \A r \in S!StxoRow : S!StxoOf(r) # NoRow
  <1>1. ASSUME NEW r \in S!StxoRow PROVE S!StxoOf(r) \in SpentCoin
    BY RowAssumption DEF S!StxoOf, S!StxoRow, S!IsPositive, SpentCoin
  <1> QED BY <1>1, NoRowAssumption DEF S!StxoOf

\* The keys as rows, and as they are seen.
LEMMA SqliteKeys ==
    ASSUME db = "sqlite", SqliteOK, NEW p \in Purpose
    PROVE  /\ D!Stored(p) = S!Rows(p) /\ D!Unused(p) = S!Unused(p)
           /\ \A i \in S!Rows(p) : KeysSeen[p][i] = S!IsNotZero(keys[p][i].used)
           /\ \A i \in Index : KeysSeen[p][i] = TRUE <=> i \in S!Rows(p) /\ keys[p][i].used # 0
           /\ S!Rows(p) \subseteq Index
           /\ \A i \in Index : (KeysSeen[p][i] # NoRow) = (keys[p][i] # NoRow)
  <1>1. ASSUME NEW i \in Index
        PROVE  /\ KeysSeen[p][i] # NoRow <=> keys[p][i] # NoRow
               /\ keys[p][i] # NoRow => KeysSeen[p][i] = S!IsNotZero(keys[p][i].used)
               /\ KeysSeen[p][i] = FALSE <=> (keys[p][i] # NoRow /\ keys[p][i].used = 0)
               /\ KeysSeen[p][i] = TRUE <=> (keys[p][i] # NoRow /\ keys[p][i].used # 0)
    <2>1. KeysSeen[p][i] = IF keys[p][i] = NoRow THEN NoRow ELSE S!IsNotZero(keys[p][i].used)
      BY DEF KeysSeen, KeyOf
    <2>2. CASE keys[p][i] = NoRow
      BY <2>1, <2>2, NoRowAssumption
    <2>3. CASE keys[p][i] # NoRow /\ keys[p][i].used = 0
      BY <2>1, <2>3, NoRowAssumption DEF S!IsNotZero
    <2>4. CASE keys[p][i] # NoRow /\ keys[p][i].used # 0
      BY <2>1, <2>4, NoRowAssumption DEF S!IsNotZero
    <2> QED BY <2>2, <2>3, <2>4
  <1> QED BY <1>1 DEF D!Stored, D!Unused, S!Rows, S!Unused

LEMMA RowOrder ==
    ASSUME SqliteOK, Ordered, NEW p \in Purpose, NEW i \in S!Rows(p), NEW j \in S!Rows(p)
    PROVE  i <= j <=> S!NotAfter(p, i, j)
  BY IndexAssumption DEF Ordered, SqliteOK, Table, S!KeyRow, S!Rows, S!NotAfter

LEMMA SqliteImplements ==
    ASSUME db = "sqlite", db' = db, SqliteOK, Ordered, S!Next
    PROVE  [D!Next]_(D!vars)
  <1>1. CASE S!Utxos
    <2>1. ASSUME NEW o \in Op, NEW u \in Utxo, S!PutUtxo(o, u) PROVE [D!Next]_(D!vars)
      <3>1. D!PutUtxo(o, u)
        BY <2>1, SqliteSeen, SqliteRows DEF S!PutUtxo, D!PutUtxo, SqliteOK, Table
      <3> QED BY <3>1, SameRows DEF D!Next, D!Change
    <2>2. ASSUME NEW o \in Op, S!DeleteUtxo(o) PROVE [D!Next]_(D!vars)
      <3>1. D!DeleteUtxo(o)
        BY <2>2, SqliteSeen, SqliteRows DEF S!DeleteUtxo, D!DeleteUtxo, SqliteOK, Table
      <3> QED BY <3>1, SameRows DEF D!Next, D!Change
    <2>3. ASSUME S!GetAllUtxos PROVE [D!Next]_(D!vars)
      <3>1. D!GetAllUtxos
        BY <2>3, SqliteSeen DEF S!GetAllUtxos, S!Answered, D!GetAllUtxos, D!Answered
      <3> QED BY <3>1 DEF D!Next, D!Query
    <2>4. ASSUME NEW o \in Op, S!SetWatchOnly(o) PROVE [D!Next]_(D!vars)
      <3>1. CASE utxos[o] = NoRow
        <4>1. D!SetWatchOnly(o)
          BY <2>4, <3>1, SqliteSeen, SqliteRows DEF S!SetWatchOnly, D!SetWatchOnly
        <4> QED BY <4>1 DEF D!Next, D!Change
      <3>2. CASE utxos[o] # NoRow
        <4>1. utxos[o] \in S!UtxoRow
              /\ utxos' = [utxos EXCEPT ![o] = [utxos[o] EXCEPT !.watchOnly = 1]]
          BY <2>4, <3>2 DEF S!SetWatchOnly, SqliteOK, Table
        <4>2. UtxosSeen[o] # NoRow
              /\ UtxosSeen' = [UtxosSeen EXCEPT ![o] = [UtxosSeen[o] EXCEPT !.watchOnly = TRUE]]
          <5>1. S!UtxoOf(utxos[o]) # NoRow
                /\ S!UtxoOf([utxos[o] EXCEPT !.watchOnly = 1])
                = [S!UtxoOf(utxos[o]) EXCEPT !.watchOnly = TRUE]
            BY <4>1, SqliteFields
          <5> QED BY <4>1, <5>1, SqliteSeen DEF SqliteOK, Table
        <4>3. D!SetWatchOnly(o)
          BY <2>4, <4>2, SqliteSeen DEF S!SetWatchOnly, D!SetWatchOnly
        <4> QED BY <4>3 DEF D!Next, D!Change
      <3> QED BY <3>1, <3>2
    <2>5. ASSUME NEW o \in Op, S!Freeze(o) PROVE [D!Next]_(D!vars)
      <3>1. CASE utxos[o] = NoRow
        <4>1. D!Freeze(o, TRUE)
          BY <2>5, <3>1, SqliteSeen, SqliteRows DEF S!Freeze, D!Freeze
        <4> QED BY <4>1 DEF D!Next, D!Change
      <3>2. CASE utxos[o] # NoRow
        <4>1. utxos[o] \in S!UtxoRow
              /\ utxos' = [utxos EXCEPT ![o] = [utxos[o] EXCEPT !.frozen = 1]]
          BY <2>5, <3>2 DEF S!Freeze, SqliteOK, Table
        <4>2. UtxosSeen[o] # NoRow
              /\ UtxosSeen' = [UtxosSeen EXCEPT ![o] = [UtxosSeen[o] EXCEPT !.frozen = TRUE]]
          <5>1. S!UtxoOf(utxos[o]) # NoRow
                /\ S!UtxoOf([utxos[o] EXCEPT !.frozen = 1])
                = [S!UtxoOf(utxos[o]) EXCEPT !.frozen = TRUE]
            BY <4>1, SqliteFields
          <5> QED BY <4>1, <5>1, SqliteSeen DEF SqliteOK, Table
        <4>3. D!Freeze(o, TRUE)
          BY <2>5, <4>2, SqliteSeen DEF S!Freeze, D!Freeze
        <4> QED BY <4>3 DEF D!Next, D!Change
      <3> QED BY <3>1, <3>2
    <2>6. ASSUME NEW o \in Op, S!UnFreeze(o) PROVE [D!Next]_(D!vars)
      <3>1. CASE utxos[o] = NoRow
        <4>1. D!Freeze(o, FALSE)
          BY <2>6, <3>1, SqliteSeen, SqliteRows DEF S!UnFreeze, D!Freeze
        <4> QED BY <4>1 DEF D!Next, D!Change
      <3>2. CASE utxos[o] # NoRow
        <4>1. utxos[o] \in S!UtxoRow
              /\ utxos' = [utxos EXCEPT ![o] = [utxos[o] EXCEPT !.frozen = 0]]
          BY <2>6, <3>2 DEF S!UnFreeze, SqliteOK, Table
        <4>2. UtxosSeen[o] # NoRow
              /\ UtxosSeen' = [UtxosSeen EXCEPT ![o] = [UtxosSeen[o] EXCEPT !.frozen = FALSE]]
          <5>1. S!UtxoOf(utxos[o]) # NoRow
                /\ S!UtxoOf([utxos[o] EXCEPT !.frozen = 0])
                = [S!UtxoOf(utxos[o]) EXCEPT !.frozen = FALSE]
            BY <4>1, SqliteFields
          <5> QED BY <4>1, <5>1, SqliteSeen DEF SqliteOK, Table
        <4>3. D!Freeze(o, FALSE)
          BY <2>6, <4>2, SqliteSeen DEF S!UnFreeze, D!Freeze
        <4> QED BY <4>3 DEF D!Next, D!Change
      <3> QED BY <3>1, <3>2
    <2> QED BY <1>1, <2>1, <2>2, <2>3, <2>4, <2>5, <2>6, SameRows DEF S!Utxos
  <1>2. CASE S!Stxos
    <2>1. ASSUME NEW o \in Op, NEW s \in Stxo, S!PutStxo(o, s) PROVE [D!Next]_(D!vars)
      <3>1. D!PutStxo(o, s)
        BY <2>1, SqliteSeen, SqliteRows DEF S!PutStxo, D!PutStxo, SqliteOK, Table
      <3> QED BY <3>1, SameRows DEF D!Next, D!Change
    <2>2. ASSUME NEW o \in Op, S!DeleteStxo(o) PROVE [D!Next]_(D!vars)
      <3>1. D!DeleteStxo(o)
        BY <2>2, SqliteSeen, SqliteRows DEF S!DeleteStxo, D!DeleteStxo, SqliteOK, Table
      <3> QED BY <3>1, SameRows DEF D!Next, D!Change
    <2>3. ASSUME S!GetAllStxos PROVE [D!Next]_(D!vars)
      <3>1. D!GetAllStxos
        <4>1. \A o \in Op : stxos[o] # NoRow <=> StxosSeen[o] # NoRow
          BY SqliteSeen, SqliteStxo DEF SqliteOK, Table
        <4>2. {<<o, S!StxoOf(stxos[o])>> : o \in {x \in Op : stxos[x] # NoRow}}
                = {<<o, StxosSeen[o]>> : o \in {x \in Op : StxosSeen[x] # NoRow}}
          BY <4>1, SqliteSeen
        <4> QED BY <2>3, <4>2, SqliteSeen DEF S!GetAllStxos, S!Answered, D!GetAllStxos,
                D!Answered
      <3> QED BY <3>1 DEF D!Next, D!Query
    <2> QED BY <1>2, <2>1, <2>2, <2>3, SameRows DEF S!Stxos
  <1>3. CASE S!Txns
    <2>1. ASSUME NEW t \in Tx, NEW r \in Txn, S!PutTxn(t, r) PROVE [D!Next]_(D!vars)
      <3>1. D!PutTxn(t, r)
        BY <2>1, SqliteSeen, SqliteRows DEF S!PutTxn, D!PutTxn, SqliteOK, Table
      <3> QED BY <3>1, SameRows DEF D!Next, D!Change
    <2>2. ASSUME NEW t \in Tx, S!DeleteTxn(t) PROVE [D!Next]_(D!vars)
      <3>1. D!DeleteTxn(t)
        BY <2>2, SqliteSeen, SqliteRows DEF S!DeleteTxn, D!DeleteTxn, SqliteOK, Table
      <3> QED BY <3>1, SameRows DEF D!Next, D!Change
    <2>3. ASSUME NEW t \in Tx, S!GetTxn(t) PROVE [D!Next]_(D!vars)
      <3>1. D!GetTxn(t)
        BY <2>3, SqliteSeen DEF S!GetTxn, S!Answered, D!GetTxn, D!Answered
      <3> QED BY <3>1 DEF D!Next, D!Query
    <2>4. ASSUME NEW w \in BOOLEAN, S!GetAllTxns(w) PROVE [D!Next]_(D!vars)
      <3> DEFINE Skipped(t) == txns[t] # NoRow /\ S!IsPositive(txns[t].watchOnly) /\ ~w
      <3>1. \A t \in Tx : (IF Skipped(t) THEN NoRow ELSE S!TxnOf(txns[t]))
              = (IF TxnsSeen[t] # NoRow /\ (w \/ ~TxnsSeen[t].watchOnly) THEN TxnsSeen[t] ELSE NoRow)
        <4> TAKE t \in Tx
        <4>1. TxnsSeen[t] = S!TxnOf(txns[t]) /\ txns[t] \in S!TxnRow \cup {NoRow}
          BY SqliteSeen DEF SqliteOK, Table
        <4>2. CASE txns[t] = NoRow
          BY <4>1, <4>2, SqliteRows
        <4>3. CASE txns[t] \in S!TxnRow
          <5>1. txns[t] # NoRow /\ S!TxnOf(txns[t]) # NoRow
            BY <4>3, SqliteFields, RowAssumption, NoRowAssumption DEF S!TxnOf, S!TxnRow, Txn
          <5>2. S!TxnOf(txns[t]).watchOnly <=> S!IsPositive(txns[t].watchOnly)
            BY <5>1 DEF S!TxnOf
          <5> QED BY <4>1, <5>1, <5>2
        <4> QED BY <4>1, <4>2, <4>3
      <3>2. D!GetAllTxns(w)
        BY <2>4, <3>1, SqliteSeen DEF S!GetAllTxns, S!Answered, D!GetAllTxns, D!Answered
      <3> QED BY <3>2 DEF D!Next, D!Query
    <2>5. ASSUME NEW t \in Tx, NEW h \in Height, S!UpdateHeight(t,
        h) PROVE [D!Next]_(D!vars)
      <3>1. CASE txns[t] = NoRow
        <4>1. D!UpdateHeight(t, h)
          BY <2>5, <3>1, SqliteSeen, SqliteRows DEF S!UpdateHeight, D!UpdateHeight
        <4> QED BY <4>1 DEF D!Next, D!Change
      <3>2. CASE txns[t] # NoRow
        <4>1. txns[t] \in S!TxnRow /\ txns' = [txns EXCEPT ![t] = [txns[t] EXCEPT !.height = h]]
          BY <2>5, <3>2 DEF S!UpdateHeight, SqliteOK, Table
        <4>2. TxnsSeen[t] # NoRow /\ TxnsSeen' = [TxnsSeen EXCEPT ![t]
              = [TxnsSeen[t] EXCEPT !.height = h]]
          <5>1. S!TxnOf(txns[t]) # NoRow
                /\ S!TxnOf([txns[t] EXCEPT !.height = h])
                = [S!TxnOf(txns[t]) EXCEPT !.height = h]
            BY <4>1, SqliteFields
          <5> QED BY <4>1, <5>1, SqliteSeen DEF SqliteOK, Table
        <4>3. D!UpdateHeight(t, h)
          BY <2>5, <4>2, SqliteSeen DEF S!UpdateHeight, D!UpdateHeight
        <4> QED BY <4>3 DEF D!Next, D!Change
      <3> QED BY <3>1, <3>2
    <2> QED BY <1>3, <2>1, <2>2, <2>3, <2>4, <2>5, SameRows DEF S!Txns
  <1>4. CASE S!Keys
    <2>1. ASSUME NEW p \in Purpose, NEW i \in Index, S!PutKey(p, i) PROVE [D!Next]_(D!vars)
      <3>1. PICK r \in S!Rowids : keys' = [keys EXCEPT ![p][i] = [used |-> 0,
          rowid |-> r + 1]]
        BY <2>1 DEF S!PutKey
      <3>2. r + 1 \in Nat /\ [used |-> 0, rowid |-> r + 1] # NoRow
        <4>1. r \in Nat
          BY DEF S!Rowids, S!Rows, SqliteOK, Table, S!KeyRow
        <4> QED BY <4>1, RowAssumption DEF S!KeyRow, S!Bit
      <3>3. KeysSeen' = [KeysSeen EXCEPT ![p][i] = FALSE]
        <4>1. KeyOf([used |-> 0, rowid |-> r + 1]) = FALSE
          BY <3>2 DEF KeyOf, S!IsNotZero
        <4>2. \A q \in Purpose, j \in Index : KeyOf(keys'[q][j]) = IF q = p
              /\ j = i THEN FALSE ELSE KeyOf(keys[q][j])
          BY <3>1, <4>1 DEF SqliteOK, Table
        <4> QED BY <4>2, SeenPut
      <3>4. KeysSeen[p][i] = NoRow
        BY <2>1, IndexAssumption DEF KeysSeen, KeyOf, S!PutKey, S!Rows
      <3>5. D!PutKey(p, i)
        BY <2>1, <3>3, <3>4, SqliteSeen DEF S!PutKey, D!PutKey
      <3> QED BY <3>5 DEF D!Next, D!Change
    <2>2. ASSUME NEW p \in Purpose, NEW i \in Index, S!GetPathForKey(p,
        i) PROVE [D!Next]_(D!vars)
      <3>1. D!GetPathForKey(p, i)
        BY <2>2, SqliteSeen, SqliteKeys DEF S!GetPathForKey, S!Answered,
            D!GetPathForKey, D!Answered
      <3> QED BY <3>1 DEF D!Next, D!Query
    <2>3. ASSUME NEW p \in Purpose, S!GetLastKeyIndex(p) PROVE [D!Next]_(D!vars)
      <3>1. \A i, j \in S!Rows(p) : j <= i <=> S!NotAfter(p, j, i)
        BY RowOrder DEF S!Unused
      <3>2. ASSUME S!Rows(p) = {}, S!Answered([GetLastKeyIndex |-> <<p>>])
            PROVE D!GetLastKeyIndex(p)
        BY <3>2, SqliteSeen, SqliteKeys, ZenonT(40) DEF S!Answered, D!GetLastKeyIndex, D!Answered
      <3>3. ASSUME \E i \in S!Rows(p) : (\A j \in S!Rows(p) : S!NotAfter(p, j,
          i)) /\ S!Answered([GetLastKeyIndex |-> <<p, i,
              S!IsNotZero(keys[p][i].used)>>]) PROVE D!GetLastKeyIndex(p)
        <4>1. PICK i \in S!Rows(p) : (\A j \in S!Rows(p) : S!NotAfter(p, j,
            i)) /\ S!Answered([GetLastKeyIndex |-> <<p, i, S!IsNotZero(keys[p][i].used)>>])
          BY <3>3
        <4>2. D!Answered([GetLastKeyIndex |-> <<p, i, KeysSeen[p][i]>>])
          BY <4>1, SqliteSeen, SqliteKeys DEF S!Answered, D!Answered
        <4> QED BY <4>1, <4>2, <3>1, SqliteKeys DEF D!GetLastKeyIndex
      <3>4. D!GetLastKeyIndex(p)
        BY <2>3, <3>2, <3>3 DEF S!GetLastKeyIndex
      <3> QED BY <3>4 DEF D!Next, D!Query
    <2>4. ASSUME NEW p \in Purpose, S!GetUnused(p) PROVE [D!Next]_(D!vars)
      <3>1. \A i, j \in S!Unused(p) : i <= j <=> S!NotAfter(p, i, j)
        BY RowOrder DEF S!Unused
      <3>2. ASSUME S!Unused(p) = {}, S!Answered([GetUnused |-> <<p>>]) PROVE D!GetUnused(p)
        BY <3>2, SqliteSeen, SqliteKeys DEF S!Answered, D!GetUnused, D!Answered
      <3>3. ASSUME \E i \in S!Unused(p) : (\A j \in S!Unused(p) : S!NotAfter(p, i,
          j)) /\ S!Answered([GetUnused |-> <<p, S!Unused(p), i>>]) PROVE D!GetUnused(p)
        <4>1. PICK i \in S!Unused(p) : (\A j \in S!Unused(p) : S!NotAfter(p, i,
            j)) /\ S!Answered([GetUnused |-> <<p, S!Unused(p), i>>])
          BY <3>3
        <4>2. D!Answered([GetUnused |-> <<p, D!Unused(p), i>>])
          BY <4>1, SqliteSeen, SqliteKeys DEF S!Answered, D!Answered
        <4> QED BY <4>1, <4>2, <3>1, SqliteKeys DEF D!GetUnused
      <3>4. D!GetUnused(p)
        BY <2>4, <3>2, <3>3 DEF S!GetUnused
      <3> QED BY <3>4 DEF D!Next, D!Query
    <2>5. ASSUME NEW p \in Purpose, S!GetLookaheadWindow(p) PROVE [D!Next]_(D!vars)
      <3> DEFINE X == {i \in S!Rows(p) : \A j \in S!Rows(p) : S!NotAfter(p, i,
          j) => keys[p][j].used = 0}
      <3>1. X = D!AfterLastUsed(p)
        <4>1. \A i, j \in S!Rows(p) : (i <= j <=> S!NotAfter(p, i,
            j)) /\ i \in Nat /\ j \in Nat /\ keys[p][j].used \in {0, 1}
          BY RowOrder, IndexAssumption DEF SqliteOK, Table, S!KeyRow, S!Bit, S!Rows
        <4>2. \A i \in X : keys[p][i].used = 0
              /\ \A j \in S!Rows(p) : keys[p][j].used # 0 => j < i
          BY <4>1
        <4>3. X \subseteq D!AfterLastUsed(p)
          BY <4>2, SqliteKeys DEF S!Unused, D!AfterLastUsed
        <4>4. \A i \in D!AfterLastUsed(p) : i \in S!Rows(p)
              /\ \A j \in S!Rows(p) : keys[p][j].used # 0 => j < i
          BY SqliteKeys DEF S!Unused, D!AfterLastUsed
        <4>5. D!AfterLastUsed(p) \subseteq X
          BY <4>1, <4>4
        <4> QED BY <4>3, <4>5
      <3>2. D!Answered([GetLookaheadWindow |-> <<p, Cardinality(X)>>])
        BY <2>5, SqliteSeen, SameCardinality DEF S!GetLookaheadWindow, S!Answered,
            D!Answered
      <3> HIDE DEF X
      <3>3. D!GetLookaheadWindow(p)
        BY <3>1, <3>2, SameCardinality DEF D!GetLookaheadWindow
      <3> QED BY <3>3 DEF D!Next, D!Query
    <2>6. ASSUME S!GetAllKeys PROVE [D!Next]_(D!vars)
      <3>1. [p \in Purpose |-> S!Rows(p)] = [p \in Purpose |-> D!Stored(p)]
        BY SqliteKeys
      <3>2. D!GetAllKeys
        BY <2>6, <3>1, SqliteSeen DEF S!GetAllKeys, S!Answered, D!GetAllKeys, D!Answered
      <3> QED BY <3>2 DEF D!Next, D!Query
    <2>7. ASSUME NEW p \in Purpose, NEW i \in Index, S!MarkKeyAsUsed(p,
        i) PROVE [D!Next]_(D!vars)
      <3>1. CASE keys[p][i] = NoRow
        <4>1. D!MarkKeyAsUsed(p, i)
          BY <2>7, <3>1, SqliteSeen DEF S!MarkKeyAsUsed, D!MarkKeyAsUsed, KeyOf
        <4> QED BY <4>1 DEF D!Next, D!Change
      <3>2. CASE keys[p][i] # NoRow
        <4>1. keys' = [keys EXCEPT ![p][i].used = 1] /\ [keys[p][i] EXCEPT !.used = 1] # NoRow
          BY <2>7, <3>2, RowAssumption DEF S!MarkKeyAsUsed, SqliteOK, Table, S!KeyRow, S!Bit
        <4>2. KeysSeen' = [KeysSeen EXCEPT ![p][i] = TRUE]
          <5>1. KeyOf([keys[p][i] EXCEPT !.used = 1]) = TRUE
            BY <3>2, <4>1 DEF SqliteOK, Table, S!KeyRow, KeyOf, S!IsNotZero
          <5>2. \A q \in Purpose, j \in Index : KeyOf(keys'[q][j]) = IF q = p
                /\ j = i THEN TRUE ELSE KeyOf(keys[q][j])
            BY <4>1, <5>1 DEF SqliteOK, Table
          <5> QED BY <5>2, SeenPut
        <4>3. KeysSeen[p][i] # NoRow
          BY <3>2, SqliteKeys
        <4>4. D!MarkKeyAsUsed(p, i)
          BY <2>7, <4>2, <4>3, SqliteSeen DEF S!MarkKeyAsUsed, D!MarkKeyAsUsed
        <4> QED BY <4>4 DEF D!Next, D!Change
      <3> QED BY <3>1, <3>2
    <2> QED BY <1>4, <2>1, <2>2, <2>3, <2>4, <2>5, <2>6, <2>7 DEF S!Keys
  <1>5. CASE S!Others
    <2>1. ASSUME NEW s \in Script, S!PutSubscription(s) PROVE [D!Next]_(D!vars)
      <3>1. D!Subscribe(s, TRUE)
        BY <2>1, SqliteSeen DEF S!PutSubscription, D!Subscribe
      <3> QED BY <3>1 DEF D!Next, D!Change
    <2>2. ASSUME NEW s \in Script, S!DeleteSubscription(s) PROVE [D!Next]_(D!vars)
      <3>1. D!Subscribe(s, FALSE)
        BY <2>2, SqliteSeen DEF S!DeleteSubscription, D!Subscribe
      <3> QED BY <3>1 DEF D!Next, D!Change
    <2>3. ASSUME NEW s \in Script, S!GetSubscription(s) PROVE [D!Next]_(D!vars)
      <3>1. D!GetSubscription(s)
        BY <2>3, SqliteSeen DEF S!GetSubscription, S!Answered, D!GetSubscription, D!Answered
      <3> QED BY <3>1 DEF D!Next, D!Query
    <2>4. ASSUME NEW s \in Script, S!GetElectrumScripthash(s) PROVE [D!Next]_(D!vars)
      <3>1. D!GetSubscription(s)
        BY <2>4, SqliteSeen DEF S!GetElectrumScripthash, S!Answered, D!GetSubscription,
            D!Answered
      <3> QED BY <3>1 DEF D!Next, D!Query
    <2>5. ASSUME NEW pw \in Password, S!GetDecrypted(pw) PROVE [D!Next]_(D!vars)
      <3>1. D!GetDecrypted(pw)
        BY <2>5, SqliteSeen DEF S!GetDecrypted, S!Answered, D!GetDecrypted, D!Answered,
            S!decryptBytes
      <3> QED BY <3>1 DEF D!Next, D!Query
    <2>6. ASSUME NEW pw \in Password, NEW b \in Secret, S!PutEncrypted(b,
        pw) PROVE [D!Next]_(D!vars)
      <3>1. D!PutEncrypted(b, pw)
        BY <2>6, SqliteSeen DEF S!PutEncrypted, D!PutEncrypted, S!encryptBytes
      <3> QED BY <3>1 DEF D!Next, D!Change
    <2>7. ASSUME S!GetAllSubscriptions PROVE [D!Next]_(D!vars)
      <3>1. D!GetAllSubscriptions
        BY <2>7, SqliteSeen DEF S!GetAllSubscriptions, S!Answered,
            D!GetAllSubscriptions, D!Answered
      <3> QED BY <3>1 DEF D!Next, D!Query
    <2>8. ASSUME S!PutCreationDate PROVE [D!Next]_(D!vars)
      <3>1. D!PutCreationDate
        BY <2>8, SqliteSeen DEF S!PutCreationDate, D!PutCreationDate
      <3> QED BY <3>1 DEF D!Next, D!Change
    <2>9. ASSUME S!GetCreationDate PROVE [D!Next]_(D!vars)
      <3>1. D!GetCreationDate
        BY <2>9, SqliteSeen DEF S!GetCreationDate, S!Answered, D!GetCreationDate, D!Answered
      <3> QED BY <3>1 DEF D!Next, D!Query
    <2> QED BY <1>5, <2>1, <2>2, <2>3, <2>4, <2>5, <2>6, <2>7, <2>8, <2>9 DEF S!Others
  <1> QED BY <1>1, <1>2, <1>3, <1>4, <1>5 DEF S!Next

-----------------------------------------------------------------------------
(* The mock: what is turned round twice is back where it was. *)

LEMMA ReverseTwice ==
    ASSUME NEW b \in Secret
    PROVE  M!reverse(M!reverse(b)) = b
  <1>1. b \in Seq(Int)
    BY SecretAssumption
  <1>2. M!Len(b) = Len(b) /\ M!Len(M!reverse(b)) = Len(b)
    BY <1>1 DEF M!reverse
  <1> QED BY <1>1, <1>2 DEF M!reverse

\* What is seen of a coin in the stxos f.
SpendersIn(f, o) == {t \in Tx : f[t] # NoRow /\ f[t].op = o}
StxoIn(f, o) ==
    IF SpendersIn(f, o) = {} THEN NoRow
    ELSE M!StxoOf(f[CHOOSE t \in SpendersIn(f, o) : TRUE].stxo)

LEMMA OneSpender ==
    ASSUME NEW f, NEW o, NEW t, SpendersIn(f, o) = {t}
    PROVE  StxoIn(f, o) = M!StxoOf(f[t].stxo)
  <1>1. (CHOOSE u \in {t} : TRUE) = t
    OBVIOUS
  <1> QED BY <1>1 DEF StxoIn

\* Coins of which the same is filed look the same.
LEMMA SameSpenders ==
    ASSUME NEW f, NEW g, NEW o, SpendersIn(f, o) = SpendersIn(g, o),
           \A t \in SpendersIn(f, o) : f[t] = g[t]
    PROVE  StxoIn(f, o) = StxoIn(g, o)
  <1>1. CASE SpendersIn(f, o) = {}
    BY <1>1 DEF StxoIn
  <1>2. CASE SpendersIn(f, o) # {}
    <2> DEFINE t == CHOOSE u \in SpendersIn(f, o) : TRUE
    <2>1. t \in SpendersIn(f, o)
      BY <1>2
    <2> QED BY <1>2, <2>1 DEF StxoIn
  <1> QED BY <1>1, <1>2

LEMMA MockSeen ==
    ASSUME db = "mock", db' = db
    PROVE  /\ UtxosSeen = utxos /\ UtxosSeen' = utxos'
           /\ TxnsSeen = txns /\ TxnsSeen' = txns'
           /\ KeysSeen = keys /\ KeysSeen' = keys'
           /\ StxosSeen = [o \in Op |-> StxoIn(stxos, o)]
           /\ StxosSeen' = [o \in Op |-> StxoIn(stxos', o)]
           /\ enc' = enc => EncSeen' = EncSeen
  BY DEF UtxosSeen, StxosSeen, TxnsSeen, KeysSeen, EncSeen, MockStxo, StxoIn, SpendersOf,
         SpendersIn, M!Filed

LEMMA MockUnused ==
    ASSUME db = "mock", MockOK, NEW p \in Purpose
    PROVE  /\ M!Entries(p) = D!Stored(p) /\ M!Unused(p) = D!Unused(p)
           /\ {i \in M!Unused(p) : \A j \in M!Entries(p) : keys[p][j] => j < i}
                = D!AfterLastUsed(p)
  <1>1. \A i \in Index : (keys[p][i] # NoRow /\ ~keys[p][i]) <=> keys[p][i] = FALSE
    <2> TAKE i \in Index
    <2>1. keys[p][i] \in BOOLEAN \cup {NoRow}
      BY DEF MockOK, Table
    <2>2. CASE keys[p][i] = NoRow
      BY <2>2, NoRowAssumption
    <2>3. CASE keys[p][i] = TRUE
      BY <2>3, NoRowAssumption
    <2>4. CASE keys[p][i] = FALSE
      BY <2>4, NoRowAssumption
    <2> QED BY <2>1, <2>2, <2>3, <2>4
  <1>2. \A i \in Index : (keys[p][i] # NoRow /\ keys[p][i]) <=> keys[p][i] = TRUE
    <2> TAKE i \in Index
    <2>1. keys[p][i] \in BOOLEAN \cup {NoRow}
      BY DEF MockOK, Table
    <2>2. CASE keys[p][i] = NoRow
      BY <2>2, NoRowAssumption
    <2>3. CASE keys[p][i] = TRUE
      BY <2>3, NoRowAssumption
    <2>4. CASE keys[p][i] = FALSE
      BY <2>4, NoRowAssumption
    <2> QED BY <2>1, <2>2, <2>3, <2>4
  <1>3. KeysSeen = keys
    BY DEF KeysSeen
  <1>4. M!Entries(p) = D!Stored(p)
    BY <1>3 DEF M!Entries, D!Stored
  <1>5. M!Unused(p) = D!Unused(p)
    BY <1>1 DEF M!Entries, M!Unused, D!Unused, KeysSeen
  <1>6. \A i : (\A j \in M!Entries(p) : keys[p][j] => j < i)
               <=> (\A j \in Index : keys[p][j] = TRUE => j < i)
    BY <1>2 DEF M!Entries
  <1> QED BY <1>3, <1>4, <1>5, <1>6 DEF D!AfterLastUsed

LEMMA MockFiled ==
    ASSUME MockOK, NEW o \in Op, NEW t \in Tx, ~Misfiled(o, t)
    PROVE  /\ SpendersIn(stxos, o) \subseteq {t}
           /\ \A x : x # o => t \notin SpendersIn(stxos, x)
  BY DEF Misfiled, SpendersOf, SpendersIn, M!Filed

\* The stxos, while what they file is filed as the call has it.
LEMMA MockStxosImplement ==
    ASSUME db = "mock", db' = db, MockOK, M!Stxos
    PROVE  [D!Next]_(D!vars) \/ Diverges
  <1>1. ASSUME NEW o \in Op, NEW s \in Stxo, M!PutStxo(o, s), ~Misfiled(o, s.spender)
        PROVE  D!Next
    <2> DEFINE t == s.spender
    <2>1. t \in Tx
      BY DEF Stxo
    <2>2. /\ \A u \in Tx : u # t => stxos'[u] = stxos[u]
          /\ stxos'[t] = [op |-> o, stxo |-> s]
      BY <1>1, <2>1 DEF M!PutStxo, MockOK
    <2>3. stxos'[t] # NoRow /\ stxos'[t].op = o /\ stxos'[t].stxo = s
      BY <2>2, EntryAssumption
    <2> HIDE DEF t
    <2>4. StxoIn(stxos', o) = D!Spent(s)
      <3>1. SpendersIn(stxos', o) = {t}
        BY <1>1, <2>1, <2>2, <2>3, MockFiled DEF SpendersIn, t
      <3> QED BY <2>3, <3>1, OneSpender DEF D!Spent, M!StxoOf
    <2>5. ASSUME NEW x \in Op, x # o PROVE StxoIn(stxos', x) = StxoIn(stxos, x)
      <3>1. t \notin SpendersIn(stxos, x)
        BY <1>1, <2>1, <2>5, MockFiled DEF t
      <3>2. SpendersIn(stxos', x) = SpendersIn(stxos, x)
        BY <2>1, <2>2, <2>3, <2>5, <3>1 DEF SpendersIn
      <3>3. \A u \in SpendersIn(stxos, x) : stxos'[u] = stxos[u]
        BY <2>2, <3>1 DEF SpendersIn
      <3> QED BY <3>2, <3>3, SameSpenders
    <2>6. StxosSeen' = [StxosSeen EXCEPT ![o] = D!Spent(s)]
      BY <2>4, <2>5, MockSeen
    <2>7. D!PutStxo(o, s)
      BY <1>1, <2>6, MockSeen DEF M!PutStxo, D!PutStxo
    <2> QED BY <2>7, SameRows DEF D!Next, D!Change
  <1>2. ASSUME NEW o \in Op, NEW t \in Tx, M!DeleteStxo(o, t), ~Misfiled(o, t)
        PROVE  D!Next
    <2>1. (\A u \in Tx : u # t => stxos'[u] = stxos[u]) /\ stxos'[t] = NoRow
      BY <1>2 DEF M!DeleteStxo, MockOK
    <2>2. StxoIn(stxos', o) = NoRow
      <3>1. SpendersIn(stxos', o) = {}
        BY <1>2, <2>1, MockFiled DEF SpendersIn
      <3> QED BY <3>1 DEF StxoIn
    <2>3. ASSUME NEW x \in Op, x # o PROVE StxoIn(stxos', x) = StxoIn(stxos, x)
      <3>1. t \notin SpendersIn(stxos, x)
        BY <1>2, <2>3, MockFiled
      <3>2. SpendersIn(stxos', x) = SpendersIn(stxos, x)
        BY <2>1, <3>1 DEF SpendersIn
      <3>3. \A u \in SpendersIn(stxos, x) : stxos'[u] = stxos[u]
        BY <2>1, <3>1 DEF SpendersIn
      <3> QED BY <3>2, <3>3, SameSpenders
    <2>4. StxosSeen' = [StxosSeen EXCEPT ![o] = NoRow]
      BY <2>2, <2>3, MockSeen
    <2>5. D!DeleteStxo(o)
      BY <1>2, <2>4, MockSeen DEF M!DeleteStxo, D!DeleteStxo
    <2> QED BY <2>5 DEF D!Next, D!Change
  <1>3. ASSUME M!GetAllStxos, \A t \in M!Filed : ~Misfiled(stxos[t].op, t)
        PROVE  D!Next
    <2> DEFINE Listed == {<<stxos[t].op, M!StxoOf(stxos[t].stxo)>> : t \in M!Filed}
               Seen == {<<o, StxosSeen[o]>> : o \in {x \in Op : StxosSeen[x] # NoRow}}
    <2>1. \A o \in Op : StxosSeen[o] = StxoIn(stxos, o)
      BY MockSeen
    <2>2. ASSUME NEW t \in M!Filed
          PROVE  /\ stxos[t].op \in Op
                 /\ StxosSeen[stxos[t].op] = M!StxoOf(stxos[t].stxo)
                 /\ StxosSeen[stxos[t].op] # NoRow
      <3>1. t \in Tx /\ stxos[t] # NoRow /\ stxos[t].op \in Op /\ stxos[t].stxo \in Stxo
        BY DEF M!Filed, MockOK
      <3>2. SpendersIn(stxos, stxos[t].op) = {t}
        BY <1>3, <3>1, MockFiled DEF SpendersIn
      <3> QED BY <2>1, <3>1, <3>2, OneSpender, StxoThere
    <2>3. ASSUME NEW o \in Op, StxosSeen[o] # NoRow
          PROVE  \E t \in M!Filed : stxos[t].op = o
      BY <2>1, <2>3 DEF StxoIn, SpendersIn, M!Filed
    <2>4. Listed \subseteq Seen
      BY <2>2
    <2>5. Seen \subseteq Listed
      BY <2>2, <2>3
    <2>6. Listed = Seen
      BY <2>4, <2>5
    <2> HIDE DEF Listed, Seen
    <2>7. D!Answered([GetAllStxos |-> Seen])
      BY <1>3, <2>6, MockSeen DEF M!GetAllStxos, M!Answered, D!Answered, Listed
    <2> QED BY <2>7 DEF D!GetAllStxos, D!Next, D!Query, Seen
  <1>4. ASSUME NEW o \in Op, NEW s \in Stxo, M!PutStxo(o, s), Misfiled(o, s.spender)
        PROVE  Diverges
    BY <1>4 DEF Diverges, MockStxos
  <1>5. ASSUME NEW o \in Op, NEW t \in Tx, M!DeleteStxo(o, t), Misfiled(o, t)
        PROVE  Diverges
    BY <1>5 DEF Diverges, MockStxos
  <1>6. ASSUME M!GetAllStxos, NEW t \in M!Filed, Misfiled(stxos[t].op, t)
        PROVE  Diverges
    BY <1>6 DEF Diverges, MockStxos
  <1> QED BY <1>1, <1>2, <1>3, <1>4, <1>5, <1>6, SameRows DEF M!Stxos

LEMMA MockImplements ==
    ASSUME db = "mock", db' = db, MockOK, M!Next
    PROVE  [D!Next]_(D!vars) \/ Diverges
  <1>1. CASE M!Utxos
    <2>1. ASSUME NEW o \in Op, NEW u \in Utxo, M!PutUtxo(o, u) PROVE [D!Next]_(D!vars)
      <3>1. D!PutUtxo(o, u)
        BY <2>1, MockSeen DEF M!PutUtxo, D!PutUtxo
      <3> QED BY <3>1, SameRows DEF D!Next, D!Change
    <2>2. ASSUME NEW o \in Op, M!DeleteUtxo(o) PROVE [D!Next]_(D!vars)
      <3>1. D!DeleteUtxo(o)
        BY <2>2, MockSeen DEF M!DeleteUtxo, D!DeleteUtxo
      <3> QED BY <3>1, SameRows DEF D!Next, D!Change
    <2>3. ASSUME M!GetAllUtxos PROVE [D!Next]_(D!vars)
      <3>1. D!GetAllUtxos
        BY <2>3, MockSeen DEF M!GetAllUtxos, M!Answered, D!GetAllUtxos, D!Answered
      <3> QED BY <3>1 DEF D!Next, D!Query
    <2>4. ASSUME NEW o \in Op, M!SetWatchOnly(o) PROVE [D!Next]_(D!vars)
      <3>1. D!SetWatchOnly(o)
        BY <2>4, MockSeen DEF M!SetWatchOnly, D!SetWatchOnly
      <3> QED BY <3>1, SameRows DEF D!Next, D!Change
    <2>5. ASSUME NEW o \in Op, M!Freeze(o) PROVE [D!Next]_(D!vars)
      <3>1. D!Freeze(o, TRUE)
        BY <2>5, MockSeen DEF M!Freeze, D!Freeze
      <3> QED BY <3>1, SameRows DEF D!Next, D!Change
    <2>6. ASSUME NEW o \in Op, M!UnFreeze(o), utxos[o] = NoRow PROVE [D!Next]_(D!vars)
      <3>1. D!Freeze(o, FALSE)
        BY <2>6, MockSeen DEF M!UnFreeze, D!Freeze
      <3> QED BY <3>1 DEF D!Next, D!Change
    <2>7. ASSUME NEW o \in Op, M!UnFreeze(o), utxos[o] # NoRow PROVE Diverges
      BY <2>7 DEF Diverges, MockUnFreeze
    <2> QED BY <1>1, <2>1, <2>2, <2>3, <2>4, <2>5, <2>6, <2>7, SameRows DEF M!Utxos
  <1>2. CASE M!Txns
    <2>1. ASSUME NEW t \in Tx, NEW r \in Txn, M!PutTxn(t, r) PROVE [D!Next]_(D!vars)
      <3>1. D!PutTxn(t, r)
        BY <2>1, MockSeen DEF M!PutTxn, D!PutTxn
      <3> QED BY <3>1, SameRows DEF D!Next, D!Change
    <2>2. ASSUME NEW t \in Tx, M!DeleteTxn(t) PROVE [D!Next]_(D!vars)
      <3>1. D!DeleteTxn(t)
        BY <2>2, MockSeen DEF M!DeleteTxn, D!DeleteTxn
      <3> QED BY <3>1, SameRows DEF D!Next, D!Change
    <2>3. ASSUME NEW t \in Tx, M!GetTxn(t) PROVE [D!Next]_(D!vars)
      <3>1. D!GetTxn(t)
        BY <2>3, MockSeen DEF M!GetTxn, M!Answered, D!GetTxn, D!Answered
      <3> QED BY <3>1 DEF D!Next, D!Query
    <2>4. ASSUME NEW w \in BOOLEAN, M!GetAllTxns(w) PROVE [D!Next]_(D!vars)
      <3> DEFINE Skipped(t) == txns[t] # NoRow /\ ~w /\ txns[t].watchOnly
      <3>1. \A t \in Tx : (IF Skipped(t) THEN NoRow ELSE txns[t])
              = (IF txns[t] # NoRow /\ (w \/ ~txns[t].watchOnly) THEN txns[t] ELSE NoRow)
        BY DEF MockOK, Table, Txn
      <3>2. TxnsSeen = txns /\ D!Answered(last')
        BY <2>4, MockSeen DEF M!GetAllTxns, M!Answered, D!Answered
      <3>3. D!GetAllTxns(w)
        BY <2>4, <3>1, <3>2 DEF M!GetAllTxns, M!Answered, D!GetAllTxns
      <3> QED BY <3>3 DEF D!Next, D!Query
    <2>5. ASSUME NEW t \in Tx, NEW h \in Height, M!UpdateHeight(t,
        h) PROVE [D!Next]_(D!vars)
      <3>1. D!UpdateHeight(t, h)
        BY <2>5, MockSeen DEF M!UpdateHeight, D!UpdateHeight
      <3> QED BY <3>1, SameRows DEF D!Next, D!Change
    <2> QED BY <1>2, <2>1, <2>2, <2>3, <2>4, <2>5, SameRows DEF M!Txns
  <1>3. CASE M!Keys
    <2>1. ASSUME NEW p \in Purpose, NEW i \in Index, M!PutKey(p, i) PROVE [D!Next]_(D!vars)
      <3>1. D!PutKey(p, i)
        BY <2>1, MockSeen, IndexAssumption DEF M!PutKey, D!PutKey
      <3> QED BY <3>1, SameRows DEF D!Next, D!Change
    <2>2. ASSUME NEW p \in Purpose, NEW i \in Index, M!GetPathForKey(p,
        i) PROVE [D!Next]_(D!vars)
      <3>1. D!GetPathForKey(p, i)
        BY <2>2, MockSeen DEF M!GetPathForKey, M!Answered, D!GetPathForKey, D!Answered
      <3> QED BY <3>1 DEF D!Next, D!Query
    <2>3. ASSUME NEW p \in Purpose, M!GetLastKeyIndex(p) PROVE [D!Next]_(D!vars)
      <3>1. D!GetLastKeyIndex(p)
        BY <2>3, MockSeen DEF M!GetLastKeyIndex, M!Answered, D!GetLastKeyIndex,
            D!Answered, M!Entries, D!Stored
      <3> QED BY <3>1 DEF D!Next, D!Query
    <2>4. ASSUME NEW p \in Purpose, M!GetUnused(p) PROVE [D!Next]_(D!vars)
      <3>1. D!GetUnused(p)
        BY <2>4, MockUnused, MockSeen DEF M!GetUnused, M!Answered, D!GetUnused, D!Answered
      <3> QED BY <3>1 DEF D!Next, D!Query
    <2>5. ASSUME NEW p \in Purpose, M!GetLookaheadWindow(p) PROVE [D!Next]_(D!vars)
      <3> DEFINE X == D!AfterLastUsed(p)
      <3>1. D!Answered([GetLookaheadWindow |-> <<p, Cardinality(X)>>])
        BY <2>5, MockUnused, MockSeen, SameCardinality DEF M!GetLookaheadWindow,
            M!Answered, D!Answered
      <3> HIDE DEF X
      <3>2. D!GetLookaheadWindow(p)
        BY <3>1, SameCardinality DEF D!GetLookaheadWindow, X
      <3> QED BY <3>2 DEF D!Next, D!Query
    <2>6. ASSUME M!GetAllKeys PROVE [D!Next]_(D!vars)
      <3>1. D!GetAllKeys
        BY <2>6, MockSeen DEF M!GetAllKeys, M!Answered, D!GetAllKeys, D!Answered,
            M!Entries, D!Stored
      <3> QED BY <3>1 DEF D!Next, D!Query
    <2>7. ASSUME NEW p \in Purpose, NEW i \in Index, M!MarkKeyAsUsed(p,
        i) PROVE [D!Next]_(D!vars)
      <3>1. D!MarkKeyAsUsed(p, i)
        BY <2>7, MockSeen DEF M!MarkKeyAsUsed, D!MarkKeyAsUsed
      <3> QED BY <3>1, SameRows DEF D!Next, D!Change
    <2> QED BY <1>3, <2>1, <2>2, <2>3, <2>4, <2>5, <2>6, <2>7 DEF M!Keys
  <1>4. CASE M!Others
    <2>1. ASSUME NEW s \in Script, M!PutSubscription(s) PROVE [D!Next]_(D!vars)
      <3>1. D!Subscribe(s, TRUE)
        BY <2>1, MockSeen DEF M!PutSubscription, D!Subscribe
      <3> QED BY <3>1, SameRows DEF D!Next, D!Change
    <2>2. ASSUME NEW s \in Script, M!DeleteSubscription(s) PROVE [D!Next]_(D!vars)
      <3>1. D!Subscribe(s, FALSE)
        BY <2>2, MockSeen DEF M!DeleteSubscription, D!Subscribe
      <3> QED BY <3>1, SameRows DEF D!Next, D!Change
    <2>3. ASSUME NEW s \in Script, M!GetSubscription(s) PROVE [D!Next]_(D!vars)
      <3>1. D!GetSubscription(s)
        BY <2>3, MockSeen DEF M!GetSubscription, M!Answered, D!GetSubscription, D!Answered
      <3> QED BY <3>1 DEF D!Next, D!Query
    <2>4. ASSUME NEW s \in Script, M!GetElectrumScripthash(s) PROVE [D!Next]_(D!vars)
      <3>1. D!GetSubscription(s)
        BY <2>4, MockSeen DEF M!GetElectrumScripthash, M!Answered, D!GetSubscription,
            D!Answered
      <3> QED BY <3>1 DEF D!Next, D!Query
    <2>5. ASSUME NEW pw \in Password, M!GetDecrypted(pw) PROVE [D!Next]_(D!vars)
      <3>1. EncSeen = [pw |-> MockPassword, secret |-> M!reverse(enc)]
        BY <2>5 DEF EncSeen, M!GetDecrypted
      <3>2. EncSeen # NoRow
        <4>1. PICK s \in Secret : enc = M!reverse(s)
          BY <2>5 DEF MockOK, M!GetDecrypted
        <4>2. EncSeen \in Enc
          BY <3>1, <4>1, ReverseTwice, MockPasswordAssumption DEF Enc
        <4> QED BY <4>2, NoRowAssumption
      <3>3. D!GetDecrypted(pw)
        BY <2>5, <3>1, <3>2, MockSeen DEF M!GetDecrypted, M!Answered, D!GetDecrypted,
            D!Answered
      <3> QED BY <3>3 DEF D!Next, D!Query
    <2>6. ASSUME NEW pw \in Password, NEW b \in Secret, M!PutEncrypted(b,
        pw) PROVE [D!Next]_(D!vars)
      <3>1. EncSeen' = [pw |-> MockPassword,
          secret |-> M!reverse(enc')] /\ enc' = M!reverse(b)
        BY <2>6, SecretRowAssumption DEF EncSeen, M!PutEncrypted
      <3>2. M!reverse(M!reverse(b)) = b
        BY ReverseTwice
      <3>3. D!PutEncrypted(b, pw)
        BY <2>6, <3>1, <3>2, MockSeen DEF M!PutEncrypted, D!PutEncrypted
      <3> QED BY <3>3 DEF D!Next, D!Change
    <2>7. ASSUME M!GetAllSubscriptions PROVE [D!Next]_(D!vars)
      <3>1. D!GetAllSubscriptions
        BY <2>7, MockSeen DEF M!GetAllSubscriptions, M!Answered, D!GetAllSubscriptions,
            D!Answered
      <3> QED BY <3>1 DEF D!Next, D!Query
    <2>8. ASSUME M!PutCreationDate PROVE [D!Next]_(D!vars)
      <3>1. D!PutCreationDate
        BY <2>8, MockSeen DEF M!PutCreationDate, D!PutCreationDate
      <3> QED BY <3>1, SameRows DEF D!Next, D!Change
    <2>9. ASSUME M!GetCreationDate PROVE [D!Next]_(D!vars)
      <3>1. D!GetCreationDate
        BY <2>9, MockSeen DEF M!GetCreationDate, M!Answered, D!GetCreationDate, D!Answered
      <3> QED BY <3>1 DEF D!Next, D!Query
    <2> QED BY <1>4, <2>1, <2>2, <2>3, <2>4, <2>5, <2>6, <2>7, <2>8, <2>9 DEF M!Others
  <1>5. CASE M!Stxos
    BY <1>5, MockStxosImplement
  <1> QED BY <1>1, <1>2, <1>3, <1>4, <1>5 DEF M!Next

-----------------------------------------------------------------------------
(* The theorems. *)

Inv ==
    /\ TypeOK
    /\ db = "bbolt" => KeyCurrent
    /\ db = "sqlite" => Ordered

LEMMA InitInv == Init => Inv
  <1>1. db = "bbolt" /\ Init => KeyCurrent
    BY DEF Init, B!Init, KeyCurrent, B!NoCall
  <1>2. db = "sqlite" /\ Init => Ordered
    BY DEF Init, S!Init, Ordered, S!Rows
  <1> QED BY <1>1, <1>2, InitType DEF Inv

LEMMA NextInv == Inv /\ [Next]_vars => Inv'
  <1> SUFFICES ASSUME Inv, [Next]_vars PROVE Inv'
    OBVIOUS
  <1>1. CASE db = "bbolt" /\ B!Next /\ db' = db
    <2>1. BoltOK' /\ Rest'
      BY <1>1, BoltType DEF Inv, TypeOK, Rest
    <2>2. KeyCurrent'
      BY <1>1, BoltCurrent DEF Inv, TypeOK
    <2> QED BY <1>1, <2>1, <2>2 DEF Inv, TypeOK, Rest
  <1>2. CASE db = "sqlite" /\ S!Next /\ UNCHANGED <<db, call>>
    <2>1. SqliteOK' /\ Rest'
      BY <1>2, SqliteType DEF Inv, TypeOK, Rest
    <2>2. Ordered'
      BY <1>2, SqliteOrdered DEF Inv, TypeOK
    <2> QED BY <1>2, <2>1, <2>2 DEF Inv, TypeOK, Rest
  <1>3. CASE db = "mock" /\ M!Next /\ UNCHANGED <<db, call>>
    <2>1. MockOK' /\ Rest'
      BY <1>3, MockType DEF Inv, TypeOK, Rest
    <2> QED BY <1>3, <2>1 DEF Inv, TypeOK, Rest
  <1>4. CASE UNCHANGED vars
    <2>1. TypeOK'
      BY <1>4 DEF vars, Inv, TypeOK, BoltOK, SqliteOK, MockOK, M!Filed
    <2>2. KeyCurrent => KeyCurrent'
      BY <1>4 DEF vars, KeyCurrent
    <2>3. Ordered => Ordered'
      BY <1>4 DEF vars, Ordered, S!Rows
    <2> QED BY <1>4, <2>1, <2>2, <2>3 DEF vars, Inv
  <1> QED BY <1>1, <1>2, <1>3, <1>4 DEF Next

LEMMA Invariance == Spec => []Inv
  BY InitInv, NextInv, PTL DEF Spec

LEMMA InitImplements == Init => D!Init
  <1>1. CASE db = "bbolt" /\ B!Init
    BY <1>1 DEF B!Init, D!Init, UtxosSeen, StxosSeen, TxnsSeen, KeysSeen, EncSeen, B!StxoOf
  <1>2. CASE db = "sqlite" /\ S!Init
    BY <1>2 DEF S!Init, D!Init, UtxosSeen, StxosSeen, TxnsSeen, KeysSeen, KeyOf, EncSeen,
                S!UtxoOf, S!StxoOf, S!TxnOf
  <1>3. CASE db = "mock" /\ M!Init
    BY <1>3 DEF M!Init, D!Init, UtxosSeen, StxosSeen, TxnsSeen, KeysSeen, EncSeen, MockStxo,
                SpendersOf, M!Filed
  <1> QED BY <1>1, <1>2, <1>3 DEF Init

LEMMA NextImplements == Inv /\ [Next]_vars => [D!Next \/ Diverges]_(D!vars)
  <1> SUFFICES ASSUME Inv, [Next]_vars PROVE [D!Next \/ Diverges]_(D!vars)
    OBVIOUS
  <1>1. CASE db = "bbolt" /\ B!Next /\ db' = db
    BY <1>1, BoltImplements DEF Inv, TypeOK
  <1>2. CASE db = "sqlite" /\ S!Next /\ UNCHANGED <<db, call>>
    BY <1>2, SqliteImplements DEF Inv, TypeOK
  <1>3. CASE db = "mock" /\ M!Next /\ UNCHANGED <<db, call>>
    BY <1>3, MockImplements DEF Inv, TypeOK
  <1>4. CASE UNCHANGED vars
    <2>1. /\ UtxosSeen' = UtxosSeen /\ StxosSeen' = StxosSeen /\ TxnsSeen' = TxnsSeen
          /\ KeysSeen' = KeysSeen /\ EncSeen' = EncSeen
      BY <1>4 DEF vars, UtxosSeen, StxosSeen, TxnsSeen, KeysSeen, KeyOf, EncSeen, MockStxo,
              SpendersOf, M!Filed
    <2> QED BY <1>4, <2>1 DEF vars, D!vars
  <1> QED BY <1>1, <1>2, <1>3, <1>4 DEF Next

\* Every table of every database keeps rows of its type: no call, and no crash
\* between bbolt's get and put, leaves a row that the getters cannot read back.
THEOREM TypeCorrect == Spec => []TypeOK
  BY Invariance, PTL DEF Inv

\* sqlite's rowid order is the order of the key indexes, for any number of keys and
\* purposes: GetLastKeyIndex and GetUnused answer from the right row.
THEOREM RowidsOrdered == Spec => []RowidOrder
  <1>1. Inv => RowidOrder
    BY DEF Inv, Ordered, RowidOrder
  <1> QED BY <1>1, Invariance, PTL

\* Every call of bbolt, sqlite and the mock does what the interfaces of
\* wallet/datastore.go promise, with any number of callers whose gets and puts mix,
\* except the calls that Diverges names: bbolt's put of a record that somebody else
\* has written since the get, its window while an unused key is below a used one,
\* the mock's UnFreeze, and the mock's stxos of a coin that has another spender filed
\* or a spender that has another coin.  sqlite has no exception.
THEOREM Implementation == Spec => Implements
  <1>1. Spec => D!Init /\ [][D!Next \/ Diverges]_(D!vars)
    BY InitImplements, NextImplements, Invariance, PTL DEF Spec
  <1> QED BY <1>1 DEF Implements
=============================================================================
