------------------------------- MODULE Stores -------------------------------
(***************************************************************************)
(* The three datastores behind the interfaces of wallet/datastore.go, each *)
(* shown to implement what Datastore promises, but for the calls named     *)
(* below.  A wallet has one of them, chosen when it is created             *)
(* (ClientConfig.DbType) and never changed.                                *)
(***************************************************************************)
EXTENDS StoreTypes

CONSTANTS Callers, MockPassword

VARIABLES db, utxos, stxos, txns, keys, subs, enc, date, last, call

tables == <<utxos, stxos, txns, keys, subs, enc, date, last, call>>
vars == <<db, utxos, stxos, txns, keys, subs, enc, date, last, call>>

B == INSTANCE BoltStore
S == INSTANCE SqliteStore
M == INSTANCE MockStore

ASSUME RowAssumption ==
    NoRow \notin S!UtxoRow \cup S!StxoRow \cup S!TxnRow \cup S!KeyRow
ASSUME EntryAssumption == NoRow \notin [op : Op, stxo : Stxo]
ASSUME SecretRowAssumption == \A s \in Secret : NoRow # M!reverse(s)
ASSUME MockPasswordAssumption == MockPassword \in Password

Init ==
    \/ db = "bbolt" /\ B!Init
    \/ db = "sqlite" /\ S!Init /\ call = <<>>
    \/ db = "mock" /\ M!Init /\ call = <<>>

Next ==
    \/ db = "bbolt" /\ B!Next /\ db' = db
    \/ db = "sqlite" /\ S!Next /\ UNCHANGED <<db, call>>
    \/ db = "mock" /\ M!Next /\ UNCHANGED <<db, call>>

Spec == Init /\ [][Next]_vars

-----------------------------------------------------------------------------
(* What a caller sees of the tables. *)

UtxosSeen == IF db = "sqlite" THEN [o \in Op |-> S!UtxoOf(utxos[o])] ELSE utxos

\* The mock: whatever it has filed about a coin.
SpendersOf(o) == {t \in M!Filed : stxos[t].op = o}
MockStxo(o) ==
    IF SpendersOf(o) = {} THEN NoRow
    ELSE M!StxoOf(stxos[CHOOSE t \in SpendersOf(o) : TRUE].stxo)

StxosSeen ==
    CASE db = "sqlite" -> [o \in Op |-> S!StxoOf(stxos[o])]
      [] db = "bbolt" -> [o \in Op |-> B!StxoOf(stxos[o])]
      [] db = "mock" -> [o \in Op |-> MockStxo(o)]

TxnsSeen == IF db = "sqlite" THEN [t \in Tx |-> S!TxnOf(txns[t])] ELSE txns

KeyOf(r) == IF r = NoRow THEN NoRow ELSE S!IsNotZero(r.used)

KeysSeen ==
    IF db = "sqlite" THEN [p \in Purpose |-> [i \in Index |-> KeyOf(keys[p][i])]] ELSE keys

EncSeen ==
    IF db = "mock" /\ enc # NoRow THEN [pw |-> MockPassword, secret |-> M!reverse(enc)]
    ELSE enc

D == INSTANCE Datastore
       WITH utxos <- UtxosSeen, stxos <- StxosSeen, txns <- TxnsSeen,
            keys <- KeysSeen, enc <- EncSeen

-----------------------------------------------------------------------------
(* The calls that do something else than the interface says. *)

\* bbolt writes a record back that another call has changed or deleted since.
Stale(c) ==
    /\ call[c] # B!NoCall
    /\ \/ call[c].bucket = "utxos" /\ utxos[call[c].id] # call[c].rec
       \/ call[c].bucket = "txns" /\ txns[call[c].id] # call[c].rec
LostUpdate ==
    /\ db = "bbolt"
    /\ \E c \in Callers :
         Stale(c) /\ (B!PutSetWatchOnly(c) \/ B!PutFreeze(c) \/ B!PutUpdateHeight(c))

\* bbolt counts the unused keys below the last used one too.
CountsAllUnused ==
    /\ db = "bbolt"
    /\ \E p \in Purpose : B!GetLookaheadWindow(p) /\ D!AfterLastUsed(p) # D!Unused(p)

\* The mock's UnFreeze of a coin that is there.
MockUnFreeze == db = "mock" /\ \E o \in Op : utxos[o] # NoRow /\ M!UnFreeze(o)

\* The mock's stxos while it has the coin o filed under another spender than t, or
\* another coin filed under t.
Misfiled(o, t) ==
    \/ SpendersOf(o) \ {t} # {}
    \/ t \in M!Filed /\ stxos[t].op # o
MockStxos ==
    /\ db = "mock"
    /\ \/ \E o \in Op, s \in Stxo : Misfiled(o, s.spender) /\ M!PutStxo(o, s)
       \/ \E o \in Op, t \in Tx : Misfiled(o, t) /\ M!DeleteStxo(o, t)
       \/ M!GetAllStxos /\ \E t \in M!Filed : Misfiled(stxos[t].op, t)

Diverges == LostUpdate \/ CountsAllUnused \/ MockUnFreeze \/ MockStxos

-----------------------------------------------------------------------------
(* Properties. *)

\* The rows of each database.
Table(Id, Row) == [Id -> Row \cup {NoRow}]

Call ==
    [op : {"watch"} \X {TRUE}, bucket : {"utxos"}, id : Op, rec : Utxo]
    \cup [op : {"freeze"} \X BOOLEAN, bucket : {"utxos"}, id : Op, rec : Utxo]
    \cup [op : {"used"} \X {TRUE}, bucket : {"keys"}, id : Purpose \X Index, rec : BOOLEAN]
    \cup [op : {"height"} \X Height, bucket : {"txns"}, id : Tx, rec : Txn]

BoltOK ==
    /\ utxos \in Table(Op, Utxo) /\ stxos \in Table(Op, Stxo) /\ txns \in Table(Tx, Txn)
    /\ keys \in [Purpose -> Table(Index, BOOLEAN)]
    /\ enc \in Enc \cup {NoRow}
    /\ call \in [Callers -> Call \cup {B!NoCall}]

SqliteOK ==
    /\ utxos \in Table(Op, S!UtxoRow) /\ stxos \in Table(Op, S!StxoRow)
    /\ txns \in Table(Tx, S!TxnRow)
    /\ keys \in [Purpose -> Table(Index, S!KeyRow)]
    /\ enc \in Enc \cup {NoRow}

MockOK ==
    /\ utxos \in Table(Op, Utxo) /\ txns \in Table(Tx, Txn)
    /\ stxos \in [Tx -> [op : Op, stxo : Stxo] \cup {NoRow}]
    /\ \A t \in M!Filed : stxos[t].stxo.spender = t
    /\ keys \in [Purpose -> Table(Index, BOOLEAN)]
    /\ enc \in {M!reverse(s) : s \in Secret} \cup {NoRow}

TypeOK ==
    /\ db \in {"bbolt", "sqlite", "mock"}
    /\ db = "bbolt" => BoltOK
    /\ db = "sqlite" => SqliteOK
    /\ db = "mock" => MockOK
    /\ subs \in [Script -> BOOLEAN] /\ date \in BOOLEAN

\* sqlite lists the keys of a purpose by rowid, the wallet takes that for the order
\* of their indexes: the last row is the last key, the first unused row the first
\* unused key.  It is, however the calls for the two purposes alternate.
RowidOrder ==
    db = "sqlite" =>
      \A p \in Purpose : \A i, j \in S!Rows(p) :
        i < j <=> keys[p][i].rowid < keys[p][j].rowid

\* Each database does what the interfaces of wallet/datastore.go promise, as Datastore
\* states it, with other calls and crashes between bbolt's get and put, sqlite's
\* integer columns and rowid order, and the mock's reversed secrets.  The only
\* exceptions are the calls above: with sqlite there is none, with bbolt none while
\* nobody else writes to the record and no unused key is below a used one.
Implements == D!Init /\ [][D!Next \/ Diverges]_(D!vars)
=============================================================================
