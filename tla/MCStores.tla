------------------------------ MODULE MCStores ------------------------------
(***************************************************************************)
(* Stores, one table at a time: no call reads or writes two of them.       *)
(***************************************************************************)
EXTENDS Stores, TLC

VARIABLE table

Symmetry ==
    UNION {Permutations(s) : s \in {Callers, Op, Tx, Purpose, Script}}
bytes == {<<1, 2>>, <<3, 4>>}

MCInit == Init /\ table \in {"utxos", "stxos", "txns", "keys", "others"}

MCNext ==
    /\ table' = table /\ db' = db
    /\ \/ /\ db = "bbolt"
          /\ \/ table = "utxos" /\ B!Utxos
             \/ table = "stxos" /\ B!Stxos
             \/ table = "txns" /\ B!Txns
             \/ table = "keys" /\ B!Keys
             \/ table = "others" /\ B!Others
             \/ B!Crash
       \/ /\ db = "sqlite" /\ call' = call
          /\ \/ table = "utxos" /\ S!Utxos
             \/ table = "stxos" /\ S!Stxos
             \/ table = "txns" /\ S!Txns
             \/ table = "keys" /\ S!Keys
             \/ table = "others" /\ S!Others
       \/ /\ db = "mock" /\ call' = call
          /\ \/ table = "utxos" /\ M!Utxos
             \/ table = "stxos" /\ M!Stxos
             \/ table = "txns" /\ M!Txns
             \/ table = "keys" /\ M!Keys
             \/ table = "others" /\ M!Others

MCSpec == MCInit /\ [][MCNext]_<<vars, table>>
=============================================================================
