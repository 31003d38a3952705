----------------------------- MODULE StoreTypes -----------------------------
(***************************************************************************)
(* The rows of the seven tables of a wallet's datastore                    *)
(* (wallet/datastore.go).  Amounts, scripts and times are left out.        *)
(***************************************************************************)
EXTENDS Integers, FiniteSets, Sequences

CONSTANTS
    Op,             \* outpoints
    Tx,             \* transaction ids
    Height,         \* block heights
    Purpose,        \* EXTERNAL and INTERNAL
    Index,          \* key indexes
    Script,         \* subscribed scripts
    Password,
    Secret,         \* what the encrypted storage may hold: strings of bytes
    NoRow           \* a row that does not exist, an answer without a value

Utxo == [height : Height, watchOnly : BOOLEAN, frozen : BOOLEAN]
Stxo == [height : Height, watchOnly : BOOLEAN, frozen : BOOLEAN,
         spendHeight : Height, spender : Tx]
Txn == [height : Height, watchOnly : BOOLEAN]

\* A spent coin as callers compare it: without its frozen mark.
SpentCoin == [height : Height, watchOnly : BOOLEAN, spendHeight : Height, spender : Tx]
Enc == [pw : Password, secret : Secret]

ASSUME IndexAssumption == Index \subseteq Nat /\ IsFiniteSet(Index)
ASSUME SecretAssumption == \A s \in Secret : s \in Seq(Int)

\* A row is told from a missing one.
ASSUME NoRowAssumption ==
    NoRow \notin Utxo \cup Stxo \cup SpentCoin \cup Txn \cup Enc \cup BOOLEAN
=============================================================================
