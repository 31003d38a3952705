------------------------------ MODULE Payments ------------------------------
(***************************************************************************)
(* The two ways the program makes coins into a transaction: payments of    *)
(* the wallet's own coins (Spend) and an import and sweep of the coins of  *)
(* other wallets' keys (Sweep), which share no state.                      *)
(***************************************************************************)
EXTENDS Spend

CONSTANTS Coins, ImportLists, Undecodable, FeePerByte

VARIABLES unspent, importing, keys, found, inputs, swept, answered, always, list

sweepVars == <<unspent, importing, keys, found, inputs, swept, answered, always, list>>

W == INSTANCE Sweep WITH pc <- importing, tx <- swept

\* What ImportAndSweep collects: each key's coins whole or not at all, though they
\* are read in two requests, and no coin twice (in Sweep).
SweepComplete == W!SweepComplete

\* The fee of what SweepCoins signs is relayed whatever the number of its inputs,
\* though its size is estimated with one witness (in Sweep).
RelayFeePaid == W!RelayFeePaid
=============================================================================
