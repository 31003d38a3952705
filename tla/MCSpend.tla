------------------------------ MODULE MCSpend ------------------------------
(***************************************************************************)
(* The two ways a wallet's coins become a transaction, in one run.  "pay": *)
(* payments of Spend; "sweep": an import of other wallets' keys (Sweep).   *)
(* The other one rests at its start.                                       *)
(***************************************************************************)
EXTENDS Payments

CONSTANTS k1, k2, bad

VARIABLE mode

TwoCoins == <<5, 4>>

\* A key with a coin at each of its addresses, one of them small, and a key with
\* a coin too small to be swept on its own.  Three of them take more bytes to
\* spend than the estimate has for an input.
ForeignCoins ==
    <<[key |-> k1, witness |-> FALSE, value |-> 60000],
      [key |-> k1, witness |-> TRUE, value |-> 900],
      [key |-> k2, witness |-> FALSE, value |-> 1500],
      [key |-> k2, witness |-> FALSE, value |-> 30000]>>

Lists == {<<>>, <<bad, k1, k2>>, <<k2, k2>>}

ASSUME ForeignAssumption == W!WellFormed /\ W!RelayRate

MCInit ==
    /\ Init /\ W!Init
    /\ \/ mode = "pay" /\ unspent = {}
       \/ mode = "sweep"

MCNext ==
    /\ UNCHANGED mode
    /\ \/ mode = "pay" /\ Next /\ UNCHANGED sweepVars
       \/ mode = "sweep" /\ W!Next /\ UNCHANGED vars

MCSpec == MCInit /\ [][MCNext]_<<vars, sweepVars, mode>>
=============================================================================
