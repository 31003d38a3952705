---------------------------- MODULE MCTxStoreUse ----------------------------
(***************************************************************************)
(* Three instances of TxStore in one run.  "live": two payments, a double  *)
(* spend of one and a transaction that spends both; nobody freezes coins   *)
(* or kills the process.  "kill": a payment and a transaction that spends  *)
(* it and pays two keys; the user freezes coins and the process is killed  *)
(* between any two writes.  "chain": the transactions of "live" with their *)
(* outputs all paying one key, in chains in the mempool and made by other  *)
(* wallets too, so that a double spend kills a payment together with what  *)
(* spends it, and the process is killed between any two writes of that.    *)
(***************************************************************************)
EXTENDS MCTxStore

VARIABLE mode

LiveTx == {p, r, q, c}
LiveOp == Outputs(LiveTx)
PairTx == {p, e}
PairOp == Outputs(PairTx)

\* In mode chain there is one key.  NoCoinLost goes by the owners of the constants: it
\* asks for all that pays the key, as soon as it is used and the window holds two.
OneKey == [o \in LiveOp |-> IF MCOwner[o] \in {0, 1} THEN 0 ELSE NotOurs]

Live == INSTANCE TxStore WITH
    Tx <- LiveTx, Op <- LiveOp, TxOf <- Only(MCTxOf, LiveOp), Ins <- Only(MCIns, LiveTx),
    Owner <- Only(MCOwner, LiveOp), Freezing <- FALSE, Steps <- FALSE, Crashes <- FALSE
Kill == INSTANCE TxStore WITH
    Tx <- PairTx, Op <- PairOp, TxOf <- Only(MCTxOf, PairOp), Ins <- Only(MCIns, PairTx),
    Owner <- Only(MCOwner, PairOp), Freezing <- TRUE, Steps <- FALSE, Crashes <- TRUE
Chain == INSTANCE TxStore WITH
    Tx <- LiveTx, Op <- LiveOp, TxOf <- Only(MCTxOf, LiveOp), Ins <- Only(MCIns, LiveTx),
    Owner <- OneKey, SoleWallet <- FALSE, MempoolChains <- TRUE,
    Freezing <- FALSE, Steps <- TRUE, Crashes <- TRUE

\* In modes kill and chain a key of the constants is never fresh, and LiveBalance,
\* which is not kept there, says nothing.
ASSUME ModesAssumption ==
    /\ Live!Keys = Keys /\ Live!Undisturbed /\ Live!Visible
    /\ Kill!Keys # Keys /\ Chain!Keys # Keys

\* There is no telling apart there what differs only in the history that it is about.
View == IF mode = "live" THEN <<vars, mode>>
        ELSE <<net, db, cache, pc, key, todo, call, freeze, mode>>

MCInit == Init /\ mode \in {"live", "kill", "chain"}
MCNext ==
    /\ UNCHANGED mode
    /\ \/ mode = "live" /\ Live!Next
       \/ mode = "kill" /\ Kill!Next
       \/ mode = "chain" /\ Chain!Next
MCSpec == MCInit /\ [][MCNext]_<<vars, mode>>
=============================================================================
