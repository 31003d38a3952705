--------------------------- MODULE MCHeadersLead ---------------------------
(***************************************************************************)
(* Leaders that do not overlap, in three modes.  "any": servers answer     *)
(* from either fork, whatever they said before, and the process is killed  *)
(* at any step.  "miscount": the same with shorter forks, where a server's *)
(* declared Count may be one off the headers it sends.                     *)
(***************************************************************************)
EXTENDS MCHeaders

VARIABLE mode

-----------------------------------------------------------------------------
(***************************************************************************)
(* "reorg": a reorg as a running leader sees it.  The headers were synced  *)
(* from the old fork, up to some height, and the server, whose chain is    *)
(* now the new fork, stays connected, answers every request and keeps      *)
(* announcing its tip (every new block brings a notification).             *)
(***************************************************************************)
SyncedOnOldFork ==
    \E k \in 3..5 :
      /\ file = SubSeq(OldFork, 1, k) /\ torn = FALSE
      /\ hdrs = [h \in 1..k |-> OldFork[h]] /\ tip = k
      /\ synced = TRUE /\ recovery = FALSE /\ recoveryTip = 0
      /\ verified = TRUE /\ miscounted = FALSE /\ sent = k
      /\ pc = [n \in Nodes |-> "idle"]
      /\ live = [n \in Nodes |-> TRUE]
      /\ q = [n \in Nodes |-> <<>>]
      /\ nxt = [n \in Nodes |-> k + 1] /\ upto = [n \in Nodes |-> k]
      /\ rest = [n \in Nodes |-> <<>>]
      /\ cur = [n \in Nodes |-> 1]
      /\ got = [n \in Nodes |-> FALSE]
      /\ left = [n \in Nodes |-> 0] /\ tip0 = [n \in Nodes |-> 0]

R == INSTANCE Headers WITH Chains <- {NewFork}

Announces(n, heights) == R!Notified(n) /\ q'[n][Len(q'[n])].height \in heights

ShortForks == {SubSeq(OldFork, 1, 3), SubSeq(NewFork, 1, 4)}
M == INSTANCE Headers WITH Chains <- ShortForks, CountError <- {-1, 0, 1}

MCInit ==
    \/ mode \in {"any", "miscount"} /\ Init
    \/ mode = "reorg" /\ SyncedOnOldFork

MCNext ==
    /\ UNCHANGED mode
    /\ \/ mode = "any" /\ Next
       \/ mode = "miscount" /\ M!Next
       \/ mode = "reorg" /\ \E n \in Nodes : Announces(n, 1..6) \/ R!Work(n)

MCSpec ==
    /\ MCInit /\ [][MCNext]_<<vars, mode>>
    /\ R!Progress
    /\ \A n \in Nodes : SF_vars(Announces(n, {6}))

\* However deep the reorg (above the panic near the start point), the store ends
\* up with the server's chain in the map and in the file, and stays there.
CatchesUp ==
    mode = "reorg" =>
        <>[](tip = 6 /\ hdrs = [h \in 1..6 |-> NewFork[h]] /\ file = NewFork)
=============================================================================
