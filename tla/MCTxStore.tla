----------------------------- MODULE MCTxStore -----------------------------
(***************************************************************************)
(* Small instances of TxStore.                                             *)
(***************************************************************************)
EXTENDS TxStore, TLC

CONSTANTS p, r, q, c, e, p0, r0, q0, q1, c0, c1, e0, e1, f, g

MCTxOf == (p0 :> p) @@ (r0 :> r) @@ (q0 :> q) @@ (q1 :> q) @@ (c0 :> c) @@ (c1 :> c)
          @@ (e0 :> e) @@ (e1 :> e) @@ (f :> Foreign) @@ (g :> Foreign)
MCIns == (p :> {f}) @@ (r :> {f}) @@ (q :> {g}) @@ (c :> {p0, q0}) @@ (e :> {p0})
MCOwner == (p0 :> 0) @@ (r0 :> 1) @@ (q0 :> 1) @@ (c0 :> 2) @@ (c1 :> 0) @@ (e0 :> 0) @@ (e1 :> 1)
           @@ (q1 :> NotOurs) @@ (f :> NotOurs) @@ (g :> NotOurs)

\* The transactions of an instance, and the rest cut down to them.
Outputs(T) == {o \in DOMAIN MCTxOf : MCTxOf[o] \in T \/ \E t \in T : o \in MCIns[t]}
Only(fun, S) == [x \in S |-> fun[x]]

\* All of them: payments p and q, a double spend r of p, c, which spends p and q,
\* and e, which spends p and pays two keys.
AllTx == {p, r, q, c, e}
AllOp == DOMAIN MCTxOf

\* Two payments and a transaction that spends both.
PlainTx == {p, q, c}
PlainOp == Outputs(PlainTx)
PlainTxOf == Only(MCTxOf, PlainOp)
PlainIns == Only(MCIns, PlainTx)
PlainOwner == Only(MCOwner, PlainOp)
=============================================================================
