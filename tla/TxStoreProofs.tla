--------------------------- MODULE TxStoreProofs ---------------------------
(***************************************************************************)
(* Proofs about TxStore, for any transactions, outputs, keys and GAP_LIMIT. *)
(***************************************************************************)
EXTENDS TxStore, FiniteSetTheorems, SequenceTheorems, TLAPS

\* What Put and Delete do to a bucket.
LEMMA PutFacts ==
    ASSUME NEW f, NEW g
    PROVE  /\ DOMAIN Put(f, g) = DOMAIN f \cup DOMAIN g
           /\ \A x \in DOMAIN g : Put(f, g)[x] = g[x]
           /\ \A x \in DOMAIN f \ DOMAIN g : Put(f, g)[x] = f[x]
  BY DEF Put

LEMMA DeleteFacts ==
    ASSUME NEW f, NEW S
    PROVE  /\ DOMAIN Delete(f, S) = DOMAIN f \ S
           /\ \A x \in DOMAIN f \ S : Delete(f, S)[x] = f[x]
  BY DEF Delete

LEMMA SingleFacts ==
    ASSUME NEW x, NEW v
    PROVE  DOMAIN Single(x, v) = {x} /\ Single(x, v)[x] = v
  BY DEF Single

\* A bucket keeps its type under Put and Delete.
LEMMA PutTyped ==
    ASSUME NEW f, NEW g, NEW X, NEW Y,
           DOMAIN f \subseteq X, \A x \in DOMAIN f : f[x] \in Y,
           DOMAIN g \subseteq X, \A x \in DOMAIN g : g[x] \in Y
    PROVE  DOMAIN Put(f, g) \subseteq X /\ \A x \in DOMAIN Put(f, g) : Put(f, g)[x] \in Y
  BY DEF Put

LEMMA DeleteTyped ==
    ASSUME NEW f, NEW S, NEW X, NEW Y,
           DOMAIN f \subseteq X, \A x \in DOMAIN f : f[x] \in Y
    PROVE  DOMAIN Delete(f, S) \subseteq X /\ \A x \in DOMAIN Delete(f, S) : Delete(f, S)[x] \in Y
  BY DEF Delete

LEMMA SingleTyped ==
    ASSUME NEW x, NEW v, NEW X, NEW Y, x \in X, v \in Y
    PROVE  DOMAIN Single(x, v) \subseteq X /\ \A y \in DOMAIN Single(x, v) : Single(x, v)[y] \in Y
  BY DEF Single

\* Sets of keys are finite.
LEMMA KeysFinite == IsFiniteSet(Keys) /\ Keys \subseteq Nat
  <1>1. Keys \subseteq Nat
    BY ConstantsAssumption DEF Keys
  <1>2. IsFiniteSet({Owner[o] : o \in Op})
    <2>1. Owner \in Surjection(Op, {Owner[o] : o \in Op})
      BY ConstantsAssumption DEF Surjection
    <2> QED BY <2>1, ConstantsAssumption, FS_Surjection
  <1>3. IsFiniteSet(Keys)
    BY <1>2, FS_Subset DEF Keys
  <1> QED BY <1>1, <1>3

-----------------------------------------------------------------------------
(* Type correctness. *)

LEMMA InitType == Init => TypeOK
  <1> SUFFICES ASSUME Init PROVE TypeOK
    OBVIOUS
  <1>0. DOMAIN None = {}
    BY DEF None
  <1>1. ServerOK /\ UtxosOK /\ StxosOK
    BY <1>0 DEF Init, ServerOK, UtxosOK, StxosOK
  <1>2. TxnsOK /\ CacheOK
    BY <1>0 DEF Init, TxnsOK, CacheOK
  <1>3. KeysOK
    BY ConstantsAssumption DEF Init, KeysOK
  <1>4. JobOK
    <2>1. hits \in BOOLEAN /\ valid \in BOOLEAN
      BY DEF Init
    <2>2. height \in Int /\ todo \subseteq [tx : Tx, height : Int]
      BY DEF Init
    <2> QED BY <2>1, <2>2 DEF Init, JobOK, Calling
  <1>5. UserOK
    BY DEF Init, UserOK
  <1>6. WalkOK
    BY DEF Init, WalkOK
  <1> QED BY <1>1, <1>2, <1>3, <1>4, <1>5, <1>6 DEF TypeOK

\* The calls of markAsDead stay as they are, and there are none when it has returned.
LEMMA WalkSame ==
    ASSUME WalkOK, UNCHANGED <<walk, torn, gaveUp>>, pc' = pc \/ (doubles = {} /\ stack = <<>>)
    PROVE  WalkOK'
  <1>1. UNCHANGED <<doubles, stack, torn, gaveUp>>
    BY DEF walk
  <1> QED BY <1>1 DEF WalkOK, FrameSet, Utxo

\* What the server does leaves the store's types alone.
LEMMA RestatusType ==
    ASSUME TypeOK, Restatus,
           UNCHANGED <<db, cache, pc, key, todo, call, user>>
    PROVE  UtxosOK' /\ StxosOK' /\ TxnsOK' /\ KeysOK' /\ CacheOK' /\ JobOK' /\ WalkOK' /\ UserOK'
  <1> USE DEF TypeOK, db, buckets, cache, call, user
  <1>1. UtxosOK' /\ StxosOK' /\ TxnsOK'
    BY DEF UtxosOK, StxosOK, TxnsOK, Utxo, Stxo
  <1>2. KeysOK' /\ CacheOK'
    BY DEF KeysOK, CacheOK, Keys
  <1>3. fresh' \subseteq Keys
    BY DEF Restatus, JobOK
  <1>4. valid' \in BOOLEAN
    BY DEF Restatus
  <1>5. JobOK'
    BY <1>3, <1>4 DEF JobOK, Calling, Keys
  <1>6. UserOK'
    BY DEF UserOK, NoFreeze, Utxo
  <1>7. WalkOK'
    BY WalkSame
  <1> QED BY <1>1, <1>2, <1>5, <1>6, <1>7

LEMMA ServerType ==
    ASSUME TypeOK, NEW t \in Tx, Broadcast(t) \/ Evict(t) \/ Mine(t)
    PROVE  TypeOK'
  <1>0. ServerOK
    BY DEF TypeOK
  <1>1. ServerOK'
    <2>1. CASE Broadcast(t)
      <3>1. DOMAIN net' \subseteq Tx /\ \A u \in DOMAIN net' : net'[u] \in Nat
        BY <2>1, <1>0, PutTyped, SingleTyped DEF Broadcast, ServerOK
      <3> QED BY <2>1, <1>0, <3>1 DEF Broadcast, ServerOK
    <2>2. CASE Evict(t)
      <3>1. DOMAIN net' \subseteq Tx /\ \A u \in DOMAIN net' : net'[u] \in Nat
        BY <2>2, <1>0, DeleteTyped DEF Evict, ServerOK
      <3> QED BY <2>2, <1>0, <3>1 DEF Evict, ServerOK
    <2>3. CASE Mine(t)
      <3>1. IsFiniteSet(Mined)
        BY <1>0, ConstantsAssumption, FS_Subset DEF Mined, ServerOK
      <3>2. Cardinality(Mined) + 1 \in Nat
        BY <3>1, FS_CardinalityType
      <3> QED BY <2>3, <1>0, <3>2 DEF Mine, ServerOK
    <2> QED BY <2>1, <2>2, <2>3
  <1>2. Restatus /\ UNCHANGED <<db, cache, pc, key, todo, call, user>>
    BY DEF Broadcast, Evict, Mine
  <1> QED BY <1>1, <1>2, RestatusType DEF TypeOK

\* Entries of a history, and what becomes of the job while it is worked through.
LEMMA HistoryTyped ==
    ASSUME ServerOK, NEW k
    PROVE  History(k) \subseteq [tx : Tx, height : Int]
  <1>1. \A t \in DOMAIN net : Listed(t) \in Int
    BY DEF ServerOK, Listed
  <1> QED BY <1>1 DEF History, ServerOK

LEMMA QueueType ==
    ASSUME TypeOK,
           \/ \E k \in Keys : GetHistory(k)
           \/ \E e \in todo : SkipConfirmed(e) \/ FetchFails(e) \/ AddTransactionReturns(e)
           \/ HistoryDone
    PROVE  TypeOK'
  <1>0. ServerOK /\ UtxosOK /\ StxosOK /\ TxnsOK /\ KeysOK /\ CacheOK /\ JobOK /\ WalkOK /\ UserOK
    BY DEF TypeOK
  <1>1. UNCHANGED <<server, db, cache, user>>
    BY DEF GetHistory, SkipConfirmed, FetchFails, AddTransactionReturns, HistoryDone
  <1>2. ServerOK' /\ UtxosOK' /\ StxosOK' /\ TxnsOK'
    BY <1>0, <1>1 DEF server, db, buckets, ServerOK, UtxosOK, StxosOK, TxnsOK, Utxo, Stxo
  <1>3. KeysOK' /\ CacheOK' /\ UserOK'
    BY <1>0, <1>1 DEF db, buckets, cache, user, KeysOK, CacheOK, UserOK, NoFreeze, Utxo, Keys
  <1>4. JobOK'
    <2>0. killed' \subseteq Tx
      BY <1>0, <1>1 DEF db, JobOK
    <2>1. ASSUME NEW k \in Keys, GetHistory(k) PROVE JobOK'
      <3>1. todo' \subseteq [tx : Tx, height : Int]
        BY <1>0, <2>1, HistoryTyped DEF GetHistory
      <3>2. valid' \in BOOLEAN
        BY <2>1 DEF GetHistory
      <3> QED BY <1>0, <2>0, <2>1, <3>1, <3>2 DEF GetHistory, JobOK, call, Calling
    <2>2. ASSUME NEW e \in todo, SkipConfirmed(e) \/ AddTransactionReturns(e) PROVE JobOK'
      <3>1. todo' \subseteq [tx : Tx, height : Int]
        BY <1>0, <2>2 DEF SkipConfirmed, AddTransactionReturns, JobOK
      <3>2. UNCHANGED <<pc, key, call, valid, fresh>>
        BY <2>2 DEF SkipConfirmed, AddTransactionReturns
      <3> QED BY <1>0, <2>0, <3>1, <3>2 DEF JobOK, call
    <2>3. ASSUME NEW e \in todo, FetchFails(e) PROVE JobOK'
      <3>1. todo' \subseteq [tx : Tx, height : Int]
        BY <1>0, <2>3 DEF FetchFails, JobOK
      <3>2. valid' \in BOOLEAN
        BY <2>3 DEF FetchFails
      <3>3. UNCHANGED <<pc, key, call, fresh>>
        BY <2>3 DEF FetchFails
      <3> QED BY <1>0, <2>0, <3>1, <3>2, <3>3 DEF JobOK, call
    <2>4. CASE HistoryDone
      <3>1. fresh' \subseteq Keys
        BY <1>0, <2>4 DEF HistoryDone, JobOK
      <3>2. valid' \in BOOLEAN
        BY <2>4 DEF HistoryDone
      <3> QED BY <1>0, <2>0, <2>4, <3>1, <3>2 DEF HistoryDone, JobOK, call, Calling
    <2> QED BY <2>1, <2>2, <2>3, <2>4
  <1>5. WalkOK'
    <2>1. UNCHANGED <<walk, torn, gaveUp>> /\ pc \in {"idle", "next"}
      BY <1>1 DEF db, call, Idle, GetHistory, SkipConfirmed, FetchFails, AddTransactionReturns,
                  HistoryDone
    <2>2. doubles = {} /\ stack = <<>>
      BY <1>0, <2>1 DEF WalkOK
    <2> QED BY <1>0, <2>1, <2>2, WalkSame
  <1> QED BY <1>2, <1>3, <1>4, <1>5 DEF TypeOK

\* What the call begins with.
LEMMA BeginsType ==
    ASSUME TypeOK, NEW e \in todo, Begins(e), pc' \in {"dead", "outputs"}, killed' \subseteq Tx
    PROVE  /\ ServerOK' /\ KeysOK' /\ CacheOK' /\ JobOK' /\ UserOK'
           /\ doubles = {} /\ stack = <<>>
  <1>0. ServerOK /\ KeysOK /\ CacheOK /\ JobOK /\ WalkOK /\ UserOK
    BY DEF TypeOK
  <1>1. ServerOK' /\ KeysOK' /\ CacheOK' /\ UserOK'
    BY <1>0 DEF Begins, server, cache, user, ServerOK, KeysOK, CacheOK, UserOK,
                NoFreeze, Utxo, Keys
  <1>2. JobOK'
    <2>1. e \in [tx : Tx, height : Int]
      BY <1>0 DEF JobOK
    <2>2. hits' \in BOOLEAN
      BY DEF Begins
    <2> QED BY <1>0, <2>1, <2>2 DEF Begins, JobOK, Calling
  <1>3. doubles = {} /\ stack = <<>>
    BY <1>0 DEF Begins, WalkOK
  <1> QED BY <1>1, <1>2, <1>3

LEMMA BeginType ==
    ASSUME TypeOK, NEW e \in todo, AddTransaction(e)
    PROVE  TypeOK'
  <1>0. ServerOK /\ UtxosOK /\ StxosOK /\ TxnsOK /\ KeysOK /\ CacheOK /\ JobOK /\ WalkOK /\ UserOK
    BY DEF TypeOK
  <1> DEFINE D == Dead(DoubleSpends(e.tx))
  <1>1. MarkAsDead(D) /\ killed' = (killed \cup D) \ {e.tx}
    BY DEF AddTransaction
  <1>2. D \subseteq Tx
    BY DEF Dead
  <1> HIDE DEF D
  <1>3. UtxosOK'
    <2> DEFINE back == [o \in DeadSpends(D) |-> stxos[o].utxo]
    <2>1. DOMAIN back \subseteq Op /\ \A o \in DOMAIN back : back[o] \in Utxo
      BY <1>0 DEF DeadSpends, StxosOK, Stxo
    <2> HIDE DEF back
    <2>2. /\ DOMAIN Put(utxos, back) \subseteq Op
          /\ \A o \in DOMAIN Put(utxos, back) : Put(utxos, back)[o] \in Utxo
      BY <1>0, <2>1, PutTyped DEF UtxosOK
    <2>3. utxos' = Delete(Put(utxos, back), DeadOutputs(D))
      BY <1>1 DEF MarkAsDead, UtxosAfterDeath, back
    <2>4. DOMAIN utxos' \subseteq Op /\ \A o \in DOMAIN utxos' : utxos'[o] \in Utxo
      BY <2>2, <2>3, DeleteTyped
    <2> QED BY <2>4 DEF UtxosOK, Utxo
  <1>4. StxosOK'
    <2>1. DOMAIN stxos' \subseteq Op /\ \A o \in DOMAIN stxos' : stxos'[o] \in Stxo
      BY <1>0, <1>1, DeleteTyped DEF MarkAsDead, StxosAfterDeath, StxosOK
    <2> QED BY <2>1 DEF StxosOK, Stxo, Utxo
  <1>5. TxnsOK'
    BY <1>0, <1>1 DEF MarkAsDead, TxnsAfterDeath, TxnsOK
  <1>6. ServerOK' /\ KeysOK' /\ CacheOK' /\ JobOK' /\ UserOK' /\ doubles = {} /\ stack = <<>>
    <2>1. killed' \subseteq Tx
      BY <1>0, <1>1, <1>2 DEF JobOK
    <2> QED BY <2>1, BeginsType DEF AddTransaction
  <1>7. WalkOK'
    BY <1>0, <1>6, WalkSame DEF AddTransaction
  <1> QED BY <1>3, <1>4, <1>5, <1>6, <1>7 DEF TypeOK

LEMMA BeginStepsType ==
    ASSUME TypeOK, NEW e \in todo, AddTransactionSteps(e)
    PROVE  TypeOK'
  <1>0. UtxosOK /\ StxosOK /\ TxnsOK /\ JobOK /\ WalkOK
    BY DEF TypeOK
  <1>1. UtxosOK' /\ StxosOK' /\ TxnsOK'
    BY <1>0 DEF AddTransactionSteps, UtxosOK, StxosOK, TxnsOK, Utxo, Stxo
  <1>2. ServerOK' /\ KeysOK' /\ CacheOK' /\ JobOK' /\ UserOK'
    <2>1. killed' \subseteq Tx
      BY <1>0 DEF AddTransactionSteps, JobOK
    <2> QED BY <2>1, BeginsType DEF AddTransactionSteps
  <1>3. WalkOK'
    <2>1. doubles' \subseteq Tx
      BY <1>0 DEF AddTransactionSteps, DoubleSpends, TxnsOK
    <2> QED BY <1>0, <2>1 DEF AddTransactionSteps, WalkOK
  <1> QED BY <1>1, <1>2, <1>3 DEF TypeOK

\* The calls of markAsDead: the innermost, a new one, one step of one.
LEMMA FrameTyped ==
    ASSUME TypeOK, NEW t \in Tx
    PROVE  Frame(t) \in FrameSet
  <1>1. ASSUME NEW o \in DOMAIN stxos PROVE Row(o) \in [op : Op, utxo : Utxo, spender : Tx]
    BY DEF Row, TypeOK, StxosOK, Stxo
  <1>2. Concerned(t) \subseteq [op : Op, utxo : Utxo, spender : Tx]
    BY <1>1 DEF Concerned
  <1> QED BY <1>2 DEF Frame, FrameSet

LEMMA TopTyped ==
    ASSUME TypeOK, stack # <<>>
    PROVE  /\ Len(stack) \in Nat \ {0} /\ Top \in FrameSet /\ Top = stack[Len(stack)]
           /\ stack[1] \in FrameSet
           /\ Top.at \in {"height", "put"} => Top.row \in [op : Op, utxo : Utxo, spender : Tx]
  <1>1. stack \in Seq(FrameSet)
    BY DEF TypeOK, WalkOK
  <1>2. Len(stack) \in Nat \ {0} /\ Top \in FrameSet /\ stack[1] \in FrameSet
    BY <1>1 DEF Top
  <1>3. ASSUME Top.at \in {"height", "put"} PROVE Top.row # NoRow
    BY <1>2, <1>3 DEF TypeOK, WalkOK, Top
  <1> QED BY <1>2, <1>3 DEF FrameSet, Top

\* What the stack of calls is after SetTop, a new call and a return.
LEMMA StackFacts ==
    ASSUME TypeOK, stack # <<>>, NEW f
    PROVE  /\ SetTop(f) => /\ Len(stack') = Len(stack) /\ stack' # <<>>
                           /\ stack'[Len(stack)] = f
                           /\ \A i \in 1..(Len(stack) - 1) : stack'[i] = stack[i]
                           /\ f \in FrameSet => stack' \in Seq(FrameSet)
           /\ \A g \in FrameSet : f \in FrameSet /\
                stack' = Append([stack EXCEPT ![Len(stack)] = f], g) =>
                  /\ Len(stack') = Len(stack) + 1
                  /\ stack'[Len(stack) + 1] = g /\ stack'[Len(stack)] = f
                  /\ \A i \in 1..(Len(stack) - 1) : stack'[i] = stack[i]
                  /\ stack' \in Seq(FrameSet)
           /\ stack' = SubSeq(stack, 1, Len(stack) - 1) =>
                /\ Len(stack') = Len(stack) - 1
                /\ \A i \in 1..(Len(stack) - 1) : stack'[i] = stack[i]
                /\ stack' \in Seq(FrameSet)
  <1>1. stack \in Seq(FrameSet) /\ Len(stack) \in Nat \ {0}
    BY TopTyped DEF TypeOK, WalkOK
  <1>2. ASSUME SetTop(f)
        PROVE  /\ Len(stack') = Len(stack) /\ stack' # <<>>
               /\ stack'[Len(stack)] = f
               /\ \A i \in 1..(Len(stack) - 1) : stack'[i] = stack[i]
               /\ f \in FrameSet => stack' \in Seq(FrameSet)
    BY <1>1, <1>2 DEF SetTop
  <1>3. ASSUME NEW g \in FrameSet, f \in FrameSet,
               stack' = Append([stack EXCEPT ![Len(stack)] = f], g)
        PROVE  /\ Len(stack') = Len(stack) + 1
               /\ stack'[Len(stack) + 1] = g /\ stack'[Len(stack)] = f
               /\ \A i \in 1..(Len(stack) - 1) : stack'[i] = stack[i]
               /\ stack' \in Seq(FrameSet)
    <2> DEFINE mid == [stack EXCEPT ![Len(stack)] = f]
    <2>1. /\ mid \in Seq(FrameSet) /\ Len(mid) = Len(stack) /\ mid[Len(stack)] = f
          /\ \A i \in 1..(Len(stack) - 1) : mid[i] = stack[i]
      BY <1>1, <1>3
    <2>2. stack' = Append(mid, g)
      BY <1>3
    <2> HIDE DEF mid
    <2> QED BY <1>1, <1>3, <2>1, <2>2
  <1>4. ASSUME stack' = SubSeq(stack, 1, Len(stack) - 1)
        PROVE  /\ Len(stack') = Len(stack) - 1
               /\ \A i \in 1..(Len(stack) - 1) : stack'[i] = stack[i]
               /\ stack' \in Seq(FrameSet)
    <2> DEFINE n == Len(stack) - 1
               rest1 == SubSeq(stack, 1, n)
    <2>1. n \in Nat /\ n \in Int /\ 1 \in Int /\ \A i \in 1..n : stack[i] \in FrameSet
      BY <1>1
    <2> HIDE DEF n
    <2>2. /\ rest1 \in Seq(FrameSet)
          /\ Len(rest1) = IF 1 <= n THEN n - 1 + 1 ELSE 0
          /\ \A i \in 1..(n - 1 + 1) : rest1[i] = stack[1 + i - 1]
      BY <2>1, SubSeqProperties
    <2>3. stack' = rest1
      BY <1>4 DEF n
    <2> HIDE DEF rest1
    <2>4. Len(stack') = n /\ \A i \in 1..n : stack'[i] = stack[i]
      <3>1. n - 1 + 1 = n /\ \A i \in 1..n : 1 + i - 1 = i
        BY <2>1
      <3> QED BY <2>1, <2>2, <2>3, <3>1
    <2> QED BY <2>2, <2>3, <2>4 DEF n
  <1> QED BY <1>2, <1>3, <1>4

\* Steps of markAsDead leave the rest of the call and of the store alone; they set
\* heights to -1.
LEMMA WalkFacts ==
    ASSUME MarkAsDeadStep
    PROVE  /\ Steps /\ pc = "dead" /\ pc' \in {"dead", "outputs"}
           /\ UNCHANGED <<server, nkeys, used, cache, key, todo, tx, height, hits, torn, valid,
                          fresh, user>>
           /\ DOMAIN txns' = DOMAIN txns
           /\ \A t \in DOMAIN txns : txns'[t] = txns[t] \/ txns'[t] = -1
  <1>1. Steps /\ pc = "dead" /\ pc' \in {"dead", "outputs"}
    BY DEF MarkAsDeadStep, MarkDouble, DeleteDeadStxo, DeleteDeadUtxo, MarkSpender,
           SpenderMissing, PutBack, RowsDone, MarkReturns, DoublesDone, Walking, rest
  <1>2. UNCHANGED <<server, nkeys, used, cache, key, todo, tx, height, hits, torn, valid,
                    fresh, user>>
    BY DEF MarkAsDeadStep, MarkDouble, DeleteDeadStxo, DeleteDeadUtxo, MarkSpender,
           SpenderMissing, PutBack, RowsDone, MarkReturns, DoublesDone, rest, db, buckets
  <1>3. /\ DOMAIN txns' = DOMAIN txns
        /\ \A t \in DOMAIN txns : txns'[t] = txns[t] \/ txns'[t] = -1
    BY DEF MarkAsDeadStep, MarkDouble, DeleteDeadStxo, DeleteDeadUtxo, MarkSpender,
           SpenderMissing, PutBack, RowsDone, MarkReturns, DoublesDone, TxnsAfterDeath, db, buckets
  <1> QED BY <1>1, <1>2, <1>3

LEMMA WalkType ==
    ASSUME TypeOK, MarkAsDeadStep
    PROVE  TypeOK'
  <1>0. ServerOK /\ UtxosOK /\ StxosOK /\ TxnsOK /\ KeysOK /\ CacheOK /\ JobOK /\ WalkOK /\ UserOK
    BY DEF TypeOK
  <1>1. UNCHANGED <<server, nkeys, used, cache, key, todo, tx, height, hits, torn, valid,
                    fresh, user>> /\ pc = "dead" /\ pc' \in {"dead", "outputs"}
    BY WalkFacts
  <1>2. ServerOK' /\ KeysOK' /\ CacheOK' /\ UserOK'
    BY <1>0, <1>1 DEF server, cache, user, ServerOK, KeysOK, CacheOK, UserOK, NoFreeze, Utxo, Keys
  <1>3. TxnsOK'
    BY <1>0, WalkFacts DEF TxnsOK
  <1>4. JobOK'
    <2>1. killed' \subseteq Tx
      <3>1. CASE MarkReturns
        <4>1. Top.tx \in Tx
          BY <3>1, TopTyped DEF MarkReturns, Walking, FrameSet
        <4> QED BY <1>0, <3>1, <4>1 DEF MarkReturns, JobOK
      <3>2. CASE UNCHANGED killed
        BY <1>0, <3>2 DEF JobOK
      <3> QED BY <3>1, <3>2 DEF MarkAsDeadStep, MarkDouble, DeleteDeadStxo, DeleteDeadUtxo,
                 MarkSpender, SpenderMissing, PutBack, RowsDone, DoublesDone, db
    <2> QED BY <1>0, <1>1, <2>1 DEF JobOK, Calling, Keys
  <1>5. UtxosOK'
    <2>1. CASE PutBack
      <3>1. Top.row.op \in Op /\ Top.row.utxo \in Utxo
        BY <2>1, TopTyped DEF PutBack, Walking
      <3>2. DOMAIN utxos' \subseteq Op /\ \A o \in DOMAIN utxos' : utxos'[o] \in Utxo
        BY <1>0, <2>1, <3>1, PutTyped, SingleTyped DEF PutBack, UtxosOK
      <3> QED BY <3>2 DEF UtxosOK, Utxo
    <2>2. CASE \E o \in Top.outs : DeleteDeadUtxo(o)
      <3>1. DOMAIN utxos' \subseteq Op /\ \A o \in DOMAIN utxos' : utxos'[o] \in Utxo
        BY <1>0, <2>2, DeleteTyped DEF DeleteDeadUtxo, UtxosOK
      <3> QED BY <3>1 DEF UtxosOK, Utxo
    <2>3. CASE UNCHANGED utxos
      BY <1>0, <2>3 DEF UtxosOK, Utxo
    <2> QED BY <2>1, <2>2, <2>3 DEF MarkAsDeadStep, MarkDouble, DeleteDeadStxo, MarkSpender,
               SpenderMissing, RowsDone, MarkReturns, DoublesDone, db, buckets
  <1>6. StxosOK'
    <2>1. CASE \E w \in Top.rows : DeleteDeadStxo(w)
      <3>1. DOMAIN stxos' \subseteq Op /\ \A o \in DOMAIN stxos' : stxos'[o] \in Stxo
        BY <1>0, <2>1, DeleteTyped DEF DeleteDeadStxo, StxosOK
      <3> QED BY <3>1 DEF StxosOK, Stxo, Utxo
    <2>2. CASE UNCHANGED stxos
      BY <1>0, <2>2 DEF StxosOK, Stxo, Utxo
    <2> QED BY <2>1, <2>2 DEF MarkAsDeadStep, MarkDouble, DeleteDeadUtxo, MarkSpender, PutBack,
               SpenderMissing, RowsDone, MarkReturns, DoublesDone, db, buckets
  <1>7. WalkOK'
    <2>1. torn' \subseteq Op
      BY <1>0, <1>1 DEF WalkOK
    <2>2. \A f : f \in FrameSet' <=> f \in FrameSet
      BY DEF FrameSet, Utxo
    <2>3. ASSUME stack' \in Seq(FrameSet), doubles' \subseteq Tx, gaveUp' \subseteq Tx,
                 \A i \in 1..Len(stack') :
                   stack'[i].at \in {"height", "put"} => stack'[i].row # NoRow,
                 pc' # "dead" => doubles' = {} /\ stack' = <<>>
          PROVE  WalkOK'
      BY <2>1, <2>3 DEF WalkOK, FrameSet, Utxo
    <2>4. \A i \in 1..Len(stack) : stack[i].at \in {"height", "put"} => stack[i].row # NoRow
      BY <1>0 DEF WalkOK
    <2>5. ASSUME NEW d \in doubles, MarkDouble(d) PROVE WalkOK'
      <3>1. Frame(d) \in FrameSet /\ Frame(d).at = "rows"
        BY <1>0, <2>5, FrameTyped DEF WalkOK, Frame
      <3>2. stack' = <<Frame(d)>> /\ doubles' \subseteq Tx /\ gaveUp' \subseteq Tx /\ pc' = "dead"
        BY <1>0, <2>5 DEF MarkDouble, WalkOK, rest
      <3> HIDE DEF Frame
      <3> QED BY <2>3, <3>1, <3>2
    <2>6. ASSUME stack # <<>>, NEW f \in FrameSet, SetTop(f), UNCHANGED <<doubles, gaveUp, pc>>,
                 f.at \in {"height", "put"} => f.row # NoRow
          PROVE  WalkOK'
      <3>1. /\ Len(stack') = Len(stack) /\ stack'[Len(stack)] = f /\ Len(stack) \in Nat \ {0}
            /\ \A i \in 1..(Len(stack) - 1) : stack'[i] = stack[i]
            /\ stack' \in Seq(FrameSet)
        BY <2>6, StackFacts, TopTyped
      <3>2. \A i \in 1..Len(stack') : stack'[i].at \in {"height", "put"} => stack'[i].row # NoRow
        BY <2>4, <2>6, <3>1
      <3> QED BY <1>0, <1>1, <2>3, <2>6, <3>1, <3>2 DEF WalkOK
    <2>7. ASSUME NEW w \in Top.rows, stack # <<>>, DeleteDeadStxo(w) PROVE WalkOK'
      <3>1. Top \in FrameSet /\ w \in [op : Op, utxo : Utxo, spender : Tx]
        BY <2>7, TopTyped DEF FrameSet
      <3>2. [Top EXCEPT !.at = "height", !.rows = @ \ {w}, !.row = w] \in FrameSet
        BY <3>1 DEF FrameSet
      <3>3. w # NoRow
        BY <3>1 DEF NoRow
      <3> QED BY <2>6, <2>7, <3>1, <3>2, <3>3 DEF DeleteDeadStxo, rest, FrameSet
    <2>8. ASSUME NEW o \in Top.outs, stack # <<>>, DeleteDeadUtxo(o) PROVE WalkOK'
      <3>1. Top \in FrameSet /\ Top.at = "outs"
        BY <2>8, TopTyped DEF DeleteDeadUtxo, Walking
      <3>2. [Top EXCEPT !.outs = @ \ {o}] \in FrameSet
        BY <3>1 DEF FrameSet
      <3> QED BY <2>6, <2>8, <3>1, <3>2 DEF DeleteDeadUtxo, rest, FrameSet
    <2>9. CASE MarkSpender
      <3> DEFINE t == Top.row.spender
                 f == [Top EXCEPT !.at = "rows"]
                 h == [Top EXCEPT !.at = "put"]
      <3>1. stack # <<>> /\ Top \in FrameSet /\ Top.row \in [op : Op, utxo : Utxo, spender : Tx]
        BY <2>9, TopTyped DEF MarkSpender, Walking
      <3>2. f \in FrameSet /\ h \in FrameSet /\ f.at = "rows" /\ h.row = Top.row
        BY <3>1 DEF FrameSet
      <3>3. Frame(t) \in FrameSet /\ Frame(t).at = "rows"
        BY <3>1, FrameTyped DEF Frame
      <3>4. UNCHANGED <<doubles, gaveUp, pc>>
        BY <2>9 DEF MarkSpender, rest
      <3>5. CASE t = Top.tx
        <4>1. SetTop(h) /\ h.row # NoRow
          BY <2>9, <3>1, <3>2, <3>5 DEF MarkSpender, NoRow
        <4> HIDE DEF h
        <4> QED BY <2>6, <3>1, <3>2, <3>4, <4>1
      <3>6. CASE t # Top.tx
        <4>1. stack' = Append([stack EXCEPT ![Len(stack)] = f], Frame(t))
          BY <2>9, <3>6 DEF MarkSpender
        <4> HIDE DEF f, h, t, Frame
        <4>2. /\ Len(stack') = Len(stack) + 1 /\ Len(stack) \in Nat \ {0}
              /\ stack'[Len(stack) + 1] = Frame(t) /\ stack'[Len(stack)] = f
              /\ \A i \in 1..(Len(stack) - 1) : stack'[i] = stack[i]
              /\ stack' \in Seq(FrameSet)
          BY <3>1, <3>2, <3>3, <4>1, StackFacts, TopTyped
        <4>3. ASSUME NEW i \in 1..Len(stack')
              PROVE  stack'[i].at \in {"height", "put"} => stack'[i].row # NoRow
          <5>1. i = Len(stack) + 1 \/ i = Len(stack) \/ i \in 1..(Len(stack) - 1)
            BY <4>2
          <5>2. CASE i \in 1..(Len(stack) - 1)
            BY <2>4, <4>2, <5>2
          <5> QED BY <3>2, <3>3, <4>2, <5>1, <5>2
        <4> QED BY <1>0, <1>1, <2>3, <3>4, <4>2, <4>3 DEF WalkOK
      <3> QED BY <3>5, <3>6
    <2>10. CASE SpenderMissing
      <3>1. stack[1].tx \in Tx
        BY <2>10, TopTyped DEF SpenderMissing, Walking, FrameSet
      <3> QED BY <1>0, <2>3, <2>10, <3>1 DEF SpenderMissing, WalkOK, rest
    <2>11. CASE PutBack \/ RowsDone
      <3>1. stack # <<>> /\ Top \in FrameSet
        BY <2>11, TopTyped DEF PutBack, RowsDone, Walking
      <3>2. {o \in DOMAIN utxos : TxOf[o] = Top.tx} \subseteq Op
        BY <1>0 DEF UtxosOK
      <3>3. CASE PutBack
        <4>1. SetTop([Top EXCEPT !.at = "rows"])
          BY <3>3 DEF PutBack
        <4>2. [Top EXCEPT !.at = "rows"] \in FrameSet
          BY <3>1 DEF FrameSet
        <4> QED BY <2>6, <3>1, <3>3, <4>1, <4>2 DEF PutBack, rest, FrameSet
      <3>4. CASE RowsDone
        <4> DEFINE f == [Top EXCEPT !.at = "outs", !.outs = {o \in DOMAIN utxos : TxOf[o] = Top.tx}]
        <4>1. SetTop(f)
          BY <3>4 DEF RowsDone
        <4>2. f \in FrameSet /\ f.at = "outs"
          BY <3>1, <3>2 DEF FrameSet
        <4> HIDE DEF f
        <4> QED BY <2>6, <3>1, <3>4, <4>1, <4>2 DEF RowsDone, rest
      <3> QED BY <2>11, <3>3, <3>4
    <2>12. CASE MarkReturns
      <3>1. stack # <<>>
        BY <2>12 DEF MarkReturns, Walking
      <3>2. /\ Len(stack') = Len(stack) - 1 /\ Len(stack) \in Nat \ {0}
            /\ \A i \in 1..(Len(stack) - 1) : stack'[i] = stack[i]
            /\ stack' \in Seq(FrameSet)
        BY <2>12, <3>1, StackFacts, TopTyped DEF MarkReturns
      <3>3. \A i \in 1..Len(stack') : stack'[i].at \in {"height", "put"} => stack'[i].row # NoRow
        BY <2>4, <3>2
      <3> QED BY <1>0, <2>3, <2>12, <3>2, <3>3 DEF MarkReturns, WalkOK, rest
    <2>13. CASE DoublesDone
      BY <1>0, <2>3, <2>4, <2>13 DEF DoublesDone, WalkOK, db
    <2> QED BY <2>5, <2>7, <2>8, <2>9, <2>10, <2>11, <2>12, <2>13 DEF MarkAsDeadStep
  <1> QED BY <1>2, <1>3, <1>4, <1>5, <1>6, <1>7 DEF TypeOK

\* The lookahead window only grows and always has Gap unused keys.
LEMMA LookaheadFacts ==
    ASSUME NEW n \in Nat, NEW u, u \subseteq Keys
    PROVE  /\ Lookahead(n, u) \in Nat
           /\ Lookahead(n, u) >= n
           /\ Cardinality(u) \in Nat
           /\ Lookahead(n, u) >= Cardinality(u) + Gap
           /\ n >= Cardinality(u) + Gap => Lookahead(n, u) = n
  <1>1. IsFiniteSet(u)
    BY KeysFinite, FS_Subset
  <1>2. Cardinality(u) \in Nat
    BY <1>1, FS_CardinalityType
  <1> QED BY <1>2, ConstantsAssumption DEF Lookahead

LEMMA OutputsType ==
    ASSUME TypeOK, PutOutputs
    PROVE  TypeOK'
  <1>0. ServerOK /\ UtxosOK /\ StxosOK /\ TxnsOK /\ KeysOK /\ CacheOK /\ JobOK /\ WalkOK /\ UserOK
    BY DEF TypeOK
  <1> DEFINE new == [o \in Ours |-> [height |-> height, frozen |-> FALSE]]
  <1>1. UtxosOK'
    <2>1. DOMAIN new \subseteq Op /\ \A o \in DOMAIN new : new[o] \in Utxo
      BY <1>0 DEF Ours, JobOK, Utxo
    <2>2. utxos' = Put(utxos, new)
      BY DEF PutOutputs
    <2> HIDE DEF new
    <2>3. DOMAIN utxos' \subseteq Op /\ \A o \in DOMAIN utxos' : utxos'[o] \in Utxo
      BY <1>0, <2>1, <2>2, PutTyped DEF UtxosOK
    <2> QED BY <2>3 DEF UtxosOK, Utxo
  <1>2. KeysOK'
    <2>1. \A o \in Ours : Owner[o] \in Keys
      BY <1>0, ConstantsAssumption DEF Ours, Keys, NotOurs, KeysOK
    <2>2. used' \subseteq Keys
      BY <1>0, <2>1 DEF PutOutputs, KeysOK
    <2>3. nkeys' \in Nat
      BY <1>0, <2>2, LookaheadFacts DEF PutOutputs, KeysOK
    <2> QED BY <1>0, <2>2, <2>3 DEF PutOutputs, KeysOK, cache, Keys
  <1>3. ServerOK' /\ StxosOK' /\ TxnsOK' /\ CacheOK' /\ UserOK'
    BY <1>0 DEF PutOutputs, server, cache, user, ServerOK, StxosOK, TxnsOK, CacheOK, UserOK,
                NoFreeze, Utxo, Stxo
  <1>4. JobOK'
    <2>1. hits' \in BOOLEAN
      BY DEF PutOutputs
    <2> QED BY <1>0, <2>1 DEF PutOutputs, JobOK, Calling
  <1>5. WalkOK'
    <2>1. doubles = {} /\ stack = <<>>
      BY <1>0 DEF PutOutputs, WalkOK
    <2> QED BY <1>0, <2>1, WalkSame DEF PutOutputs
  <1> QED BY <1>1, <1>2, <1>3, <1>4, <1>5 DEF TypeOK

LEMMA InputsType ==
    ASSUME TypeOK, SpendInputs
    PROVE  TypeOK'
  <1>0. ServerOK /\ UtxosOK /\ StxosOK /\ TxnsOK /\ KeysOK /\ CacheOK /\ JobOK /\ WalkOK /\ UserOK
    BY DEF TypeOK
  <1> DEFINE new == [o \in Spent |-> [utxo |-> utxos[o], spendHeight |-> height, spender |-> tx]]
  <1>1. StxosOK'
    <2>1. DOMAIN new \subseteq Op /\ \A o \in DOMAIN new : new[o] \in Stxo
      BY <1>0 DEF SpendInputs, Spent, JobOK, Calling, UtxosOK, Stxo
    <2>2. stxos' = Put(stxos, new)
      BY DEF SpendInputs
    <2> HIDE DEF new
    <2>3. DOMAIN stxos' \subseteq Op /\ \A o \in DOMAIN stxos' : stxos'[o] \in Stxo
      BY <1>0, <2>1, <2>2, PutTyped DEF StxosOK
    <2> QED BY <2>3 DEF StxosOK, Stxo, Utxo
  <1>2. UtxosOK'
    <2>1. DOMAIN utxos' \subseteq Op /\ \A o \in DOMAIN utxos' : utxos'[o] \in Utxo
      BY <1>0, DeleteTyped DEF SpendInputs, UtxosOK
    <2> QED BY <2>1 DEF UtxosOK, Utxo
  <1>3. ServerOK' /\ TxnsOK' /\ KeysOK' /\ CacheOK' /\ UserOK'
    BY <1>0 DEF SpendInputs, server, cache, user, ServerOK, TxnsOK, KeysOK, CacheOK, UserOK,
                NoFreeze, Utxo, Keys
  <1>4. JobOK'
    <2>1. hits' \in BOOLEAN
      BY DEF SpendInputs
    <2> QED BY <1>0, <2>1 DEF SpendInputs, JobOK, Calling
  <1>5. WalkOK'
    <2>1. doubles = {} /\ stack = <<>>
      BY <1>0 DEF SpendInputs, WalkOK
    <2> QED BY <1>0, <2>1, WalkSame DEF SpendInputs
  <1> QED BY <1>1, <1>2, <1>3, <1>4, <1>5 DEF TypeOK

LEMMA HeightsType ==
    ASSUME TypeOK, UpdateSpendHeight
    PROVE  TypeOK'
  <1>0. ServerOK /\ UtxosOK /\ StxosOK /\ TxnsOK /\ KeysOK /\ CacheOK /\ JobOK /\ WalkOK /\ UserOK
    BY DEF TypeOK
  <1>1. StxosOK'
    <2>1. CASE UNCHANGED stxos
      BY <1>0, <2>1 DEF StxosOK, Stxo, Utxo
    <2>2. CASE \E o \in DOMAIN stxos : stxos' = [stxos EXCEPT ![o].spendHeight = height]
      <3>1. PICK o \in DOMAIN stxos : stxos' = [stxos EXCEPT ![o].spendHeight = height]
        BY <2>2
      <3>2. [stxos[o] EXCEPT !.spendHeight = height] \in Stxo
        BY <1>0 DEF StxosOK, Stxo, JobOK
      <3>3. DOMAIN stxos' \subseteq Op /\ \A u \in DOMAIN stxos' : stxos'[u] \in Stxo
        BY <1>0, <3>1, <3>2 DEF StxosOK
      <3> QED BY <3>3 DEF StxosOK, Stxo, Utxo
    <2> QED BY <2>1, <2>2 DEF UpdateSpendHeight
  <1>2. ServerOK' /\ UtxosOK' /\ TxnsOK' /\ KeysOK' /\ CacheOK' /\ UserOK'
    BY <1>0 DEF UpdateSpendHeight, server, cache, user, ServerOK, UtxosOK, TxnsOK, KeysOK,
                CacheOK, UserOK, NoFreeze, Utxo, Keys
  <1>3. JobOK'
    <2>1. hits' \in BOOLEAN
      BY <1>0 DEF UpdateSpendHeight, JobOK
    <2> QED BY <1>0, <2>1 DEF UpdateSpendHeight, JobOK, Calling
  <1>4. WalkOK'
    <2>1. doubles = {} /\ stack = <<>>
      BY <1>0 DEF UpdateSpendHeight, WalkOK
    <2> QED BY <1>0, <2>1, WalkSame DEF UpdateSpendHeight
  <1> QED BY <1>1, <1>2, <1>3, <1>4 DEF TypeOK

LEMMA PutTxnType ==
    ASSUME TypeOK, PutTxn
    PROVE  TypeOK'
  <1>0. ServerOK /\ UtxosOK /\ StxosOK /\ TxnsOK /\ KeysOK /\ CacheOK /\ JobOK /\ WalkOK /\ UserOK
    BY DEF TypeOK
  <1>1. TxnsOK' /\ CacheOK'
    <2>1. tx \in Tx /\ StoredHeight \in Int
      BY <1>0 DEF PutTxn, JobOK, Calling, StoredHeight, HasConfirmed, TxnsOK
    <2>2. CASE hits
      <3>1. txns' = Put(txns, Single(tx, StoredHeight)) /\ txids' = Put(txids, txns')
        BY <2>2 DEF PutTxn
      <3>2. DOMAIN txns' \subseteq Tx /\ \A t \in DOMAIN txns' : txns'[t] \in Int
        BY <1>0, <2>1, <3>1, PutTyped, SingleTyped DEF TxnsOK
      <3>3. DOMAIN txids' \subseteq Tx /\ \A t \in DOMAIN txids' : txids'[t] \in Int
        BY <1>0, <3>1, <3>2, PutTyped DEF CacheOK
      <3> QED BY <3>2, <3>3 DEF TxnsOK, CacheOK
    <2>3. CASE ~hits
      BY <1>0, <2>3 DEF PutTxn, cache, TxnsOK, CacheOK
    <2> QED BY <2>2, <2>3
  <1>2. KeysOK'
    BY <1>0 DEF PutTxn, cache, PopulatedAdrs, KeysOK, Keys
  <1>3. ServerOK' /\ UtxosOK' /\ StxosOK' /\ UserOK'
    BY <1>0 DEF PutTxn, server, user, ServerOK, UtxosOK, StxosOK, UserOK, NoFreeze, Utxo, Stxo
  <1>4. JobOK'
    <2>1. hits' \in BOOLEAN
      BY DEF PutTxn, NoCall
    <2> QED BY <1>0, <2>1 DEF PutTxn, NoCall, JobOK, Calling
  <1>5. WalkOK'
    BY <1>0 DEF PutTxn, NoCall, WalkOK, FrameSet, Utxo
  <1> QED BY <1>1, <1>2, <1>3, <1>4, <1>5 DEF TypeOK

LEMMA FreezeType ==
    ASSUME TypeOK, (\E o \in Op, b \in BOOLEAN : FreezeGet(o, b)) \/ FreezePut
    PROVE  TypeOK'
  <1>0. ServerOK /\ UtxosOK /\ StxosOK /\ TxnsOK /\ KeysOK /\ CacheOK /\ JobOK /\ WalkOK /\ UserOK
    BY DEF TypeOK
  <1>1. UNCHANGED <<server, stxos, txns, nkeys, used, killed, cache, job, fresh>>
    BY DEF FreezeGet, FreezePut, db, buckets
  <1>2. ServerOK' /\ StxosOK' /\ TxnsOK' /\ KeysOK' /\ CacheOK'
    BY <1>0, <1>1 DEF server, cache, ServerOK, StxosOK, TxnsOK, KeysOK, CacheOK, Keys, Stxo, Utxo
  <1>3. JobOK'
    BY <1>0, <1>1 DEF job, call, JobOK, Calling, Keys
  <1>4. WalkOK'
    <2>1. UNCHANGED <<walk, torn, gaveUp, pc>>
      BY DEF FreezeGet, FreezePut, db, job, call
    <2> QED BY <1>0, <2>1, WalkSame
  <1>5. ASSUME NEW o \in Op, NEW b \in BOOLEAN, FreezeGet(o, b) PROVE UtxosOK' /\ UserOK'
    <2>1. UtxosOK'
      BY <1>0, <1>5 DEF FreezeGet, db, buckets, UtxosOK, Utxo
    <2>2. Refrozen(o, b) \in Utxo
      BY <1>0, <1>5 DEF FreezeGet, Refrozen, UtxosOK, Utxo
    <2>3. freeze' \in Op \X BOOLEAN \X Utxo
      BY <1>5, <2>2 DEF FreezeGet
    <2> QED BY <1>0, <1>5, <2>1, <2>3 DEF FreezeGet, UserOK, Utxo, NoFreeze
  <1>6. CASE FreezePut
    <2>1. freeze \in Op \X BOOLEAN \X Utxo
      BY <1>0, <1>6 DEF FreezePut, UserOK
    <2>2. freeze[1] \in Op /\ freeze[3] \in Utxo
      BY <2>1
    <2>3. DOMAIN utxos' \subseteq Op /\ \A o \in DOMAIN utxos' : utxos'[o] \in Utxo
      BY <1>0, <1>6, <2>2, PutTyped, SingleTyped DEF FreezePut, UtxosOK
    <2>4. UtxosOK'
      BY <2>3 DEF UtxosOK, Utxo
    <2>5. UserOK'
      BY <1>0, <1>6, <2>2 DEF FreezePut, UserOK
    <2> QED BY <1>2, <1>3, <1>4, <2>4, <2>5 DEF TypeOK
  <1> QED BY <1>2, <1>3, <1>4, <1>5, <1>6 DEF TypeOK

\* What a restart leaves, wherever the process was.
LEMMA ReloadType ==
    ASSUME TypeOK, Reload, UtxosOK', StxosOK', KeysOK'
    PROVE  TypeOK'
  <1>0. ServerOK /\ TxnsOK /\ JobOK /\ WalkOK /\ UserOK
    BY DEF TypeOK
  <1>1. ServerOK'
    BY <1>0 DEF Reload, server, ServerOK
  <1>2. TxnsOK' /\ CacheOK'
    BY <1>0 DEF Reload, TxnsOK, CacheOK
  <1>3. UserOK'
    BY DEF Reload, UserOK
  <1>4. JobOK'
    <2>1. hits' \in BOOLEAN /\ valid' \in BOOLEAN
      BY DEF Reload, NoCall
    <2>2. todo' \subseteq [tx : Tx, height : Int] /\ killed' \subseteq Tx /\ fresh' \subseteq Keys
      BY <1>0 DEF Reload, JobOK
    <2> QED BY <2>1, <2>2 DEF Reload, NoCall, JobOK, Calling
  <1>5. WalkOK'
    <2>1. InFlight \subseteq Op
      <3>1. ASSUME stack # <<>>, Top.at \in {"height", "put"} PROVE Top.row.op \in Op
        <4>1. Len(stack) \in 1..Len(stack) /\ Top \in FrameSet
          BY <1>0, <3>1 DEF WalkOK, Top
        <4>2. Top.row # NoRow
          BY <1>0, <3>1, <4>1 DEF WalkOK, Top
        <4> QED BY <4>1, <4>2 DEF FrameSet
      <3> QED BY <3>1 DEF InFlight
    <2> QED BY <1>0, <2>1 DEF Reload, NoCall, WalkOK, FrameSet, Utxo
  <1> QED BY <1>1, <1>2, <1>3, <1>4, <1>5 DEF TypeOK

LEMMA RestartType ==
    ASSUME TypeOK, Restart
    PROVE  TypeOK'
  <1>1. UtxosOK' /\ StxosOK'
    BY DEF Restart, TypeOK, UtxosOK, StxosOK, Utxo, Stxo
  <1>2. KeysOK'
    BY DEF Restart, Reload, PopulatedAdrs, TypeOK, KeysOK, Keys
  <1> QED BY <1>1, <1>2, ReloadType DEF Restart

LEMMA KilledType ==
    ASSUME TypeOK, KilledInOutputs \/ KilledInInputs
    PROVE  TypeOK'
  <1>0. ServerOK /\ UtxosOK /\ StxosOK /\ TxnsOK /\ KeysOK /\ CacheOK /\ JobOK /\ WalkOK /\ UserOK
    BY DEF TypeOK
  <1>1. CASE KilledInOutputs
    <2>1. PICK done \in SUBSET Ours, more \in SUBSET Ours :
                 /\ utxos' = Put(utxos, [o \in done |-> [height |-> height, frozen |-> FALSE]])
                 /\ used' = used \cup {Owner[o] : o \in done \cup more}
      BY <1>1 DEF KilledInOutputs
    <2> DEFINE new == [o \in done |-> [height |-> height, frozen |-> FALSE]]
    <2>2. DOMAIN new \subseteq Op /\ \A o \in DOMAIN new : new[o] \in Utxo
      BY <1>0 DEF Ours, JobOK, Utxo
    <2>3. utxos' = Put(utxos, new)
      BY <2>1
    <2> HIDE DEF new
    <2>4. DOMAIN utxos' \subseteq Op /\ \A o \in DOMAIN utxos' : utxos'[o] \in Utxo
      BY <1>0, <2>2, <2>3, PutTyped DEF UtxosOK
    <2>5. UtxosOK' /\ StxosOK'
      BY <1>0, <1>1, <2>4 DEF KilledInOutputs, UtxosOK, StxosOK, Utxo, Stxo
    <2>6. \A o \in Ours : Owner[o] \in Keys
      BY <1>0, ConstantsAssumption DEF Ours, Keys, NotOurs, KeysOK
    <2>7. used' \subseteq Keys
      BY <1>0, <2>1, <2>6 DEF KeysOK
    <2>8. nkeys' \in Nat
      BY <1>0, <1>1, <2>7, LookaheadFacts DEF KilledInOutputs, KeysOK
    <2>9. KeysOK'
      BY <1>1, <2>7, <2>8 DEF KilledInOutputs, Reload, PopulatedAdrs, KeysOK, Keys
    <2> QED BY <1>1, <2>5, <2>9, ReloadType DEF KilledInOutputs
  <1>2. CASE KilledInInputs
    <2>1. PICK done \in SUBSET Spent, more \in SUBSET Spent :
                 /\ stxos' = Put(stxos, [o \in done \cup more |->
                               [utxo |-> utxos[o], spendHeight |-> height, spender |-> tx]])
                 /\ utxos' = Delete(utxos, done)
      BY <1>2 DEF KilledInInputs
    <2> DEFINE new == [o \in done \cup more |->
                         [utxo |-> utxos[o], spendHeight |-> height, spender |-> tx]]
    <2>2. DOMAIN new \subseteq Op /\ \A o \in DOMAIN new : new[o] \in Stxo
      BY <1>0, <1>2 DEF KilledInInputs, Spent, JobOK, Calling, UtxosOK, Stxo
    <2>3. stxos' = Put(stxos, new)
      BY <2>1
    <2> HIDE DEF new
    <2>4. DOMAIN stxos' \subseteq Op /\ \A o \in DOMAIN stxos' : stxos'[o] \in Stxo
      BY <1>0, <2>2, <2>3, PutTyped DEF StxosOK
    <2>5. DOMAIN utxos' \subseteq Op /\ \A o \in DOMAIN utxos' : utxos'[o] \in Utxo
      BY <1>0, <2>1, DeleteTyped DEF UtxosOK
    <2>6. UtxosOK' /\ StxosOK'
      BY <2>4, <2>5 DEF UtxosOK, StxosOK, Utxo, Stxo
    <2>7. KeysOK'
      BY <1>0, <1>2 DEF KilledInInputs, Reload, PopulatedAdrs, KeysOK, Keys
    <2> QED BY <1>2, <2>6, <2>7, ReloadType DEF KilledInInputs
  <1> QED BY <1>1, <1>2

\* TypeOK holds in every state of the store, whatever the server lists, and
\* wherever the process is killed.
THEOREM TypeCorrect == Spec => []TypeOK
  <1>1. TypeOK /\ [Next]_vars => TypeOK'
    <2> SUFFICES ASSUME TypeOK, [Next]_vars PROVE TypeOK'
      OBVIOUS
    <2>1. CASE UNCHANGED vars
      <3>0. ServerOK /\ UtxosOK /\ StxosOK /\ TxnsOK /\ KeysOK /\ CacheOK /\ JobOK /\ WalkOK /\ UserOK
        BY DEF TypeOK
      <3> USE <3>0, <2>1 DEF vars, server, db, buckets, cache, job, call, user
      <3>1. ServerOK' /\ UtxosOK' /\ StxosOK' /\ TxnsOK'
        BY DEF ServerOK, UtxosOK, StxosOK, TxnsOK, Utxo, Stxo
      <3>2. KeysOK' /\ CacheOK' /\ UserOK'
        BY DEF KeysOK, CacheOK, UserOK, NoFreeze, Utxo, Keys
      <3>3. JobOK'
        BY DEF JobOK, Calling, Keys
      <3>4. WalkOK'
        BY WalkSame
      <3> QED BY <3>1, <3>2, <3>3, <3>4 DEF TypeOK
    <2>2. CASE Next
      BY <2>2, ServerType, QueueType, BeginType, BeginStepsType, WalkType, OutputsType,
         InputsType, HeightsType, PutTxnType, FreezeType, RestartType, KilledType DEF Next
    <2> QED BY <2>1, <2>2
  <1> QED BY <1>1, InitType, PTL DEF Spec

-----------------------------------------------------------------------------
(* markAsDead. *)

\* Dead(D) has the members of D, and with a transaction all that spend its outputs.
LEMMA DeadFacts ==
    ASSUME StxosOK, NEW D, D \subseteq Tx
    PROVE  D \subseteq Dead(D) /\ Dead(D) \subseteq Tx /\ Closed(Dead(D))
  <1>1. D \subseteq Dead(D) /\ Dead(D) \subseteq Tx
    BY DEF Dead
  <1>2. ASSUME NEW o \in DOMAIN stxos, TxOf[o] \in Dead(D)
        PROVE  stxos[o].spender \in Dead(D)
    <2>1. stxos[o].spender \in Tx
      BY DEF StxosOK, Stxo
    <2>2. ASSUME NEW S \in SUBSET Tx, D \subseteq S, Closed(S)
          PROVE  stxos[o].spender \in S
      <3>1. TxOf[o] \in S
        BY <1>2, <2>2 DEF Dead
      <3> QED BY <2>2, <3>1 DEF Closed
    <2> QED BY <2>1, <2>2 DEF Dead
  <1> QED BY <1>1, <1>2 DEF Closed

\* What AddTransaction's first step leaves of the buckets.
LEMMA MarkedFacts ==
    ASSUME TypeOK, NEW e \in todo, AddTransaction(e)
    PROVE  \E D \in SUBSET Tx :
             /\ DoubleSpends(e.tx) \subseteq D
             /\ Closed(D)
             /\ DOMAIN utxos' = (DOMAIN utxos \cup DeadSpends(D)) \ DeadOutputs(D)
             /\ stxos' = Delete(stxos, DeadSpends(D))
             /\ txns' = [t \in DOMAIN txns |-> IF t \in D THEN -1 ELSE txns[t]]
             /\ killed' = (killed \cup D) \ {e.tx}
  <1> DEFINE D == Dead(DoubleSpends(e.tx))
  <1>1. DoubleSpends(e.tx) \subseteq Tx
    BY DEF DoubleSpends, TypeOK, TxnsOK
  <1>2. DoubleSpends(e.tx) \subseteq D /\ D \in SUBSET Tx /\ Closed(D)
    BY <1>1, DeadFacts DEF TypeOK
  <1>3. MarkAsDead(D) /\ killed' = (killed \cup D) \ {e.tx}
    BY DEF AddTransaction
  <1> HIDE DEF D
  <1>4. DOMAIN utxos' = (DOMAIN utxos \cup DeadSpends(D)) \ DeadOutputs(D)
    BY <1>3 DEF MarkAsDead, UtxosAfterDeath, Put, Delete
  <1> QED BY <1>2, <1>3, <1>4 DEF MarkAsDead, StxosAfterDeath, TxnsAfterDeath

-----------------------------------------------------------------------------
(* Kills. *)

\* Wherever the process is killed, no height is lost, and coins only move.
LEMMA KillFacts ==
    ASSUME Restart \/ KilledInOutputs \/ KilledInInputs
    PROVE  /\ UNCHANGED <<net, seen, txns, killed, gaveUp>>
           /\ pc' = "idle" /\ todo' = {} /\ doubles' = {} /\ stack' = <<>>
           /\ freeze' = NoFreeze /\ adrs' = nkeys' /\ torn' = torn \cup InFlight
  <1>1. Reload
    BY DEF Restart, KilledInOutputs, KilledInInputs
  <1> QED BY <1>1 DEF Reload, NoCall, PopulatedAdrs, server

-----------------------------------------------------------------------------
(* Double spends. *)

\* The double spends of the call's transaction that markAsDead is still to be called
\* for, or has been called for.
Pending == doubles \cup (IF stack = <<>> THEN {} ELSE {stack[1].tx})

\* While AddTransaction runs, what is alive and conflicts with its argument is to
\* be marked as dead, unless markAsDead has failed for it.
NoRival ==
    pc \in Calling =>
      \A u \in DOMAIN txns : Alive(u) /\ Conflict(tx, u) => u \in Pending \cup gaveUp

ConflictInv == NoConflict /\ NoRival

\* The steps of markAsDead: who is not dead after one is still to be marked.
LEMMA PendingStep ==
    ASSUME TypeOK, MarkAsDeadStep, NEW u \in DOMAIN txns, Alive(u)'
    PROVE  Alive(u) /\ (u \in gaveUp => u \in gaveUp')
           /\ (u \in Pending => u \in Pending' \cup gaveUp')
  <1>0. Alive(u)
    BY WalkFacts DEF Alive
  <1>1. CASE \E d \in doubles : MarkDouble(d)
    BY <1>0, <1>1 DEF MarkDouble, Pending, Frame
  <1>2. ASSUME stack # <<>>, NEW f, SetTop(f), f.tx = Top.tx, UNCHANGED <<doubles, gaveUp>>
        PROVE  Pending' = Pending /\ gaveUp' = gaveUp
    <2>1. /\ Len(stack) \in Nat \ {0} /\ stack' # <<>> /\ stack'[Len(stack)] = f
          /\ \A i \in 1..(Len(stack) - 1) : stack'[i] = stack[i]
      BY <1>2, StackFacts, TopTyped
    <2>2. stack'[1].tx = stack[1].tx
      BY <1>2, <2>1 DEF Top
    <2> QED BY <1>2, <2>1, <2>2 DEF Pending
  <1>3. ASSUME stack # <<>>, NEW w \in Top.rows, DeleteDeadStxo(w)
        PROVE  Pending' = Pending /\ gaveUp' = gaveUp
    BY <1>2, <1>3, TopTyped DEF DeleteDeadStxo, FrameSet
  <1>4. ASSUME stack # <<>>, NEW o \in Top.outs, DeleteDeadUtxo(o)
        PROVE  Pending' = Pending /\ gaveUp' = gaveUp
    BY <1>2, <1>4, TopTyped DEF DeleteDeadUtxo, FrameSet
  <1>5. CASE PutBack
    <2>1. stack # <<>> /\ Top \in FrameSet
      BY <1>5, TopTyped DEF PutBack, Walking
    <2>2. [Top EXCEPT !.at = "rows"].tx = Top.tx
      BY <2>1 DEF FrameSet
    <2> QED BY <1>0, <1>2, <1>5, <2>1, <2>2 DEF PutBack
  <1>6. CASE RowsDone
    <2> DEFINE f == [Top EXCEPT !.at = "outs", !.outs = {o \in DOMAIN utxos : TxOf[o] = Top.tx}]
    <2>1. stack # <<>> /\ Top \in FrameSet /\ SetTop(f) /\ UNCHANGED <<doubles, gaveUp>>
      BY <1>6, TopTyped DEF RowsDone, Walking
    <2>2. f.tx = Top.tx
      BY <2>1 DEF FrameSet
    <2> HIDE DEF f
    <2> QED BY <1>0, <1>2, <2>1, <2>2
  <1>7. CASE MarkSpender
    <2> DEFINE t == Top.row.spender
               f == [Top EXCEPT !.at = "rows"]
    <2>1. stack # <<>> /\ Top \in FrameSet /\ Top.row \in [op : Op, utxo : Utxo, spender : Tx]
      BY <1>7, TopTyped DEF MarkSpender, Walking
    <2>2. f \in FrameSet /\ f.tx = Top.tx
      BY <2>1 DEF FrameSet
    <2>3. CASE t = Top.tx
      <3>1. SetTop([Top EXCEPT !.at = "put"]) /\ UNCHANGED <<doubles, gaveUp>>
        BY <1>7, <2>3 DEF MarkSpender
      <3>2. [Top EXCEPT !.at = "put"].tx = Top.tx
        BY <2>1 DEF FrameSet
      <3> HIDE DEF f, t
      <3> QED BY <1>0, <1>2, <2>1, <3>1, <3>2
    <2>4. CASE t # Top.tx
      <3>1. stack' = Append([stack EXCEPT ![Len(stack)] = f], Frame(t))
            /\ UNCHANGED <<doubles, gaveUp>>
        BY <1>7, <2>4 DEF MarkSpender
      <3>2. Frame(t) \in FrameSet
        BY <2>1, FrameTyped
      <3> HIDE DEF f, t
      <3>3. /\ Len(stack') = Len(stack) + 1 /\ Len(stack) \in Nat \ {0}
            /\ stack'[Len(stack)] = f
            /\ \A i \in 1..(Len(stack) - 1) : stack'[i] = stack[i]
            /\ stack' \in Seq(FrameSet)
        BY <2>1, <2>2, <3>1, <3>2, StackFacts, TopTyped
      <3>4. stack' # <<>> /\ stack'[1].tx = stack[1].tx
        BY <2>2, <3>3 DEF Top
      <3> QED BY <1>0, <2>1, <3>1, <3>4 DEF Pending
    <2> QED BY <1>0, <2>3, <2>4
  <1>8. CASE SpenderMissing
    BY <1>0, <1>8 DEF SpenderMissing, Pending
  <1>9. CASE MarkReturns
    <2>1. stack # <<>> /\ Len(stack) \in Nat \ {0} /\ Top = stack[Len(stack)]
      BY <1>9, TopTyped DEF MarkReturns, Walking
    <2>2. u # Top.tx
      BY <1>9 DEF MarkReturns, TxnsAfterDeath, Alive
    <2>3. /\ Len(stack') = Len(stack) - 1
          /\ \A i \in 1..(Len(stack) - 1) : stack'[i] = stack[i]
      BY <1>9, <2>1, StackFacts DEF MarkReturns
    <2>4. CASE Len(stack) = 1
      BY <1>0, <1>9, <2>1, <2>2, <2>4 DEF MarkReturns, Pending
    <2>5. CASE Len(stack) # 1
      <3>1. stack'[1] = stack[1] /\ stack' # <<>>
        BY <2>1, <2>3, <2>5
      <3> QED BY <1>0, <1>9, <2>2, <3>1 DEF MarkReturns, Pending
    <2> QED BY <2>4, <2>5
  <1>10. CASE DoublesDone
    BY <1>0, <1>10 DEF DoublesDone, Pending, db
  <1> QED BY <1>0, <1>1, <1>3, <1>4, <1>5, <1>6, <1>7, <1>8, <1>9, <1>10 DEF MarkAsDeadStep

LEMMA ConflictStep ==
    ASSUME TypeOK, ConflictInv, Next
    PROVE  ConflictInv'
  <1> USE DEF ConflictInv
  <1>1. ASSUME UNCHANGED <<txns, gaveUp>>, pc' \in Calling => pc \in Calling /\ tx' = tx,
               pc' \in Calling => UNCHANGED <<doubles, stack>>
        PROVE  ConflictInv'
    BY <1>1 DEF NoConflict, NoRival, Alive, Conflict, Calling, Pending
  <1>2. CASE \E t \in Tx : Broadcast(t) \/ Evict(t) \/ Mine(t)
    BY <1>1, <1>2 DEF Broadcast, Evict, Mine, db, buckets, call, walk
  <1>3. CASE (\E k \in Keys : GetHistory(k)) \/ HistoryDone
    BY <1>1, <1>3 DEF GetHistory, HistoryDone, db, buckets, Calling
  <1>4. CASE \E e \in todo : SkipConfirmed(e) \/ FetchFails(e) \/ AddTransactionReturns(e)
    BY <1>1, <1>4 DEF SkipConfirmed, FetchFails, AddTransactionReturns, db, buckets, call, walk
  <1>5. ASSUME NEW e \in todo, AddTransaction(e) PROVE ConflictInv'
    <2>1. PICK D \in SUBSET Tx :
                 /\ DoubleSpends(e.tx) \subseteq D
                 /\ txns' = [t \in DOMAIN txns |-> IF t \in D THEN -1 ELSE txns[t]]
      BY <1>5, MarkedFacts
    <2>2. \A u \in DOMAIN txns' : Alive(u)' => Alive(u) /\ u \notin D
      BY <2>1 DEF Alive
    <2>3. NoConflict'
      BY <1>5, <2>1, <2>2 DEF NoConflict, Conflict, AddTransaction
    <2>4. \A u \in DOMAIN txns : Alive(u) /\ Conflict(e.tx, u) => u \in DoubleSpends(e.tx)
      BY DEF Alive, DoubleSpends
    <2>5. NoRival'
      BY <1>5, <2>1, <2>2, <2>4 DEF NoRival, AddTransaction, Begins, Conflict
    <2> QED BY <2>3, <2>5
  <1>6. ASSUME NEW e \in todo, AddTransactionSteps(e) PROVE ConflictInv'
    <2>1. NoConflict'
      BY <1>6 DEF AddTransactionSteps, NoConflict, Alive, Conflict
    <2>2. \A u \in DOMAIN txns : Alive(u) /\ Conflict(e.tx, u) => u \in DoubleSpends(e.tx)
      BY DEF Alive, DoubleSpends
    <2>3. NoRival'
      BY <1>6, <2>2 DEF AddTransactionSteps, Begins, NoRival, Alive, Conflict, Pending
    <2> QED BY <2>1, <2>3
  <1>7. CASE MarkAsDeadStep
    <2>1. /\ pc = "dead" /\ tx' = tx /\ DOMAIN txns' = DOMAIN txns
      BY <1>7, WalkFacts
    <2>2. \A u \in DOMAIN txns : Alive(u)' =>
            /\ Alive(u) /\ (u \in gaveUp => u \in gaveUp')
            /\ (u \in Pending => u \in Pending' \cup gaveUp')
      BY <1>7, PendingStep
    <2>3. NoConflict'
      BY <2>1, <2>2 DEF NoConflict, Conflict
    <2>4. NoRival'
      BY <2>1, <2>2 DEF NoRival, Conflict, Calling
    <2> QED BY <2>3, <2>4
  <1>8. CASE PutOutputs \/ SpendInputs \/ UpdateSpendHeight
    BY <1>1, <1>8 DEF PutOutputs, SpendInputs, UpdateSpendHeight, Calling, walk
  <1>9. CASE PutTxn
    <2>1. NoRival'
      BY <1>9 DEF PutTxn, NoRival, Calling
    <2>2. CASE hits
      <3>1. txns' = Put(txns, Single(tx, StoredHeight)) /\ gaveUp' = gaveUp
        BY <1>9, <2>2 DEF PutTxn
      <3>2. \A u \in DOMAIN txns' : u = tx \/ (u \in DOMAIN txns /\ txns'[u] = txns[u])
        BY <3>1 DEF Put, Single
      <3>3. Pending = {}
        BY <1>9 DEF PutTxn, TypeOK, WalkOK, Pending
      <3>4. \A u \in DOMAIN txns : Alive(u) /\ (Conflict(tx, u) \/ Conflict(u, tx)) => u \in gaveUp
        BY <1>9, <3>3 DEF PutTxn, NoRival, Calling, Conflict
      <3>5. \A u \in DOMAIN txns' : Alive(u)' => u = tx \/ (u \in DOMAIN txns /\ Alive(u))
        BY <3>2 DEF Alive
      <3> QED BY <2>1, <3>1, <3>4, <3>5 DEF NoConflict, Conflict
    <2>3. CASE ~hits
      BY <1>9, <2>1, <2>3 DEF PutTxn, NoConflict, Alive, Conflict
    <2> QED BY <2>2, <2>3
  <1>10. CASE (\E o \in Op, b \in BOOLEAN : FreezeGet(o, b)) \/ FreezePut
    BY <1>1, <1>10 DEF FreezeGet, FreezePut, db, buckets, job, call, walk
  <1>11. CASE Restart \/ KilledInOutputs \/ KilledInInputs
    BY <1>1, <1>11, KillFacts DEF Calling
  <1> QED BY <1>2, <1>3, <1>4, <1>5, <1>6, <1>7, <1>8, <1>9, <1>10, <1>11 DEF Next

LEMMA ConflictHolds == (Init => ConflictInv) /\ (TypeOK /\ ConflictInv /\ [Next]_vars => ConflictInv')
  <1>1. Init => ConflictInv
    BY DEF Init, None, ConflictInv, NoConflict, NoRival, Calling
  <1>2. ASSUME ConflictInv, UNCHANGED vars PROVE ConflictInv'
    BY <1>2 DEF vars, db, buckets, job, call, walk, ConflictInv, NoConflict, NoRival, Alive,
                Conflict, Calling, Pending
  <1> QED BY <1>1, <1>2, ConflictStep

\* The store never has two live transactions that spend the same output, whatever
\* order the server's histories come in and wherever the process is killed, except one
\* that markAsDead has failed for, having met a spender that is not stored.
THEOREM NoDoubleSpendStored == Spec => []NoConflict
  <1>1. ConflictInv => NoConflict
    BY DEF ConflictInv
  <1> QED BY <1>1, ConflictHolds, TypeCorrect, PTL DEF Spec

-----------------------------------------------------------------------------
(* What dead transactions leave behind. *)

\* A number for every transaction, greater than those of what it spends.
Later(after) ==
    \A t \in Tx : \A o \in Ins[t] : TxOf[o] \in Tx => after[TxOf[o]] < after[t]
Age == CHOOSE after \in [Tx -> 0..Cardinality(Tx)] : Later(after)

LEMMA AgeFacts == Later(Age) /\ \A t \in Tx : Age[t] \in Nat
  <1>1. \E after \in [Tx -> 0..Cardinality(Tx)] : Later(after)
    BY ConstantsAssumption DEF Later
  <1>2. Age \in [Tx -> 0..Cardinality(Tx)] /\ Later(Age)
    BY <1>1 DEF Age
  <1>3. Cardinality(Tx) \in Nat
    BY ConstantsAssumption, FS_CardinalityType
  <1> QED BY <1>2, <1>3

\* A call of markAsDead, over the buckets st and ut: the rows it has left are all there
\* is that concerns its transaction, and each is a spend by it or of it; what it
\* has spent itself are no outputs of those markAsDead is done with.
RowsOf(f) == f.rows \cup (IF f.at \in {"height", "put"} THEN {f.row} ELSE {})
RowIn(st, o) == [op |-> o, utxo |-> st[o].utxo, spender |-> st[o].spender]

CallInv(f, st, ut, done) ==
    /\ \A w \in RowsOf(f) :
         /\ w.op \in Ins[w.spender]
         /\ w.spender = f.tx \/ TxOf[w.op] = f.tx
         /\ w.spender = f.tx => TxOf[w.op] \notin done
    /\ f.at = "put" => f.row.spender = f.tx
    /\ \A o \in DOMAIN st : st[o].spender = f.tx \/ TxOf[o] = f.tx => RowIn(st, o) \in f.rows
    /\ f.at = "outs" => f.rows = {} /\ \A o \in DOMAIN ut : TxOf[o] = f.tx => o \in f.outs

\* The calls go from a transaction to those that spend its outputs.
StackInv(sk, st, ut, done) ==
    /\ \A i \in 1..Len(sk) : CallInv(sk[i], st, ut, done)
    /\ \A i \in 1..(Len(sk) - 1) : sk[i].at = "rows"
    /\ \A i, k \in 1..Len(sk) : i < k => Age[sk[i].tx] < Age[sk[k].tx]

SpendersSpend == \A o \in DOMAIN stxos : o \in Ins[stxos[o].spender]

\* The transaction being added is not dead, and nobody is about to write back
\* a coin read earlier.
DeadInv ==
    /\ DeadLeavesNothing
    /\ SpendersSpend
    /\ StackInv(stack, stxos, utxos, killed)
    /\ pc \in Calling => tx \notin killed
    /\ freeze = NoFreeze

LEMMA NoCalls == ASSUME NEW st, NEW ut, NEW done PROVE StackInv(<<>>, st, ut, done)
  <1>1. Len(<<>>) = 0
    OBVIOUS
  <1> QED BY <1>1 DEF StackInv

\* A call that waits for another keeps its part of the bargain.
LEMMA CallKept ==
    ASSUME NEW f, NEW st, NEW ut, NEW done, CallInv(f, st, ut, done), f.at = "rows",
           NEW st2, NEW ut2, NEW done2,
           DOMAIN st2 \subseteq DOMAIN st, \A o \in DOMAIN st2 : st2[o] = st[o],
           \A w \in f.rows : w.spender = f.tx => TxOf[w.op] \notin done2
    PROVE  CallInv(f, st2, ut2, done2)
  BY DEF CallInv, RowsOf, RowIn

LEMMA NewCall ==
    ASSUME TypeOK, DeadLeavesNothing, SpendersSpend, NEW t \in Tx
    PROVE  CallInv(Frame(t), stxos, utxos, killed) /\ Frame(t).at = "rows" /\ Frame(t).tx = t
  <1>1. Frame(t).at = "rows" /\ Frame(t).tx = t /\ Frame(t).rows = Concerned(t)
    BY DEF Frame
  <1>2. ASSUME NEW w \in Concerned(t)
        PROVE  /\ w.op \in Ins[w.spender]
               /\ w.spender = t \/ TxOf[w.op] = t
               /\ w.spender = t => TxOf[w.op] \notin killed
    <2>1. PICK o \in DOMAIN stxos : w = Row(o) /\ (stxos[o].spender = t \/ TxOf[o] = t)
      BY <1>2 DEF Concerned
    <2>2. w.op = o /\ w.spender = stxos[o].spender
      BY <2>1 DEF Row
    <2> QED BY <2>1, <2>2 DEF SpendersSpend, DeadLeavesNothing
  <1>3. \A o \in DOMAIN stxos :
          stxos[o].spender = t \/ TxOf[o] = t => RowIn(stxos, o) \in Concerned(t)
    BY DEF Concerned, Row, RowIn
  <1> HIDE DEF Frame, Concerned
  <1> QED BY <1>1, <1>2, <1>3 DEF CallInv, RowsOf

\* Steps of markAsDead that only change the innermost call.
LEMMA TopStep ==
    ASSUME TypeOK, DeadInv, stack # <<>>, NEW f \in FrameSet, SetTop(f), f.tx = Top.tx,
           CallInv(f, stxos', utxos', killed), killed' = killed,
           DOMAIN stxos' \subseteq DOMAIN stxos, \A o \in DOMAIN stxos' : stxos'[o] = stxos[o]
    PROVE  StackInv(stack', stxos', utxos', killed')
  <1> DEFINE n == Len(stack)
  <1>1. /\ n \in Nat \ {0} /\ Len(stack') = n /\ stack'[n] = f /\ Top = stack[n]
        /\ \A i \in 1..(n - 1) : stack'[i] = stack[i]
    BY StackFacts, TopTyped
  <1>2. /\ \A i \in 1..n : CallInv(stack[i], stxos, utxos, killed)
        /\ \A i \in 1..(n - 1) : stack[i].at = "rows"
        /\ \A i, k \in 1..n : i < k => Age[stack[i].tx] < Age[stack[k].tx]
    BY DEF DeadInv, StackInv
  <1> HIDE DEF n
  <1>3. ASSUME NEW i \in 1..(n - 1) PROVE CallInv(stack'[i], stxos', utxos', killed')
    <2>1. CallInv(stack[i], stxos, utxos, killed) /\ stack[i].at = "rows" /\ stack'[i] = stack[i]
      BY <1>1, <1>2
    <2>2. \A w \in stack[i].rows : w.spender = stack[i].tx => TxOf[w.op] \notin killed
      BY <2>1 DEF CallInv, RowsOf
    <2>3. CallInv(stack[i], stxos', utxos', killed)
      BY <2>1, <2>2, CallKept
    <2> QED BY <2>1, <2>3
  <1>4. \A i \in 1..n : CallInv(stack'[i], stxos', utxos', killed')
    <2>1. \A i \in 1..n : i = n \/ i \in 1..(n - 1)
      BY <1>1
    <2> QED BY <1>1, <1>3, <2>1
  <1>5. \A i \in 1..n : stack'[i].tx = stack[i].tx
    <2>1. \A i \in 1..n : i = n \/ i \in 1..(n - 1)
      BY <1>1
    <2> QED BY <1>1, <2>1
  <1> QED BY <1>1, <1>2, <1>4, <1>5 DEF StackInv

LEMMA WalkDead ==
    ASSUME TypeOK, DeadInv, MarkAsDeadStep
    PROVE  DeadInv'
  <1> USE DEF DeadInv
  <1> DEFINE n == Len(stack)
             cells == [op : Op, utxo : Utxo, spender : Tx]
  <1>0. UNCHANGED <<tx, freeze>> /\ pc = "dead" /\ tx \notin killed
    BY WalkFacts DEF user, Calling
  <1>1. ASSUME DeadLeavesNothing', SpendersSpend', StackInv(stack', stxos', utxos', killed'),
               tx \notin killed'
        PROVE  DeadInv'
    BY <1>0, <1>1 DEF NoFreeze
  <1>2. ASSUME UNCHANGED <<utxos, stxos, killed>> PROVE DeadLeavesNothing' /\ SpendersSpend'
    BY <1>2 DEF DeadLeavesNothing, SpendersSpend
  <1>3. ASSUME NEW d \in doubles, MarkDouble(d) PROVE DeadInv'
    <2>1. /\ stack' = <<Frame(d)>> /\ Len(stack') = 1 /\ UNCHANGED <<utxos, stxos, killed>>
          /\ d \in Tx
      BY <1>3 DEF MarkDouble, TypeOK, WalkOK
    <2>2. CallInv(Frame(d), stxos, utxos, killed)
      BY <2>1, NewCall
    <2> HIDE DEF Frame
    <2>3. stack'[1] = Frame(d)
      BY <2>1
    <2>4. StackInv(stack', stxos', utxos', killed')
      BY <2>1, <2>2, <2>3 DEF StackInv
    <2> QED BY <1>0, <1>1, <1>2, <2>1, <2>4
  <1>4. ASSUME stack # <<>>, NEW w \in Top.rows, DeleteDeadStxo(w) PROVE DeadInv'
    <2> DEFINE f == [Top EXCEPT !.at = "height", !.rows = @ \ {w}, !.row = w]
    <2>1. n \in Nat \ {0} /\ Top = stack[n] /\ Top \in FrameSet /\ w \in cells /\ Top.at = "rows"
      BY <1>4, TopTyped DEF DeleteDeadStxo, Walking, FrameSet
    <2>2. SetTop(f) /\ UNCHANGED <<utxos, killed>> /\ stxos' = Delete(stxos, {w.op})
      BY <1>4 DEF DeleteDeadStxo
    <2>3. /\ f \in FrameSet /\ f.tx = Top.tx /\ f.at = "height" /\ f.rows = Top.rows \ {w}
          /\ f.row = w
      BY <2>1 DEF FrameSet
    <2>4. DOMAIN stxos' = DOMAIN stxos \ {w.op} /\ \A o \in DOMAIN stxos' : stxos'[o] = stxos[o]
      BY <2>2 DEF Delete
    <2> HIDE DEF f
    <2>5. CallInv(Top, stxos, utxos, killed)
      BY <2>1 DEF StackInv
    <2>6. CallInv(f, stxos', utxos', killed)
      <3>1. RowsOf(f) \subseteq RowsOf(Top)
        BY <2>1, <2>3 DEF RowsOf
      <3>2. ASSUME NEW o \in DOMAIN stxos', stxos'[o].spender = f.tx \/ TxOf[o] = f.tx
            PROVE  RowIn(stxos', o) \in f.rows
        <4>1. RowIn(stxos', o) = RowIn(stxos, o) /\ RowIn(stxos, o).op = o
          BY <2>4, <3>2 DEF RowIn
        <4>2. RowIn(stxos, o) \in Top.rows
          BY <2>3, <2>4, <2>5, <3>2 DEF CallInv
        <4> QED BY <2>3, <2>4, <3>2, <4>1, <4>2
      <3> QED BY <2>3, <2>5, <3>1, <3>2 DEF CallInv
    <2>7. StackInv(stack', stxos', utxos', killed')
      BY <1>4, <2>2, <2>3, <2>4, <2>6, TopStep
    <2>8. DeadLeavesNothing' /\ SpendersSpend'
      BY <2>2, <2>4 DEF DeadLeavesNothing, SpendersSpend
    <2> QED BY <1>0, <1>1, <2>2, <2>7, <2>8
  <1>5. ASSUME stack # <<>>, NEW o \in Top.outs, DeleteDeadUtxo(o) PROVE DeadInv'
    <2> DEFINE f == [Top EXCEPT !.outs = @ \ {o}]
    <2>1. n \in Nat \ {0} /\ Top = stack[n] /\ Top \in FrameSet /\ Top.at = "outs"
      BY <1>5, TopTyped DEF DeleteDeadUtxo, Walking
    <2>2. SetTop(f) /\ UNCHANGED <<stxos, killed>> /\ utxos' = Delete(utxos, {o})
      BY <1>5 DEF DeleteDeadUtxo
    <2>3. /\ f \in FrameSet /\ f.tx = Top.tx /\ f.at = "outs" /\ f.rows = Top.rows
          /\ f.outs = Top.outs \ {o}
      BY <2>1 DEF FrameSet
    <2>4. DOMAIN utxos' = DOMAIN utxos \ {o}
      BY <2>2 DEF Delete
    <2> HIDE DEF f
    <2>5. CallInv(Top, stxos, utxos, killed)
      BY <2>1 DEF StackInv
    <2>6. CallInv(f, stxos', utxos', killed)
      BY <2>1, <2>2, <2>3, <2>4, <2>5 DEF CallInv, RowsOf
    <2>7. StackInv(stack', stxos', utxos', killed')
      BY <1>5, <2>2, <2>3, <2>6, TopStep
    <2>8. DeadLeavesNothing' /\ SpendersSpend'
      BY <2>2, <2>4 DEF DeadLeavesNothing, SpendersSpend
    <2> QED BY <1>0, <1>1, <2>2, <2>7, <2>8
  <1>6. CASE MarkSpender
    <2> DEFINE t == Top.row.spender
               f == [Top EXCEPT !.at = "rows"]
               h == [Top EXCEPT !.at = "put"]
    <2>1. /\ n \in Nat \ {0} /\ stack # <<>> /\ Top = stack[n] /\ Top \in FrameSet
          /\ Top.row \in cells /\ Top.at = "height" /\ t \in Tx
      BY <1>6, TopTyped DEF MarkSpender, Walking
    <2>2. UNCHANGED <<utxos, stxos, killed>>
      BY <1>6 DEF MarkSpender
    <2>3. /\ f \in FrameSet /\ f.tx = Top.tx /\ f.at = "rows" /\ f.rows = Top.rows
          /\ h \in FrameSet /\ h.tx = Top.tx /\ h.at = "put" /\ h.rows = Top.rows /\ h.row = Top.row
      BY <2>1 DEF FrameSet
    <2>4. CallInv(Top, stxos, utxos, killed)
      BY <2>1 DEF StackInv
    <2>5. CASE t = Top.tx
      <3>1. SetTop(h)
        BY <1>6, <2>5 DEF MarkSpender
      <3> HIDE DEF h
      <3>2. CallInv(h, stxos, utxos, killed)
        BY <2>1, <2>3, <2>4, <2>5 DEF CallInv, RowsOf
      <3>3. StackInv(stack', stxos', utxos', killed')
        BY <2>1, <2>2, <2>3, <3>1, <3>2, TopStep
      <3> QED BY <1>0, <1>1, <1>2, <2>2, <3>3
    <2>6. CASE t # Top.tx
      <3>1. stack' = Append([stack EXCEPT ![n] = f], Frame(t))
        BY <1>6, <2>6 DEF MarkSpender
      <3>2. Frame(t) \in FrameSet /\ CallInv(Frame(t), stxos, utxos, killed) /\ Frame(t).tx = t
        BY <2>1, FrameTyped, NewCall
      <3>3. CallInv(f, stxos, utxos, killed)
        BY <2>1, <2>3, <2>4 DEF CallInv, RowsOf
      <3>4. Age[Top.tx] < Age[t] /\ Age[Top.tx] \in Nat /\ Age[t] \in Nat
        <4>1. Top.row \in RowsOf(Top) /\ Top.tx \in Tx
          BY <2>1 DEF RowsOf, FrameSet
        <4>2. Top.row.op \in Ins[t] /\ TxOf[Top.row.op] = Top.tx
          BY <2>4, <2>6, <4>1 DEF CallInv
        <4> QED BY <2>1, <4>1, <4>2, AgeFacts DEF Later
      <3> HIDE DEF f, t, Frame
      <3>5. /\ Len(stack') = n + 1 /\ stack'[n + 1] = Frame(t) /\ stack'[n] = f
            /\ \A i \in 1..(n - 1) : stack'[i] = stack[i]
        BY <2>1, <2>3, <3>1, <3>2, StackFacts
      <3>6. /\ \A i \in 1..n : CallInv(stack[i], stxos, utxos, killed)
            /\ \A i \in 1..(n - 1) : stack[i].at = "rows"
            /\ \A i, k \in 1..n : i < k => Age[stack[i].tx] < Age[stack[k].tx]
            /\ \A i \in 1..n : Age[stack[i].tx] \in Nat
        <4>1. \A i \in 1..n : stack[i].tx \in Tx
          <5>1. \A i \in 1..n : stack[i] \in FrameSet
            BY DEF TypeOK, WalkOK
          <5> QED BY <5>1 DEF FrameSet
        <4>2. \A i \in 1..n : Age[stack[i].tx] \in Nat
          BY <4>1, AgeFacts
        <4> QED BY <4>2 DEF StackInv
      <3> HIDE DEF n
      <3>7. \A i \in 1..(n + 1) : i = n + 1 \/ i = n \/ i \in 1..(n - 1)
        BY <2>1
      <3>8. \A i \in 1..(n + 1) : CallInv(stack'[i], stxos, utxos, killed)
        <4>1. \A i \in 1..(n - 1) : i \in 1..n
          BY <2>1
        <4> QED BY <3>2, <3>3, <3>5, <3>6, <3>7, <4>1
      <3>9. \A i \in 1..n : stack'[i].at = "rows"
        BY <2>1, <2>3, <3>5, <3>6
      <3>10. \A i \in 1..n : stack'[i].tx = stack[i].tx
        <4>1. \A i \in 1..n : i = n \/ i \in 1..(n - 1)
          BY <2>1
        <4> QED BY <2>1, <2>3, <3>5, <4>1
      <3>11. ASSUME NEW i \in 1..(n + 1), NEW k \in 1..(n + 1), i < k
             PROVE  Age[stack'[i].tx] < Age[stack'[k].tx]
        <4>1. i \in 1..n
          BY <2>1, <3>11
        <4>2. CASE k \in 1..n
          BY <3>6, <3>10, <3>11, <4>1, <4>2
        <4>3. CASE k = n + 1
          <5>1. i = n \/ i < n
            BY <2>1, <4>1
          <5>2. Age[stack[i].tx] < Age[t]
            BY <2>1, <3>4, <3>6, <4>1, <5>1
          <5> QED BY <3>2, <3>5, <3>10, <4>1, <4>3, <5>2
        <4> QED BY <2>1, <4>2, <4>3
      <3>12. n + 1 - 1 = n
        BY <2>1
      <3>13. StackInv(stack', stxos', utxos', killed')
        <4> DEFINE later == stack'
        <4>1. /\ Len(later) = n + 1
              /\ \A i \in 1..(n + 1) : CallInv(later[i], stxos, utxos, killed)
              /\ \A i \in 1..n : later[i].at = "rows"
              /\ \A i, k \in 1..(n + 1) : i < k => Age[later[i].tx] < Age[later[k].tx]
          BY <3>5, <3>8, <3>9, <3>11
        <4> HIDE DEF later
        <4>2. StackInv(later, stxos, utxos, killed)
          <5>1. 1..Len(later) = 1..(n + 1) /\ 1..(Len(later) - 1) = 1..n
            <6>1. Len(later) = n + 1 /\ Len(later) - 1 = n
              BY <2>1, <4>1
            <6> QED BY <6>1
          <5>2. \A i \in 1..Len(later) : CallInv(later[i], stxos, utxos, killed)
            BY <4>1, <5>1
          <5>3. \A i \in 1..(Len(later) - 1) : later[i].at = "rows"
            BY <4>1, <5>1
          <5>4. \A i, k \in 1..Len(later) : i < k => Age[later[i].tx] < Age[later[k].tx]
            BY Zenon, <4>1, <5>1
          <5> QED BY <5>2, <5>3, <5>4 DEF StackInv
        <4>3. StackInv(stack', stxos, utxos, killed)
          BY <4>2 DEF later
        <4> QED BY <2>2, <4>3
      <3> QED BY <1>0, <1>1, <1>2, <2>2, <3>13
    <2> QED BY <2>5, <2>6
  <1>7. CASE SpenderMissing
    <2>1. stack' = <<>> /\ UNCHANGED <<utxos, stxos, killed>>
      BY <1>7 DEF SpenderMissing
    <2>2. StackInv(stack', stxos', utxos', killed')
      BY <2>1, NoCalls
    <2> QED BY <1>0, <1>1, <1>2, <2>1, <2>2
  <1>8. CASE PutBack
    <2> DEFINE f == [Top EXCEPT !.at = "rows"]
    <2>1. /\ n \in Nat \ {0} /\ stack # <<>> /\ Top = stack[n] /\ Top \in FrameSet
          /\ Top.row \in cells /\ Top.at = "put"
      BY <1>8, TopTyped DEF PutBack, Walking
    <2>2. /\ SetTop(f) /\ UNCHANGED <<stxos, killed>>
          /\ utxos' = Put(utxos, Single(Top.row.op, Top.row.utxo))
      BY <1>8 DEF PutBack
    <2>3. f \in FrameSet /\ f.tx = Top.tx /\ f.at = "rows" /\ f.rows = Top.rows
      BY <2>1 DEF FrameSet
    <2> HIDE DEF f
    <2>4. CallInv(Top, stxos, utxos, killed)
      BY <2>1 DEF StackInv
    <2>5. CallInv(f, stxos', utxos', killed)
      BY <2>1, <2>2, <2>3, <2>4 DEF CallInv, RowsOf
    <2>6. StackInv(stack', stxos', utxos', killed')
      BY <2>1, <2>2, <2>3, <2>5, TopStep
    <2>7. TxOf[Top.row.op] \notin killed
      <3>1. Top.row \in RowsOf(Top)
        BY <2>1 DEF RowsOf
      <3> QED BY <2>1, <2>4, <3>1 DEF CallInv
    <2>8. DOMAIN utxos' = DOMAIN utxos \cup {Top.row.op}
      BY <2>2 DEF Put, Single
    <2>9. DeadLeavesNothing' /\ SpendersSpend'
      BY <2>2, <2>7, <2>8 DEF DeadLeavesNothing, SpendersSpend
    <2> QED BY <1>0, <1>1, <2>2, <2>6, <2>9
  <1>9. CASE RowsDone
    <2> DEFINE f == [Top EXCEPT !.at = "outs", !.outs = {o \in DOMAIN utxos : TxOf[o] = Top.tx}]
    <2>1. /\ n \in Nat \ {0} /\ stack # <<>> /\ Top = stack[n] /\ Top \in FrameSet
          /\ Top.at = "rows" /\ Top.rows = {}
      BY <1>9, TopTyped DEF RowsDone, Walking
    <2>2. SetTop(f) /\ UNCHANGED <<utxos, stxos, killed>>
      BY <1>9 DEF RowsDone
    <2>3. /\ f \in FrameSet /\ f.tx = Top.tx /\ f.at = "outs" /\ f.rows = {}
          /\ f.outs = {o \in DOMAIN utxos : TxOf[o] = Top.tx}
      BY <2>1 DEF FrameSet, TypeOK, UtxosOK
    <2> HIDE DEF f
    <2>4. CallInv(Top, stxos, utxos, killed)
      BY <2>1 DEF StackInv
    <2>5. CallInv(f, stxos', utxos', killed)
      BY <2>1, <2>2, <2>3, <2>4 DEF CallInv, RowsOf
    <2>6. StackInv(stack', stxos', utxos', killed')
      BY <2>1, <2>2, <2>3, <2>5, TopStep
    <2> QED BY <1>0, <1>1, <1>2, <2>2, <2>6
  <1>10. CASE MarkReturns
    <2>1. /\ n \in Nat \ {0} /\ stack # <<>> /\ Top = stack[n] /\ Top \in FrameSet
          /\ Top.at = "outs" /\ Top.outs = {}
      BY <1>10, TopTyped DEF MarkReturns, Walking
    <2>2. UNCHANGED <<utxos, stxos>> /\ killed' = (killed \cup {Top.tx}) \ {tx}
      BY <1>10 DEF MarkReturns
    <2>3. Len(stack') = n - 1 /\ \A i \in 1..(n - 1) : stack'[i] = stack[i]
      BY <1>10, <2>1, StackFacts DEF MarkReturns
    <2>4. /\ \A i \in 1..n : CallInv(stack[i], stxos, utxos, killed)
          /\ \A i \in 1..(n - 1) : stack[i].at = "rows"
          /\ \A i, k \in 1..n : i < k => Age[stack[i].tx] < Age[stack[k].tx]
          /\ \A i \in 1..n : stack[i].tx \in Tx
          /\ \A i \in 1..n : \A w \in stack[i].rows : w \in cells
      <3>1. \A i \in 1..n : stack[i] \in FrameSet
        BY DEF TypeOK, WalkOK
      <3>2. /\ \A i \in 1..n : stack[i].tx \in Tx
            /\ \A i \in 1..n : \A w \in stack[i].rows : w \in cells
        BY <3>1 DEF FrameSet
      <3>3. /\ \A i \in 1..n : CallInv(stack[i], stxos, utxos, killed)
            /\ \A i \in 1..(n - 1) : stack[i].at = "rows"
            /\ \A i, k \in 1..n : i < k => Age[stack[i].tx] < Age[stack[k].tx]
        BY DEF StackInv
      <3> QED BY <3>2, <3>3
    <2>5. DeadLeavesNothing' /\ SpendersSpend'
      <3>1. CallInv(Top, stxos, utxos, killed)
        BY <2>1, <2>4
      <3>2. /\ \A o \in DOMAIN utxos : TxOf[o] # Top.tx
            /\ \A o \in DOMAIN stxos : TxOf[o] # Top.tx /\ stxos[o].spender # Top.tx
        BY <2>1, <3>1 DEF CallInv
      <3> QED BY <2>2, <3>2 DEF DeadLeavesNothing, SpendersSpend
    <2> HIDE DEF n
    <2>6. ASSUME NEW i \in 1..(n - 1) PROVE CallInv(stack[i], stxos', utxos', killed')
      <3>1. CallInv(stack[i], stxos, utxos, killed) /\ stack[i].at = "rows" /\ stack[i].tx \in Tx
            /\ Age[stack[i].tx] < Age[Top.tx] /\ Top.tx \in Tx
        BY <2>1, <2>4
      <3>2. ASSUME NEW w \in stack[i].rows, w.spender = stack[i].tx
            PROVE  TxOf[w.op] \notin killed'
        <4>1. w \in RowsOf(stack[i])
          BY DEF RowsOf
        <4>2. w.op \in Ins[w.spender] /\ TxOf[w.op] \notin killed
          BY <3>1, <3>2, <4>1 DEF CallInv
        <4>3. ASSUME TxOf[w.op] = Top.tx PROVE FALSE
          BY <3>1, <3>2, <4>2, <4>3, AgeFacts DEF Later
        <4> QED BY <2>2, <4>2, <4>3
      <3> QED BY <2>2, <3>1, <3>2, CallKept
    <2>7. StackInv(stack', stxos', utxos', killed')
      <3>1. \A i \in 1..(n - 1 - 1) : i \in 1..(n - 1)
        BY <2>1
      <3>2. \A i \in 1..(n - 1) : i \in 1..n
        BY <2>1
      <3> QED BY <2>3, <2>4, <2>6, <3>1, <3>2 DEF StackInv
    <2> QED BY <1>0, <1>1, <2>2, <2>5, <2>7
  <1>11. CASE DoublesDone
    <2>1. stack' = <<>> /\ UNCHANGED <<utxos, stxos, killed>>
      BY <1>11 DEF DoublesDone, db, buckets
    <2>2. StackInv(stack', stxos', utxos', killed')
      BY <2>1, NoCalls
    <2> QED BY <1>0, <1>1, <1>2, <2>1, <2>2
  <1> QED BY <1>3, <1>4, <1>5, <1>6, <1>7, <1>8, <1>9, <1>10, <1>11 DEF MarkAsDeadStep

LEMMA DeadStep ==
    ASSUME TypeOK, DeadInv, ~Freezing, Next
    PROVE  DeadInv'
  <1> USE DEF DeadInv
  <1>1. ASSUME UNCHANGED <<utxos, stxos, killed, freeze, stack>>,
               pc' \in Calling => pc \in Calling /\ tx' = tx
        PROVE  DeadInv'
    BY <1>1 DEF DeadLeavesNothing, SpendersSpend, Calling, NoFreeze
  <1>2. CASE \E t \in Tx : Broadcast(t) \/ Evict(t) \/ Mine(t)
    BY <1>1, <1>2 DEF Broadcast, Evict, Mine, db, buckets, call, walk, user
  <1>3. CASE (\E k \in Keys : GetHistory(k)) \/ HistoryDone
    BY <1>1, <1>3 DEF GetHistory, HistoryDone, db, buckets, call, walk, user, Calling
  <1>4. CASE \E e \in todo : SkipConfirmed(e) \/ FetchFails(e) \/ AddTransactionReturns(e)
    BY <1>1, <1>4 DEF SkipConfirmed, FetchFails, AddTransactionReturns, db, buckets, call, walk, user
  <1>5. ASSUME NEW e \in todo, AddTransaction(e) PROVE DeadInv'
    <2>1. PICK D \in SUBSET Tx :
                 /\ Closed(D)
                 /\ DOMAIN utxos' = (DOMAIN utxos \cup DeadSpends(D)) \ DeadOutputs(D)
                 /\ stxos' = Delete(stxos, DeadSpends(D))
                 /\ killed' = (killed \cup D) \ {e.tx}
      BY <1>5, MarkedFacts
    <2>2. DOMAIN utxos \subseteq Op /\ DOMAIN stxos \subseteq Op
      BY DEF TypeOK, UtxosOK, StxosOK
    <2>3. ASSUME NEW t \in killed', NEW o \in DOMAIN utxos' PROVE TxOf[o] # t
      BY <2>1, <2>2 DEF DeadLeavesNothing, DeadSpends, DeadOutputs
    <2>4. DOMAIN stxos' = DOMAIN stxos \ DeadSpends(D)
          /\ \A o \in DOMAIN stxos' : stxos'[o] = stxos[o]
      BY <2>1 DEF Delete
    <2>5. ASSUME NEW t \in killed', NEW o \in DOMAIN stxos'
          PROVE  TxOf[o] # t /\ stxos'[o].spender # t
      <3>1. o \in DOMAIN stxos /\ stxos[o].spender \notin D /\ stxos'[o] = stxos[o]
        BY <2>4 DEF DeadSpends
      <3>2. TxOf[o] \notin D
        BY <2>1, <3>1 DEF Closed
      <3> QED BY <2>1, <3>1, <3>2 DEF DeadLeavesNothing
    <2>6. DeadLeavesNothing'
      BY <2>3, <2>5 DEF DeadLeavesNothing
    <2>7. SpendersSpend'
      BY <2>4 DEF SpendersSpend
    <2>8. stack' = <<>>
      BY <1>5 DEF AddTransaction, Begins, walk, TypeOK, WalkOK
    <2>9. StackInv(stack', stxos', utxos', killed')
      BY <2>8, NoCalls
    <2> QED BY <1>5, <2>1, <2>6, <2>7, <2>9 DEF AddTransaction, Begins, user, NoFreeze
  <1>6. CASE PutOutputs
    <2>1. DOMAIN utxos' = DOMAIN utxos \cup Ours
      BY <1>6 DEF PutOutputs, Put
    <2>2. \A o \in Ours : TxOf[o] = tx
      BY DEF Ours
    <2>3. tx \notin killed
      BY <1>6 DEF PutOutputs, Calling
    <2>4. UNCHANGED <<stxos, killed, tx, freeze>>
      BY <1>6 DEF PutOutputs, user
    <2>5. stack' = <<>>
      BY <1>6 DEF PutOutputs, walk, TypeOK, WalkOK
    <2>6. StackInv(stack', stxos', utxos', killed')
      BY <2>5, NoCalls
    <2> QED BY <2>1, <2>2, <2>3, <2>4, <2>6 DEF DeadLeavesNothing, SpendersSpend, NoFreeze
  <1>7. CASE SpendInputs
    <2>1. DOMAIN utxos' \subseteq DOMAIN utxos /\ Spent \subseteq DOMAIN utxos
      BY <1>7 DEF SpendInputs, Delete, Spent
    <2>2. /\ DOMAIN stxos' = DOMAIN stxos \cup Spent
          /\ \A o \in Spent : stxos'[o].spender = tx
          /\ \A o \in DOMAIN stxos \ Spent : stxos'[o] = stxos[o]
      BY <1>7 DEF SpendInputs, Put
    <2>3. tx \notin killed
      BY <1>7 DEF SpendInputs, Calling
    <2>4. UNCHANGED <<killed, tx, freeze>>
      BY <1>7 DEF SpendInputs, user
    <2>5. stack' = <<>>
      BY <1>7 DEF SpendInputs, walk, TypeOK, WalkOK
    <2>6. StackInv(stack', stxos', utxos', killed')
      BY <2>5, NoCalls
    <2>7. SpendersSpend'
      BY <2>2, <2>4 DEF SpendersSpend, Spent
    <2> QED BY <2>1, <2>2, <2>3, <2>4, <2>6, <2>7 DEF DeadLeavesNothing, NoFreeze
  <1>8. CASE UpdateSpendHeight
    <2>1. DOMAIN stxos' = DOMAIN stxos /\ \A o \in DOMAIN stxos : stxos'[o].spender = stxos[o].spender
      <3>1. CASE UNCHANGED stxos
        BY <3>1
      <3>2. CASE \E o \in DOMAIN stxos : stxos' = [stxos EXCEPT ![o].spendHeight = height]
        BY <3>2 DEF TypeOK, StxosOK, Stxo
      <3> QED BY <1>8, <3>1, <3>2 DEF UpdateSpendHeight
    <2>2. UNCHANGED <<utxos, killed, tx, freeze>> /\ pc \in Calling
      BY <1>8 DEF UpdateSpendHeight, user, Calling
    <2>3. stack' = <<>>
      BY <1>8 DEF UpdateSpendHeight, walk, TypeOK, WalkOK
    <2>4. StackInv(stack', stxos', utxos', killed')
      BY <2>3, NoCalls
    <2> QED BY <2>1, <2>2, <2>4 DEF DeadLeavesNothing, SpendersSpend, NoFreeze
  <1>9. CASE PutTxn
    BY <1>1, <1>9 DEF PutTxn, NoCall, user, Calling, TypeOK, WalkOK
  <1>10. CASE (\E o \in Op, b \in BOOLEAN : FreezeGet(o, b)) \/ FreezePut
    BY <1>10 DEF FreezeGet, FreezePut
  <1>11. ASSUME Restart \/ KilledInOutputs \/ KilledInInputs,
                DeadLeavesNothing', SpendersSpend'
         PROVE  DeadInv'
    <2>1. StackInv(stack', stxos', utxos', killed')
      BY <1>11, KillFacts, NoCalls
    <2> QED BY <1>11, <2>1, KillFacts DEF Calling
  <1>12. CASE Restart
    <2>1. UNCHANGED <<utxos, stxos, killed>>
      BY <1>12, KillFacts DEF Restart
    <2>2. DeadLeavesNothing' /\ SpendersSpend'
      BY <2>1 DEF DeadLeavesNothing, SpendersSpend
    <2> QED BY <1>11, <1>12, <2>2
  <1>13. CASE KilledInOutputs
    <2>1. PICK done \in SUBSET Ours :
                 utxos' = Put(utxos, [o \in done |-> [height |-> height, frozen |-> FALSE]])
      BY <1>13 DEF KilledInOutputs
    <2>2. DOMAIN utxos' = DOMAIN utxos \cup done
      BY <2>1 DEF Put
    <2>3. UNCHANGED <<stxos, killed>> /\ tx \notin killed
      BY <1>13, KillFacts DEF KilledInOutputs, Calling
    <2>4. \A o \in done : TxOf[o] = tx
      BY DEF Ours
    <2>5. DeadLeavesNothing' /\ SpendersSpend'
      BY <2>2, <2>3, <2>4 DEF DeadLeavesNothing, SpendersSpend
    <2> QED BY <1>11, <1>13, <2>5
  <1>14. CASE KilledInInputs
    <2>1. PICK done \in SUBSET Spent, more \in SUBSET Spent :
                 /\ stxos' = Put(stxos, [o \in done \cup more |->
                               [utxo |-> utxos[o], spendHeight |-> height, spender |-> tx]])
                 /\ utxos' = Delete(utxos, done)
      BY <1>14 DEF KilledInInputs
    <2>2. /\ DOMAIN utxos' \subseteq DOMAIN utxos
          /\ DOMAIN stxos' = DOMAIN stxos \cup (done \cup more)
          /\ \A o \in done \cup more : stxos'[o].spender = tx
          /\ \A o \in DOMAIN stxos \ (done \cup more) : stxos'[o] = stxos[o]
      BY <2>1 DEF Put, Delete
    <2>3. UNCHANGED killed /\ tx \notin killed
      BY <1>14, KillFacts DEF KilledInInputs, Calling
    <2>4. \A o \in done \cup more : o \in DOMAIN utxos /\ o \in Ins[tx]
      BY DEF Spent
    <2>5. DeadLeavesNothing' /\ SpendersSpend'
      BY <2>2, <2>3, <2>4 DEF DeadLeavesNothing, SpendersSpend
    <2> QED BY <1>11, <1>14, <2>5
  <1>15. ASSUME NEW e \in todo, AddTransactionSteps(e) PROVE DeadInv'
    <2>1. /\ stack' = <<>> /\ UNCHANGED <<utxos, stxos, freeze>>
          /\ killed' = killed \ {e.tx} /\ tx' = e.tx
      BY <1>15 DEF AddTransactionSteps, Begins, user
    <2>2. StackInv(stack', stxos', utxos', killed')
      BY <2>1, NoCalls
    <2> QED BY <2>1, <2>2 DEF DeadLeavesNothing, SpendersSpend, NoFreeze
  <1>16. CASE MarkAsDeadStep
    BY <1>16, WalkDead
  <1> QED BY <1>2, <1>3, <1>4, <1>5, <1>6, <1>7, <1>8, <1>9, <1>10, <1>12, <1>13, <1>14, <1>15,
             <1>16 DEF Next

\* While nobody freezes coins, a transaction killed by a double spend leaves no
\* coin and no spent record, and neither does anything that spent its outputs, in
\* whatever order the recursion of markAsDead meets them and wherever it is killed.
THEOREM DeadStayDead == ASSUME ~Freezing PROVE Spec => []DeadLeavesNothing
  <1>1. Init => DeadInv
    BY NoCalls DEF Init, None, DeadInv, DeadLeavesNothing, SpendersSpend, Calling
  <1>2. TypeOK /\ DeadInv /\ [Next]_vars => DeadInv'
    <2>1. ASSUME DeadInv, UNCHANGED vars PROVE DeadInv'
      BY <2>1 DEF vars, db, buckets, job, call, walk, user, DeadInv, DeadLeavesNothing,
                  SpendersSpend, Calling, NoFreeze
    <2> QED BY <2>1, DeadStep
  <1>3. DeadInv => DeadLeavesNothing
    BY DEF DeadInv
  <1> QED BY <1>1, <1>2, <1>3, TypeCorrect, PTL DEF Spec

-----------------------------------------------------------------------------
(* Coins that are lost. *)

OwnOutputs(t) == {o \in Op : TxOf[o] = t /\ Owner[o] # NotOurs}
Recorded == DOMAIN utxos \cup DOMAIN stxos

\* Every transaction the network ever saw pays keys the wallet already had; the
\* one being added is among them.
KnownKeys ==
    /\ \A t \in seen : \A o \in OwnOutputs(t) : Owner[o] < nkeys
    /\ DOMAIN net \subseteq seen
    /\ \A e \in todo : e.tx \in seen
    /\ pc \in Calling => tx \in seen

\* The cache of addresses has all the keys whenever outputs are looked at, and
\* is reloaded at the end of every call that makes keys.
AdrsCurrent ==
    /\ nkeys >= Cardinality(used) + Gap
    /\ pc \in {"idle", "next", "dead", "outputs"} => adrs = nkeys
    /\ pc \in {"inputs", "heights", "commit"} => hits \/ adrs = nkeys

\* The transactions the goroutine has from the server, and those that it or the store
\* has as confirmed.
Heard == {e.tx : e \in todo} \cup {t \in {tx} : pc \in Calling}
Sure ==
    {t \in DOMAIN txns : txns[t] > 0}
    \cup {e.tx : e \in {e \in todo : e.height > 0}}
    \cup {t \in {tx} : pc \in Calling /\ height > 0}

\* The confirmed ones are in the chain, and nothing the goroutine was told of is a double
\* spend of one: it was told before the server could drop the first for the second.
ChainAgrees ==
    /\ \A t, u \in DOMAIN net : ~Conflict(t, u)
    /\ Sure \subseteq Mined
    /\ \A t \in Heard, u \in Sure : ~Conflict(t, u)

\* A call of markAsDead is for a transaction that is stored and not confirmed, with rows
\* of its own spends and of its outputs' spends, and with outputs of its own.
Unconfirmed(t, tn) == t \in DOMAIN tn /\ ~(tn[t] > 0)

DyingCall(f, tn) ==
    /\ Unconfirmed(f.tx, tn)
    /\ \A w \in f.rows : w.spender = f.tx \/ TxOf[w.op] = f.tx
    /\ \A o \in f.outs : TxOf[o] = f.tx

DyingCalls(sk, tn) == \A i \in 1..Len(sk) : DyingCall(sk[i], tn)

Dying == DyingCalls(stack, txns) /\ \A d \in doubles : Unconfirmed(d, txns)

\* Outputs are on record before the transaction is stored; what markAsDead has in hand
\* it puts back, unless it is killed.
OnRecord ==
    /\ \A t \in Tx : HasConfirmed(t) => OwnOutputs(t) \subseteq Recorded \cup InFlight \cup torn
    /\ pc \in {"inputs", "heights", "commit"} => OwnOutputs(tx) \subseteq Recorded

CoinInv == KnownKeys /\ AdrsCurrent /\ ChainAgrees /\ Dying /\ OnRecord

LEMMA KnownKeysStep ==
    ASSUME TypeOK, KnownKeys, SoleWallet, Next
    PROVE  KnownKeys'
  <1>1. ASSUME UNCHANGED <<net, seen, nkeys>>, todo' \subseteq todo,
               pc' \in Calling => pc \in Calling /\ tx' = tx
        PROVE  KnownKeys'
    BY <1>1 DEF KnownKeys, OwnOutputs, Calling
  <1>2. ASSUME NEW t \in Tx, Broadcast(t) PROVE KnownKeys'
    <2>1. \A o \in OwnOutputs(t) : Owner[o] < nkeys
      BY <1>2 DEF Broadcast, Plausible, OwnOutputs
    <2>2. DOMAIN net' = DOMAIN net \cup {t} /\ seen' = seen \cup {t}
      BY <1>2 DEF Broadcast, Put, Single
    <2>3. UNCHANGED <<nkeys, todo, pc, tx>>
      BY <1>2 DEF Broadcast, db, buckets, call
    <2> QED BY <2>1, <2>2, <2>3 DEF KnownKeys, OwnOutputs, Calling
  <1>3. ASSUME NEW t \in Tx, Evict(t) \/ Mine(t) PROVE KnownKeys'
    <2>1. DOMAIN net' \subseteq DOMAIN net
      BY <1>3 DEF Evict, Mine, Delete
    <2>2. UNCHANGED <<seen, nkeys, todo, pc, tx>>
      BY <1>3 DEF Evict, Mine, db, buckets, call
    <2> QED BY <2>1, <2>2 DEF KnownKeys, OwnOutputs, Calling
  <1>4. ASSUME NEW k \in Keys, GetHistory(k) PROVE KnownKeys'
    <2>1. \A e \in todo' : e.tx \in DOMAIN net
      BY <1>4 DEF GetHistory, History
    <2>2. UNCHANGED <<net, seen, nkeys>> /\ pc' = "next"
      BY <1>4 DEF GetHistory, server, db, buckets
    <2> QED BY <2>1, <2>2 DEF KnownKeys, OwnOutputs, Calling
  <1>5. CASE \E e \in todo : SkipConfirmed(e) \/ FetchFails(e) \/ AddTransactionReturns(e)
    BY <1>1, <1>5 DEF SkipConfirmed, FetchFails, AddTransactionReturns, server, db, buckets, call
  <1>6. ASSUME NEW e \in todo, AddTransaction(e) \/ AddTransactionSteps(e) PROVE KnownKeys'
    <2>1. UNCHANGED <<net, seen, nkeys>> /\ todo' \subseteq todo /\ tx' = e.tx
      BY <1>6 DEF AddTransaction, AddTransactionSteps, Begins, server
    <2> QED BY <2>1 DEF KnownKeys, OwnOutputs
  <1>7. CASE PutOutputs \/ KilledInOutputs
    <2>1. nkeys' \in Nat /\ nkeys' >= nkeys
      <3>1. used' \subseteq Keys
        BY <1>7, OutputsType, KilledType DEF TypeOK, KeysOK, Keys
      <3>2. nkeys' = Lookahead(nkeys, used')
        BY <1>7 DEF PutOutputs, KilledInOutputs
      <3> QED BY <3>1, <3>2, LookaheadFacts DEF TypeOK, KeysOK
    <2>2. /\ UNCHANGED <<net, seen>> /\ todo' \subseteq todo
          /\ pc' \in Calling => pc \in Calling /\ tx' = tx
      BY <1>7, KillFacts DEF PutOutputs, server, Calling
    <2>3. \A o \in Op : Owner[o] \in Int
      BY ConstantsAssumption DEF NotOurs
    <2>4. \A t \in seen : \A o \in OwnOutputs(t) : Owner[o] < nkeys'
      BY <2>1, <2>3 DEF KnownKeys, OwnOutputs, TypeOK, KeysOK
    <2> QED BY <2>2, <2>4 DEF KnownKeys, OwnOutputs
  <1>8. CASE SpendInputs \/ UpdateSpendHeight
    BY <1>1, <1>8 DEF SpendInputs, UpdateSpendHeight, server, Calling
  <1>9. CASE PutTxn
    BY <1>1, <1>9 DEF PutTxn, server, Calling
  <1>10. CASE (\E o \in Op, b \in BOOLEAN : FreezeGet(o, b)) \/ FreezePut
    BY <1>1, <1>10 DEF FreezeGet, FreezePut, server, db, buckets, job, call
  <1>11. CASE HistoryDone
    BY <1>1, <1>11 DEF HistoryDone, server, db, buckets, Calling
  <1>12. CASE Restart \/ KilledInInputs
    <2>1. UNCHANGED <<net, seen, nkeys>> /\ todo' = {} /\ pc' = "idle"
      BY <1>12, KillFacts DEF Restart, KilledInInputs
    <2> QED BY <1>1, <2>1 DEF Calling
  <1>13. CASE MarkAsDeadStep
    BY <1>1, <1>13, WalkFacts DEF server, Calling
  <1> QED BY <1>2, <1>3, <1>4, <1>5, <1>6, <1>7, <1>8, <1>9, <1>10, <1>11, <1>12, <1>13 DEF Next

LEMMA AdrsStep ==
    ASSUME TypeOK, AdrsCurrent, Next
    PROVE  AdrsCurrent'
  <1>1. ASSUME UNCHANGED <<nkeys, used, adrs, pc, hits>> PROVE AdrsCurrent'
    BY <1>1 DEF AdrsCurrent
  <1>2. CASE \E t \in Tx : Broadcast(t) \/ Evict(t) \/ Mine(t)
    BY <1>1, <1>2 DEF Broadcast, Evict, Mine, db, buckets, cache, call
  <1>3. CASE \E e \in todo : SkipConfirmed(e) \/ FetchFails(e) \/ AddTransactionReturns(e)
    BY <1>1, <1>3 DEF SkipConfirmed, FetchFails, AddTransactionReturns, db, buckets, cache, call
  <1>4. CASE (\E k \in Keys : GetHistory(k)) \/ HistoryDone
    BY <1>4 DEF GetHistory, HistoryDone, db, buckets, cache, AdrsCurrent, Idle
  <1>10. CASE \E e \in todo : AddTransaction(e) \/ AddTransactionSteps(e)
    BY <1>10 DEF AddTransaction, AddTransactionSteps, Begins, cache, AdrsCurrent
  <1>11. CASE MarkAsDeadStep
    BY <1>11, WalkFacts DEF AdrsCurrent, cache
  <1>5. CASE PutOutputs
    <2>1. used \subseteq Keys /\ used' \subseteq Keys /\ nkeys \in Nat
      BY <1>5, OutputsType DEF TypeOK, KeysOK, Keys
    <2>2. nkeys' >= Cardinality(used') + Gap
      BY <1>5, <2>1, LookaheadFacts DEF PutOutputs
    <2>3. adrs = nkeys /\ adrs' = adrs /\ pc' = "inputs"
      BY <1>5 DEF PutOutputs, AdrsCurrent, cache
    <2>4. CASE Ours = {}
      <3>1. used' = used
        BY <1>5, <2>4 DEF PutOutputs
      <3>2. nkeys' = nkeys
        BY <1>5, <2>1, <3>1, LookaheadFacts DEF PutOutputs, AdrsCurrent
      <3> QED BY <2>2, <2>3, <3>2 DEF AdrsCurrent
    <2>5. CASE Ours # {}
      <3>1. hits'
        BY <1>5, <2>5 DEF PutOutputs
      <3> QED BY <2>2, <2>3, <3>1 DEF AdrsCurrent
    <2> QED BY <2>4, <2>5
  <1>6. CASE SpendInputs \/ UpdateSpendHeight
    <2>1. UNCHANGED <<nkeys, used, adrs>> /\ pc \in {"inputs", "heights"}
          /\ pc' \in {"inputs", "heights", "commit"}
      BY <1>6 DEF SpendInputs, UpdateSpendHeight, cache
    <2>2. hits => hits'
      BY <1>6 DEF SpendInputs, UpdateSpendHeight
    <2> QED BY <2>1, <2>2 DEF AdrsCurrent
  <1>7. CASE PutTxn
    BY <1>7 DEF PutTxn, AdrsCurrent, PopulatedAdrs, cache
  <1>8. CASE (\E o \in Op, b \in BOOLEAN : FreezeGet(o, b)) \/ FreezePut
    BY <1>1, <1>8 DEF FreezeGet, FreezePut, db, buckets, cache, job, call
  <1>9. CASE Restart \/ KilledInInputs
    <2>1. UNCHANGED <<nkeys, used>> /\ pc' = "idle" /\ adrs' = nkeys'
      BY <1>9, KillFacts DEF Restart, KilledInInputs
    <2> QED BY <2>1 DEF AdrsCurrent
  <1>12. CASE KilledInOutputs
    <2>1. used' \subseteq Keys /\ nkeys \in Nat
      BY <1>12, KilledType DEF TypeOK, KeysOK, Keys
    <2>2. nkeys' >= Cardinality(used') + Gap
      BY <1>12, <2>1, LookaheadFacts DEF KilledInOutputs
    <2>3. pc' = "idle" /\ adrs' = nkeys'
      BY <1>12, KillFacts
    <2> QED BY <2>2, <2>3 DEF AdrsCurrent
  <1> QED BY <1>2, <1>3, <1>4, <1>5, <1>6, <1>7, <1>8, <1>9, <1>10, <1>11, <1>12 DEF Next

\* What the server does: nothing mined is unmined or moved.
LEMMA ServerMoves ==
    ASSUME TypeOK, NEW t \in Tx, Broadcast(t) \/ Evict(t) \/ Mine(t)
    PROVE  /\ seen \subseteq seen' /\ Mined \subseteq Mined'
           /\ \A u \in Mined : net'[u] = net[u]
           /\ UNCHANGED <<utxos, stxos, txns, txids, pc, key, todo, tx, height, hits, freeze>>
           /\ fresh' \subseteq fresh /\ (valid' => valid)
  <1>1. UNCHANGED <<utxos, stxos, txns, txids, pc, key, todo, tx, height, hits, freeze>>
    BY DEF Broadcast, Evict, Mine, db, buckets, cache, call, user
  <1>2. fresh' \subseteq fresh /\ (valid' => valid)
    BY DEF Broadcast, Evict, Mine, Restatus
  <1>3. seen \subseteq seen'
    BY DEF Broadcast, Evict, Mine
  <1>4. Mined \subseteq Mined' /\ \A u \in Mined : net'[u] = net[u]
    <2>1. CASE Broadcast(t)
      BY <2>1 DEF Broadcast, Put, Single, Mined
    <2>2. CASE Evict(t)
      BY <2>2 DEF Evict, Delete, Mined
    <2>3. CASE Mine(t)
      BY <2>3 DEF Mine, Mined
    <2> QED BY <2>1, <2>2, <2>3
  <1> QED BY <1>1, <1>2, <1>3, <1>4

LEMMA ChainStep ==
    ASSUME TypeOK, ChainAgrees, Next
    PROVE  ChainAgrees'
  <1>1. ASSUME UNCHANGED net, Heard' \subseteq Heard, Sure' \subseteq Sure PROVE ChainAgrees'
    BY <1>1 DEF ChainAgrees, Mined
  <1>2. ASSUME UNCHANGED <<net, txns, height>>, todo' \subseteq todo,
               pc' \in Calling => pc \in Calling /\ tx' = tx
        PROVE  ChainAgrees'
    <2>1. Heard' \subseteq Heard
      BY <1>2 DEF Heard
    <2>2. Sure' \subseteq Sure
      BY <1>2 DEF Sure
    <2> QED BY <1>1, <1>2, <2>1, <2>2
  <1>3. ASSUME NEW t \in Tx, Broadcast(t) \/ Evict(t) \/ Mine(t) PROVE ChainAgrees'
    <2>1. UNCHANGED <<txns, todo, pc, tx, height>> /\ Mined \subseteq Mined'
      BY <1>3, ServerMoves
    <2>2. Heard' = Heard /\ Sure' = Sure
      BY <2>1 DEF Heard, Sure
    <2>3. \A u, v \in DOMAIN net' : ~Conflict(u, v)
      <3>1. CASE Broadcast(t)
        <4>1. DOMAIN net' = DOMAIN net \cup {t} /\ \A u \in DOMAIN net : ~Conflict(t, u)
          BY <3>1 DEF Broadcast, Put, Single
        <4> QED BY <4>1 DEF ChainAgrees, Conflict
      <3>2. CASE Evict(t) \/ Mine(t)
        <4>1. DOMAIN net' \subseteq DOMAIN net
          BY <3>2 DEF Evict, Mine, Delete
        <4> QED BY <4>1 DEF ChainAgrees
      <3> QED BY <1>3, <3>1, <3>2
    <2> QED BY <2>1, <2>2, <2>3 DEF ChainAgrees, Conflict
  <1>4. ASSUME NEW k \in Keys, GetHistory(k) PROVE ChainAgrees'
    <2>1. UNCHANGED <<net, txns>> /\ pc' = "next" /\ todo' = History(k)
      BY <1>4 DEF GetHistory, server, db, buckets
    <2>2. \A e \in History(k) : e.tx \in DOMAIN net /\ (e.height > 0 => e.tx \in Mined)
      BY DEF History, Listed, Mined
    <2>3. Heard' \subseteq DOMAIN net
      BY <2>1, <2>2 DEF Heard, Calling
    <2>4. Sure' \subseteq Mined
      BY <2>1, <2>2 DEF Sure, Calling, ChainAgrees
    <2> QED BY <2>1, <2>3, <2>4 DEF ChainAgrees, Mined, Conflict
  <1>5. CASE \E e \in todo : SkipConfirmed(e) \/ FetchFails(e) \/ AddTransactionReturns(e)
    BY <1>2, <1>5 DEF SkipConfirmed, FetchFails, AddTransactionReturns, server, db, buckets, call
  <1>6. ASSUME NEW e \in todo, AddTransaction(e) \/ AddTransactionSteps(e) PROVE ChainAgrees'
    <2>1. UNCHANGED net /\ todo' \subseteq todo /\ tx' = e.tx /\ height' = e.height
      BY <1>6 DEF AddTransaction, AddTransactionSteps, Begins, server
    <2>2. DOMAIN txns' = DOMAIN txns /\ \A t \in DOMAIN txns : txns'[t] > 0 => txns[t] > 0
      <3>1. CASE AddTransaction(e)
        <4>1. PICK D \in SUBSET Tx : txns' = [t \in DOMAIN txns |-> IF t \in D THEN -1 ELSE txns[t]]
          BY <3>1, MarkedFacts
        <4> QED BY <4>1
      <3>2. CASE AddTransactionSteps(e)
        BY <3>2 DEF AddTransactionSteps
      <3> QED BY <1>6, <3>1, <3>2
    <2>3. Heard' \subseteq Heard
      BY <2>1 DEF Heard
    <2>4. Sure' \subseteq Sure
      BY <2>1, <2>2 DEF Sure
    <2> QED BY <1>1, <2>1, <2>3, <2>4
  <1>7. CASE MarkAsDeadStep
    <2>1. /\ UNCHANGED <<net, todo, tx, height>> /\ pc \in Calling
          /\ DOMAIN txns' = DOMAIN txns
          /\ \A t \in DOMAIN txns : txns'[t] > 0 => txns[t] > 0
      BY <1>7, WalkFacts DEF server, Calling
    <2>2. Heard' \subseteq Heard
      BY <2>1 DEF Heard
    <2>3. Sure' \subseteq Sure
      BY <2>1 DEF Sure
    <2> QED BY <1>1, <2>1, <2>2, <2>3
  <1>8. CASE PutOutputs \/ SpendInputs \/ UpdateSpendHeight
    BY <1>2, <1>8 DEF PutOutputs, SpendInputs, UpdateSpendHeight, server, Calling
  <1>9. CASE PutTxn
    <2>1. UNCHANGED <<net, todo>> /\ pc \in Calling /\ pc' = "next"
      BY <1>9 DEF PutTxn, server, Calling
    <2>2. \A t \in DOMAIN txns' : txns'[t] > 0 =>
             (t \in DOMAIN txns /\ txns[t] > 0) \/ (t = tx /\ height > 0)
      BY <1>9 DEF PutTxn, Put, Single, StoredHeight, HasConfirmed
    <2>3. Heard' \subseteq Heard
      BY <2>1 DEF Heard, Calling
    <2>4. Sure' \subseteq Sure
      BY <2>1, <2>2 DEF Sure, Calling
    <2> QED BY <1>1, <2>1, <2>3, <2>4
  <1>10. CASE (\E o \in Op, b \in BOOLEAN : FreezeGet(o, b)) \/ FreezePut
    BY <1>2, <1>10 DEF FreezeGet, FreezePut, server, db, buckets, job, call
  <1>11. CASE HistoryDone
    BY <1>2, <1>11 DEF HistoryDone, server, db, buckets, call, Calling
  <1>12. CASE Restart \/ KilledInOutputs \/ KilledInInputs
    <2>1. UNCHANGED <<net, txns>> /\ todo' = {} /\ pc' = "idle"
      BY <1>12, KillFacts
    <2>2. Heard' = {}
      BY <2>1 DEF Heard, Calling
    <2>3. Sure' \subseteq Sure
      BY <2>1 DEF Sure, Calling
    <2> QED BY <1>1, <2>1, <2>2, <2>3
  <1> QED BY <1>3, <1>4, <1>5, <1>6, <1>7, <1>8, <1>9, <1>10, <1>11, <1>12 DEF Next

\* Steps of markAsDead that only change the innermost call, and no height.
LEMMA TopDies ==
    ASSUME TypeOK, Dying, stack # <<>>, NEW f \in FrameSet, SetTop(f), f.tx = Top.tx,
           UNCHANGED <<txns, doubles>>,
           f.rows \subseteq Top.rows, \A o \in f.outs : TxOf[o] = Top.tx
    PROVE  Dying'
  <1> DEFINE n == Len(stack)
  <1>1. /\ n \in Nat \ {0} /\ Len(stack') = n /\ stack'[n] = f /\ Top = stack[n]
        /\ \A i \in 1..(n - 1) : stack'[i] = stack[i]
    BY StackFacts, TopTyped
  <1>2. \A i \in 1..n : DyingCall(stack[i], txns)
    BY DEF Dying, DyingCalls
  <1> HIDE DEF n
  <1>3. DyingCall(f, txns)
    BY <1>1, <1>2 DEF DyingCall
  <1>4. \A i \in 1..n : DyingCall(stack'[i], txns)
    <2>1. \A i \in 1..n : i = n \/ i \in 1..(n - 1)
      BY <1>1
    <2>2. \A i \in 1..(n - 1) : i \in 1..n
      BY <1>1
    <2> QED BY <1>1, <1>2, <1>3, <2>1, <2>2
  <1>5. DyingCalls(stack', txns) /\ \A d \in doubles : Unconfirmed(d, txns)
    BY <1>1, <1>4 DEF Dying, DyingCalls
  <1> QED BY <1>5 DEF Dying

\* What is not confirmed stays so while markAsDead runs.
LEMMA NoneConfirmed ==
    ASSUME MarkAsDeadStep, NEW f, DyingCall(f, txns)
    PROVE  DyingCall(f, txns')
  <1>1. Unconfirmed(f.tx, txns')
    <2>1. f.tx \in DOMAIN txns /\ ~(txns[f.tx] > 0)
      BY DEF DyingCall, Unconfirmed
    <2> QED BY <2>1, WalkFacts DEF Unconfirmed
  <1> QED BY <1>1 DEF DyingCall

LEMMA WalkDies ==
    ASSUME TypeOK, Dying, MarkAsDeadStep
    PROVE  Dying'
  <1> DEFINE n == Len(stack)
             cells == [op : Op, utxo : Utxo, spender : Tx]
  <1>0. \A t : Unconfirmed(t, txns) => Unconfirmed(t, txns')
    BY WalkFacts DEF Unconfirmed
  <1>1. \A i \in 1..n : DyingCall(stack[i], txns')
    BY NoneConfirmed DEF Dying, DyingCalls
  <1>2. \A d \in doubles : Unconfirmed(d, txns')
    BY <1>0 DEF Dying
  <1>3. ASSUME NEW t \in Tx, Unconfirmed(t, txns') PROVE DyingCall(Frame(t), txns')
    <2>1. \A w \in Concerned(t) : w.spender = t \/ TxOf[w.op] = t
      BY DEF Concerned, Row
    <2> QED BY <1>3, <2>1 DEF Frame, DyingCall
  <1>4. ASSUME NEW d \in doubles, MarkDouble(d) PROVE Dying'
    <2>1. stack' = <<Frame(d)>> /\ doubles' \subseteq doubles /\ d \in Tx
      BY <1>4 DEF MarkDouble, TypeOK, WalkOK
    <2>2. DyingCall(Frame(d), txns')
      BY <1>2, <1>3, <2>1
    <2> HIDE DEF Frame
    <2>3. Len(stack') = 1 /\ stack'[1] = Frame(d)
      BY <2>1
    <2>4. \A i \in 1..Len(stack') : DyingCall(stack'[i], txns')
      BY <2>2, <2>3
    <2> QED BY <1>2, <2>1, <2>4 DEF Dying, DyingCalls
  <1>5. ASSUME stack # <<>>, NEW w \in Top.rows, DeleteDeadStxo(w) PROVE Dying'
    <2> DEFINE f == [Top EXCEPT !.at = "height", !.rows = @ \ {w}, !.row = w]
    <2>1. n \in Nat \ {0} /\ Top = stack[n] /\ Top \in FrameSet /\ w \in cells
      BY <1>5, TopTyped DEF DeleteDeadStxo, Walking, FrameSet
    <2>2. SetTop(f) /\ UNCHANGED <<txns, doubles>>
      BY <1>5 DEF DeleteDeadStxo
    <2>3. f \in FrameSet /\ f.tx = Top.tx /\ f.rows \subseteq Top.rows /\ f.outs = Top.outs
      BY <2>1 DEF FrameSet
    <2> HIDE DEF f
    <2>4. \A o \in Top.outs : TxOf[o] = Top.tx
      BY <2>1 DEF Dying, DyingCalls, DyingCall
    <2> QED BY <1>5, <2>2, <2>3, <2>4, TopDies
  <1>6. ASSUME stack # <<>>, NEW o \in Top.outs, DeleteDeadUtxo(o) PROVE Dying'
    <2> DEFINE f == [Top EXCEPT !.outs = @ \ {o}]
    <2>1. n \in Nat \ {0} /\ Top = stack[n] /\ Top \in FrameSet
      BY <1>6, TopTyped DEF DeleteDeadUtxo, Walking
    <2>2. SetTop(f) /\ UNCHANGED <<txns, doubles>>
      BY <1>6 DEF DeleteDeadUtxo
    <2>3. f \in FrameSet /\ f.tx = Top.tx /\ f.rows = Top.rows /\ f.outs \subseteq Top.outs
      BY <2>1 DEF FrameSet
    <2> HIDE DEF f
    <2>4. \A u \in Top.outs : TxOf[u] = Top.tx
      BY <2>1 DEF Dying, DyingCalls, DyingCall
    <2> QED BY <1>6, <2>2, <2>3, <2>4, TopDies
  <1>7. CASE MarkSpender
    <2> DEFINE t == Top.row.spender
               f == [Top EXCEPT !.at = "rows"]
               h == [Top EXCEPT !.at = "put"]
    <2>1. /\ n \in Nat \ {0} /\ stack # <<>> /\ Top = stack[n] /\ Top \in FrameSet
          /\ Top.row \in cells /\ t \in Tx /\ doubles' = doubles
      BY <1>7, TopTyped DEF MarkSpender, Walking
    <2>2. /\ f \in FrameSet /\ f.tx = Top.tx /\ f.rows = Top.rows /\ f.outs = Top.outs
          /\ h \in FrameSet /\ h.tx = Top.tx /\ h.rows = Top.rows /\ h.outs = Top.outs
      BY <2>1 DEF FrameSet
    <2>3. DyingCall(Top, txns')
      BY <1>1, <2>1
    <2>4. DyingCall(f, txns') /\ DyingCall(h, txns')
      BY <2>2, <2>3 DEF DyingCall
    <2>5. Unconfirmed(t, txns')
      BY <1>7 DEF MarkSpender, Unconfirmed
    <2>6. DyingCall(Frame(t), txns') /\ Frame(t) \in FrameSet
      BY <1>3, <2>1, <2>5, FrameTyped
    <2> HIDE DEF f, h, Frame
    <2>7. CASE t = Top.tx
      <3>1. SetTop(h)
        BY <1>7, <2>7 DEF MarkSpender, h
      <3>2. Len(stack') = n /\ stack'[n] = h /\ \A i \in 1..(n - 1) : stack'[i] = stack[i]
        BY <2>1, <3>1, StackFacts
      <3> HIDE DEF n
      <3>3. \A i \in 1..n : i = n \/ (i \in 1..(n - 1) /\ i \in 1..n)
        BY <2>1
      <3>4. \A i \in 1..n : DyingCall(stack'[i], txns')
        BY <1>1, <2>4, <3>2, <3>3
      <3> QED BY <1>2, <2>1, <3>2, <3>4 DEF Dying, DyingCalls
    <2>8. CASE t # Top.tx
      <3>1. stack' = Append([stack EXCEPT ![n] = f], Frame(t))
        BY <1>7, <2>8 DEF MarkSpender, f
      <3> HIDE DEF t
      <3>2. /\ Len(stack') = n + 1 /\ stack'[n + 1] = Frame(t) /\ stack'[n] = f
            /\ \A i \in 1..(n - 1) : stack'[i] = stack[i]
        BY <2>1, <2>2, <2>6, <3>1, StackFacts
      <3> HIDE DEF n
      <3>3. \A i \in 1..(n + 1) : i = n + 1 \/ i = n \/ (i \in 1..(n - 1) /\ i \in 1..n)
        BY <2>1
      <3>4. \A i \in 1..(n + 1) : DyingCall(stack'[i], txns')
        BY <1>1, <2>4, <2>6, <3>2, <3>3
      <3> QED BY <1>2, <2>1, <3>2, <3>4 DEF Dying, DyingCalls
    <2> QED BY <2>7, <2>8
  <1>8. CASE SpenderMissing \/ DoublesDone
    <2>1. stack' = <<>> /\ doubles' = doubles
      BY <1>8 DEF SpenderMissing, DoublesDone
    <2>2. Len(<<>>) = 0
      OBVIOUS
    <2> QED BY <1>2, <2>1, <2>2 DEF Dying, DyingCalls
  <1>9. CASE PutBack
    <2> DEFINE f == [Top EXCEPT !.at = "rows"]
    <2>1. n \in Nat \ {0} /\ stack # <<>> /\ Top = stack[n] /\ Top \in FrameSet
      BY <1>9, TopTyped DEF PutBack, Walking
    <2>2. SetTop(f) /\ UNCHANGED <<txns, doubles>>
      BY <1>9 DEF PutBack
    <2>3. f \in FrameSet /\ f.tx = Top.tx /\ f.rows = Top.rows /\ f.outs = Top.outs
      BY <2>1 DEF FrameSet
    <2> HIDE DEF f
    <2>4. \A u \in Top.outs : TxOf[u] = Top.tx
      BY <2>1 DEF Dying, DyingCalls, DyingCall
    <2> QED BY <2>1, <2>2, <2>3, <2>4, TopDies
  <1>10. CASE RowsDone
    <2> DEFINE f == [Top EXCEPT !.at = "outs", !.outs = {o \in DOMAIN utxos : TxOf[o] = Top.tx}]
    <2>1. n \in Nat \ {0} /\ stack # <<>> /\ Top = stack[n] /\ Top \in FrameSet
      BY <1>10, TopTyped DEF RowsDone, Walking
    <2>2. SetTop(f) /\ UNCHANGED <<txns, doubles>>
      BY <1>10 DEF RowsDone
    <2>3. /\ f \in FrameSet /\ f.tx = Top.tx /\ f.rows = Top.rows
          /\ \A o \in f.outs : TxOf[o] = Top.tx
      BY <2>1 DEF FrameSet, TypeOK, UtxosOK
    <2> HIDE DEF f
    <2> QED BY <2>1, <2>2, <2>3, TopDies
  <1>11. CASE MarkReturns
    <2>1. n \in Nat \ {0} /\ stack # <<>> /\ doubles' = doubles
      BY <1>11, TopTyped DEF MarkReturns, Walking
    <2>2. Len(stack') = n - 1 /\ \A i \in 1..(n - 1) : stack'[i] = stack[i]
      BY <1>11, <2>1, StackFacts DEF MarkReturns
    <2> HIDE DEF n
    <2>3. \A i \in 1..(n - 1) : i \in 1..n
      BY <2>1
    <2>4. \A i \in 1..(n - 1) : DyingCall(stack'[i], txns')
      BY <1>1, <2>2, <2>3
    <2> QED BY <1>2, <2>1, <2>2, <2>4 DEF Dying, DyingCalls
  <1> QED BY <1>4, <1>5, <1>6, <1>7, <1>8, <1>9, <1>10, <1>11 DEF MarkAsDeadStep

\* The steps of markAsDead let go of no coin of a confirmed transaction.
LEMMA WalkRecords ==
    ASSUME TypeOK, CoinInv, MarkAsDeadStep
    PROVE  OnRecord'
  <1> USE DEF CoinInv
  <1> DEFINE n == Len(stack)
             cells == [op : Op, utxo : Utxo, spender : Tx]
  <1>1. ASSUME \A o \in Recorded \cup InFlight :
                 Unconfirmed(TxOf[o], txns) \/ o \in Recorded' \cup InFlight'
        PROVE  OnRecord'
    <2>1. /\ pc' \in {"dead", "outputs"} /\ torn' = torn
          /\ \A t \in Tx : HasConfirmed(t)' => HasConfirmed(t)
      BY WalkFacts DEF HasConfirmed
    <2>2. ASSUME NEW t \in Tx, HasConfirmed(t)'
          PROVE  OwnOutputs(t) \subseteq Recorded' \cup InFlight' \cup torn'
      <3>1. OwnOutputs(t) \subseteq Recorded \cup InFlight \cup torn /\ ~Unconfirmed(t, txns)
        BY <2>1, <2>2 DEF OnRecord, HasConfirmed, Unconfirmed
      <3> QED BY <1>1, <2>1, <3>1 DEF OwnOutputs
    <2> QED BY <2>1, <2>2 DEF OnRecord, OwnOutputs
  <1>2. ASSUME UNCHANGED <<utxos, stxos>>, InFlight \subseteq InFlight' PROVE OnRecord'
    BY <1>1, <1>2 DEF Recorded
  <1>3. ASSUME stack # <<>>, NEW f, SetTop(f) PROVE stack' # <<>> /\ Top' = f
    BY <1>3, StackFacts DEF Top
  <1>4. ASSUME stack # <<>>
        PROVE  n \in Nat \ {0} /\ Top = stack[n] /\ Top \in FrameSet /\ DyingCall(Top, txns)
    BY <1>4, TopTyped DEF Dying, DyingCalls
  <1>5. ASSUME NEW d \in doubles, MarkDouble(d) PROVE OnRecord'
    BY <1>2, <1>5 DEF MarkDouble, InFlight
  <1>6. ASSUME stack # <<>>, NEW w \in Top.rows, DeleteDeadStxo(w) PROVE OnRecord'
    <2> DEFINE f == [Top EXCEPT !.at = "height", !.rows = @ \ {w}, !.row = w]
    <2>1. SetTop(f) /\ Top.at = "rows" /\ utxos' = utxos /\ DOMAIN stxos' = DOMAIN stxos \ {w.op}
      BY <1>6 DEF DeleteDeadStxo, Walking, Delete
    <2>2. f.tx = Top.tx /\ f.at = "height" /\ f.row = w
      BY <1>4, <1>6 DEF FrameSet
    <2> HIDE DEF f
    <2>3. stack' # <<>> /\ Top' = f
      BY <1>3, <1>6, <2>1
    <2>4. w.spender = Top.tx => InFlight' = {w.op}
      BY <2>2, <2>3 DEF InFlight
    <2>5. w.spender # Top.tx => Unconfirmed(TxOf[w.op], txns)
      BY <1>4, <1>6 DEF DyingCall
    <2>6. InFlight = {}
      BY <2>1 DEF InFlight
    <2> QED BY <1>1, <2>1, <2>4, <2>5, <2>6 DEF Recorded
  <1>7. ASSUME stack # <<>>, NEW o \in Top.outs, DeleteDeadUtxo(o) PROVE OnRecord'
    <2>1. InFlight = {} /\ stxos' = stxos /\ DOMAIN utxos' = DOMAIN utxos \ {o}
      BY <1>7 DEF DeleteDeadUtxo, Walking, InFlight, Delete
    <2>2. Unconfirmed(TxOf[o], txns)
      BY <1>4, <1>7 DEF DyingCall
    <2> QED BY <1>1, <2>1, <2>2 DEF Recorded
  <1>8. CASE MarkSpender
    <2> DEFINE h == [Top EXCEPT !.at = "put"]
    <2>1. stack # <<>> /\ UNCHANGED <<utxos, stxos>>
      BY <1>8 DEF MarkSpender, Walking
    <2>2. h.at = "put" /\ h.row = Top.row /\ Top.at = "height"
      BY <1>4, <1>8, <2>1 DEF FrameSet, MarkSpender, Walking
    <2>3. CASE Top.row.spender = Top.tx
      <3>1. SetTop(h)
        BY <1>8, <2>3 DEF MarkSpender
      <3> HIDE DEF h
      <3>2. stack' # <<>> /\ Top' = h
        BY <1>3, <2>1, <3>1
      <3>3. InFlight = {Top.row.op}
        BY <2>1, <2>2, <2>3 DEF InFlight
      <3>4. InFlight' = {Top.row.op}
        BY <2>2, <3>2 DEF InFlight
      <3> QED BY <1>2, <2>1, <3>3, <3>4
    <2>4. CASE Top.row.spender # Top.tx
      BY <1>2, <2>1, <2>2, <2>4 DEF InFlight
    <2> QED BY <2>3, <2>4
  <1>9. CASE SpenderMissing
    <2>1. stack # <<>> /\ UNCHANGED <<utxos, stxos>>
          /\ Top.row.spender \notin DOMAIN txns /\ Top.at = "height"
      BY <1>9 DEF SpenderMissing, Walking
    <2>2. Top.tx \in DOMAIN txns
      BY <1>4, <2>1 DEF DyingCall, Unconfirmed
    <2>3. InFlight = {}
      BY <2>1, <2>2 DEF InFlight
    <2> QED BY <1>2, <2>1, <2>3
  <1>10. CASE PutBack
    <2>1. stxos' = stxos /\ utxos' = Put(utxos, Single(Top.row.op, Top.row.utxo))
      BY <1>10 DEF PutBack
    <2>2. DOMAIN utxos' = DOMAIN utxos \cup {Top.row.op}
      BY <2>1 DEF Put, Single
    <2>3. InFlight \subseteq {Top.row.op}
      BY DEF InFlight
    <2> QED BY <1>1, <2>1, <2>2, <2>3 DEF Recorded
  <1>11. CASE RowsDone \/ MarkReturns \/ DoublesDone
    <2>1. UNCHANGED <<utxos, stxos>>
      BY <1>11 DEF RowsDone, MarkReturns, DoublesDone, db, buckets
    <2>2. InFlight = {}
      BY <1>11 DEF InFlight, RowsDone, MarkReturns, DoublesDone, Walking
    <2> QED BY <1>2, <2>1, <2>2
  <1> QED BY <1>5, <1>6, <1>7, <1>8, <1>9, <1>10, <1>11 DEF MarkAsDeadStep

LEMMA RecordStep ==
    ASSUME TypeOK, CoinInv, Next
    PROVE  OnRecord'
  <1> USE DEF CoinInv
  <1>0. ASSUME UNCHANGED txns, Recorded \subseteq Recorded', InFlight \cup torn \subseteq torn',
               pc' \in {"inputs", "heights", "commit"} =>
                 pc \in {"inputs", "heights", "commit"} /\ tx' = tx
        PROVE  OnRecord'
    BY <1>0 DEF OnRecord, HasConfirmed, OwnOutputs
  <1>1. ASSUME UNCHANGED <<txns, torn, stack>>, Recorded \subseteq Recorded',
               pc' \in {"inputs", "heights", "commit"} =>
                 pc \in {"inputs", "heights", "commit"} /\ tx' = tx
        PROVE  OnRecord'
    <2>1. InFlight' = InFlight
      BY <1>1 DEF InFlight, Top
    <2> QED BY <1>1, <2>1 DEF OnRecord, HasConfirmed, OwnOutputs
  <1>2. CASE \E t \in Tx : Broadcast(t) \/ Evict(t) \/ Mine(t)
    BY <1>1, <1>2 DEF Broadcast, Evict, Mine, db, buckets, call, walk, Recorded
  <1>3. CASE (\E k \in Keys : GetHistory(k)) \/ HistoryDone
    BY <1>1, <1>3 DEF GetHistory, HistoryDone, db, buckets, call, walk, Recorded
  <1>4. CASE \E e \in todo : SkipConfirmed(e) \/ FetchFails(e) \/ AddTransactionReturns(e)
    BY <1>1, <1>4 DEF SkipConfirmed, FetchFails, AddTransactionReturns, db, buckets, call, walk,
                      Recorded
  <1>5. ASSUME NEW e \in todo, AddTransaction(e) PROVE OnRecord'
    <2>1. PICK D \in SUBSET Tx :
                 /\ DOMAIN utxos' = (DOMAIN utxos \cup DeadSpends(D)) \ DeadOutputs(D)
                 /\ stxos' = Delete(stxos, DeadSpends(D))
                 /\ txns' = [t \in DOMAIN txns |-> IF t \in D THEN -1 ELSE txns[t]]
      BY <1>5, MarkedFacts
    <2>2. \A t \in Tx : HasConfirmed(t)' => HasConfirmed(t) /\ t \notin D
      BY <2>1 DEF HasConfirmed
    <2>3. DOMAIN stxos' = DOMAIN stxos \ DeadSpends(D)
      BY <2>1 DEF Delete
    <2>4. Recorded \ DeadOutputs(D) \subseteq Recorded'
      BY <2>1, <2>3 DEF Recorded
    <2>0. UNCHANGED <<torn, stack>> /\ InFlight = {}
      BY <1>5 DEF AddTransaction, Begins, walk, InFlight, TypeOK, WalkOK
    <2>5. ASSUME NEW t \in Tx, HasConfirmed(t)' PROVE OwnOutputs(t) \subseteq Recorded' \cup torn'
      <3>1. OwnOutputs(t) \subseteq Recorded \cup torn
        BY <2>0, <2>2, <2>5 DEF OnRecord
      <3>2. OwnOutputs(t) \cap DeadOutputs(D) = {}
        BY <2>2, <2>5 DEF OwnOutputs, DeadOutputs
      <3> QED BY <2>0, <2>4, <3>1, <3>2
    <2>6. pc' = "outputs"
      BY <1>5 DEF AddTransaction
    <2> QED BY <2>5, <2>6 DEF OnRecord, OwnOutputs
  <1>13. ASSUME NEW e \in todo, AddTransactionSteps(e) PROVE OnRecord'
    <2>1. stack = <<>> /\ pc' = "dead" /\ UNCHANGED <<utxos, stxos, txns, torn>>
      BY <1>13 DEF AddTransactionSteps, Begins, TypeOK, WalkOK
    <2>2. InFlight = {}
      BY <2>1 DEF InFlight
    <2> QED BY <2>1, <2>2 DEF OnRecord, HasConfirmed, OwnOutputs, Recorded
  <1>6. CASE PutOutputs
    <2>1. DOMAIN utxos' = DOMAIN utxos \cup Ours /\ UNCHANGED <<stxos, txns, tx, torn, stack>>
      BY <1>6 DEF PutOutputs, Put, walk
    <2>6. InFlight' = InFlight
      BY <2>1 DEF InFlight, Top
    <2>2. tx \in seen /\ adrs = nkeys
      BY <1>6 DEF PutOutputs, Calling, KnownKeys, AdrsCurrent
    <2>3. \A o \in Op : Owner[o] # NotOurs => Owner[o] \in Nat
      BY ConstantsAssumption
    <2>4. OwnOutputs(tx) \subseteq Ours
      BY <2>2, <2>3 DEF KnownKeys, OwnOutputs, Ours, TypeOK, KeysOK
    <2>5. \A t \in Tx : HasConfirmed(t)' <=> HasConfirmed(t)
      BY <2>1 DEF HasConfirmed
    <2> QED BY <2>1, <2>4, <2>5, <2>6 DEF OnRecord, OwnOutputs, Recorded
  <1>7. CASE SpendInputs
    <2>1. Recorded \subseteq Recorded'
      BY <1>7 DEF SpendInputs, Put, Delete, Recorded
    <2> QED BY <1>1, <1>7, <2>1 DEF SpendInputs, walk
  <1>8. CASE UpdateSpendHeight
    <2>1. Recorded' = Recorded
      BY <1>8 DEF UpdateSpendHeight, Recorded
    <2> QED BY <1>1, <1>8, <2>1 DEF UpdateSpendHeight, walk
  <1>9. CASE PutTxn
    <2>1. \A t \in Tx : HasConfirmed(t)' => t = tx \/ HasConfirmed(t)
      BY <1>9 DEF PutTxn, HasConfirmed, Put, Single
    <2>2. Recorded' = Recorded /\ pc' = "next" /\ torn' = torn /\ InFlight = {}
      BY <1>9 DEF PutTxn, Recorded, InFlight, TypeOK, WalkOK
    <2>3. OwnOutputs(tx) \subseteq Recorded
      BY <1>9 DEF PutTxn, OnRecord
    <2> QED BY <2>1, <2>2, <2>3 DEF OnRecord, OwnOutputs
  <1>10. CASE \E o \in Op, b \in BOOLEAN : FreezeGet(o, b)
    BY <1>1, <1>10 DEF FreezeGet, db, buckets, job, call, walk, Recorded
  <1>11. CASE FreezePut
    <2>1. Recorded \subseteq Recorded'
      BY <1>11 DEF FreezePut, Put, Recorded
    <2> QED BY <1>1, <1>11, <2>1 DEF FreezePut, job, call, walk
  <1>12. CASE Restart \/ KilledInOutputs \/ KilledInInputs
    <2>1. Recorded \subseteq Recorded'
      <3>1. CASE Restart
        BY <3>1 DEF Restart, Recorded
      <3>2. CASE KilledInOutputs
        BY <3>2 DEF KilledInOutputs, Recorded, Put
      <3>3. CASE KilledInInputs
        BY <3>3 DEF KilledInInputs, Recorded, Put, Delete
      <3> QED BY <1>12, <3>1, <3>2, <3>3
    <2> QED BY <1>0, <1>12, <2>1, KillFacts
  <1>14. CASE MarkAsDeadStep
    BY <1>14, WalkRecords
  <1> QED BY <1>2, <1>3, <1>4, <1>5, <1>6, <1>7, <1>8, <1>9, <1>10, <1>11, <1>12,
             <1>13, <1>14
          DEF Next

LEMMA DyingStep ==
    ASSUME TypeOK, ChainAgrees, Dying, Next
    PROVE  Dying'
  <1>1. ASSUME UNCHANGED <<txns, stack, doubles>> PROVE Dying'
    BY <1>1 DEF Dying
  <1>2. ASSUME stack' = <<>>, doubles' = {} PROVE Dying'
    <2>1. Len(<<>>) = 0
      OBVIOUS
    <2> QED BY <1>2, <2>1 DEF Dying, DyingCalls
  <1>3. CASE \E t \in Tx : Broadcast(t) \/ Evict(t) \/ Mine(t)
    BY <1>1, <1>3 DEF Broadcast, Evict, Mine, db, buckets, call, walk
  <1>4. CASE \/ (\E k \in Keys : GetHistory(k)) \/ HistoryDone
             \/ \E e \in todo : SkipConfirmed(e) \/ FetchFails(e) \/ AddTransactionReturns(e)
    BY <1>1, <1>4 DEF GetHistory, HistoryDone, SkipConfirmed, FetchFails, AddTransactionReturns,
                      db, buckets, call, walk
  <1>5. ASSUME NEW e \in todo, AddTransaction(e) PROVE Dying'
    BY <1>2, <1>5, BeginsType DEF AddTransaction, walk, TypeOK, WalkOK, Begins
  <1>6. ASSUME NEW e \in todo, AddTransactionSteps(e) PROVE Dying'
    <2>1. doubles' = DoubleSpends(e.tx) /\ stack' = <<>> /\ txns' = txns
      BY <1>6 DEF AddTransactionSteps
    <2>2. ASSUME NEW d \in DoubleSpends(e.tx) PROVE Unconfirmed(d, txns)
      <3>1. d \in DOMAIN txns /\ Conflict(e.tx, d) /\ e.tx \in Heard
        BY DEF DoubleSpends, Heard
      <3> QED BY <3>1 DEF ChainAgrees, Sure, Unconfirmed
    <2>3. Len(<<>>) = 0
      OBVIOUS
    <2> QED BY <2>1, <2>2, <2>3 DEF Dying, DyingCalls
  <1>7. CASE PutOutputs \/ SpendInputs \/ UpdateSpendHeight
    BY <1>1, <1>7 DEF PutOutputs, SpendInputs, UpdateSpendHeight, walk
  <1>8. CASE PutTxn
    BY <1>2, <1>8 DEF PutTxn, NoCall
  <1>9. CASE (\E o \in Op, b \in BOOLEAN : FreezeGet(o, b)) \/ FreezePut
    BY <1>1, <1>9 DEF FreezeGet, FreezePut, db, buckets, job, call, walk
  <1>10. CASE Restart \/ KilledInOutputs \/ KilledInInputs
    BY <1>2, <1>10, KillFacts
  <1>11. CASE MarkAsDeadStep
    BY <1>11, WalkDies
  <1> QED BY <1>3, <1>4, <1>5, <1>6, <1>7, <1>8, <1>9, <1>10, <1>11 DEF Next

LEMMA CoinsHold ==
    ASSUME SoleWallet
    PROVE  (Init => CoinInv) /\ (TypeOK /\ CoinInv /\ [Next]_vars => CoinInv')
  <1>1. Init => CoinInv
    <2> SUFFICES ASSUME Init PROVE CoinInv
      OBVIOUS
    <2>1. KnownKeys /\ OnRecord
      BY DEF Init, None, KnownKeys, OnRecord, HasConfirmed, Calling
    <2>2. AdrsCurrent
      BY ConstantsAssumption, FS_EmptySet DEF Init, AdrsCurrent
    <2>3. ChainAgrees
      BY DEF Init, None, ChainAgrees, Heard, Sure, Calling
    <2>4. Dying
      <3>1. Len(<<>>) = 0
        OBVIOUS
      <3> QED BY <3>1 DEF Init, Dying, DyingCalls
    <2> QED BY <2>1, <2>2, <2>3, <2>4 DEF CoinInv
  <1>2. TypeOK /\ CoinInv /\ [Next]_vars => CoinInv'
    <2>1. ASSUME CoinInv, UNCHANGED vars PROVE CoinInv'
      <3>1. UNCHANGED <<net, seen, utxos, stxos, txns, nkeys, used, torn, adrs, pc, todo, tx,
                        height, hits, doubles, stack>>
        BY <2>1 DEF vars, server, db, buckets, cache, job, call, walk
      <3>2. KnownKeys' /\ AdrsCurrent'
        BY <2>1, <3>1 DEF CoinInv, KnownKeys, AdrsCurrent, OwnOutputs, Calling
      <3>3. ChainAgrees'
        BY <2>1, <3>1 DEF CoinInv, ChainAgrees, Heard, Sure, Mined, Calling
      <3>4. Dying' /\ OnRecord'
        <4>1. InFlight' = InFlight
          BY <3>1 DEF InFlight, Top
        <4> QED BY <2>1, <3>1, <4>1 DEF CoinInv, Dying, OnRecord, HasConfirmed, OwnOutputs, Recorded
      <3> QED BY <3>2, <3>3, <3>4 DEF CoinInv
    <2>2. ASSUME TypeOK, CoinInv, Next PROVE CoinInv'
      BY <2>2, KnownKeysStep, AdrsStep, ChainStep, DyingStep, RecordStep DEF CoinInv
    <2> QED BY <2>1, <2>2
  <1> QED BY <1>1, <1>2

\* When no other copy of the seed is in use, no output of a transaction stored as
\* confirmed is lost: not to the lookahead window, not to a double spend, and not to a
\* kill between two writes, but for the one coin that a kill finds deleted as spent by a
\* dead transaction and not yet put back.
THEOREM CoinsAreKept == ASSUME SoleWallet PROVE Spec => []NoCoinLost
  <1>1. TypeOK /\ CoinInv => NoCoinLost
    <2> SUFFICES ASSUME TypeOK, CoinInv, Idle, NEW o \in Op,
                        Owner[o] \in 0..(nkeys - 1), HasConfirmed(TxOf[o])
                 PROVE  o \in Recorded \cup torn
      BY DEF NoCoinLost, Recorded
    <2>1. TxOf[o] \in Tx
      BY DEF HasConfirmed, TypeOK, TxnsOK
    <2>2. o \in OwnOutputs(TxOf[o])
      BY DEF OwnOutputs, NotOurs, TypeOK, KeysOK
    <2>3. InFlight = {}
      BY DEF Idle, InFlight, TypeOK, WalkOK
    <2> QED BY <2>1, <2>2, <2>3 DEF CoinInv, OnRecord
  <1> QED BY <1>1, CoinsHold, TypeCorrect, PTL DEF Spec

-----------------------------------------------------------------------------
(* Frozen coins. *)

\* No transaction is a double spend of another; no coin that is unspent is also spent,
\* or in markAsDead's hands, as one is after a Freeze whose get came before the coin was
\* spent and its put after, or after a kill between the two writes of a spend.
NoDoubles == \A t, u \in Tx : ~Conflict(t, u)
OneBucket == DOMAIN utxos \cap (DOMAIN stxos \cup InFlight) = {}

\* AddTransaction puts the outputs of nothing that is stored as confirmed, and what
\* Freeze or UnFreeze is about to write has the mark it was called for.  Without double
\* spends markAsDead is not called.
ThawInv ==
    /\ pc \in {"dead", "outputs"} => ~HasConfirmed(tx)
    /\ freeze # NoFreeze => freeze[3].frozen = freeze[2]
    /\ NoDoubles => doubles = {} /\ stack = <<>>

LEMMA NoDoublesWalk ==
    ASSUME doubles = {}, stack = <<>>, MarkAsDeadStep
    PROVE  doubles' = {} /\ stack' = <<>>
  BY DEF MarkAsDeadStep, MarkSpender, SpenderMissing, PutBack, RowsDone, MarkReturns,
         DoublesDone, Walking

LEMMA ThawInvStep ==
    ASSUME TypeOK, ThawInv, [Next]_vars
    PROVE  ThawInv'
  <1>1. ASSUME UNCHANGED <<txns, freeze, doubles, stack>>,
               pc' \in {"dead", "outputs"} => pc \in {"dead", "outputs"} /\ tx' = tx
        PROVE  ThawInv'
    BY <1>1 DEF ThawInv, HasConfirmed, NoFreeze, NoDoubles, Conflict
  <1>2. CASE \E t \in Tx : Broadcast(t) \/ Evict(t) \/ Mine(t)
    BY <1>1, <1>2 DEF Broadcast, Evict, Mine, db, buckets, call, walk, user
  <1>3. CASE (\E k \in Keys : GetHistory(k)) \/ HistoryDone
    BY <1>1, <1>3 DEF GetHistory, HistoryDone, db, buckets, call, walk, user
  <1>4. CASE \E e \in todo : SkipConfirmed(e) \/ FetchFails(e) \/ AddTransactionReturns(e)
    BY <1>1, <1>4 DEF SkipConfirmed, FetchFails, AddTransactionReturns, db, buckets, call,
                      walk, user
  <1>5. ASSUME NEW e \in todo, AddTransaction(e) PROVE ThawInv'
    <2>1. PICK D \in SUBSET Tx : txns' = [t \in DOMAIN txns |-> IF t \in D THEN -1 ELSE txns[t]]
      BY <1>5, MarkedFacts
    <2>2. ~HasConfirmed(e.tx) /\ tx' = e.tx /\ UNCHANGED <<freeze, doubles, stack>>
      BY <1>5 DEF AddTransaction, Begins, user, walk
    <2> QED BY <2>1, <2>2 DEF ThawInv, HasConfirmed, NoFreeze, NoDoubles, Conflict
  <1>12. ASSUME NEW e \in todo, AddTransactionSteps(e) PROVE ThawInv'
    <2>1. ~HasConfirmed(e.tx) /\ tx' = e.tx /\ UNCHANGED <<freeze, txns>>
          /\ stack' = <<>> /\ doubles' = DoubleSpends(e.tx) /\ e.tx \in Tx
      BY <1>12 DEF AddTransactionSteps, Begins, user, TypeOK, JobOK
    <2>2. NoDoubles => DoubleSpends(e.tx) = {}
      BY <2>1 DEF NoDoubles, DoubleSpends, TypeOK, TxnsOK
    <2> QED BY <2>1, <2>2 DEF ThawInv, HasConfirmed, NoFreeze, NoDoubles, Conflict
  <1>13. CASE MarkAsDeadStep
    <2>1. UNCHANGED <<tx, freeze>> /\ pc = "dead" /\ (HasConfirmed(tx)' => HasConfirmed(tx))
      BY <1>13, WalkFacts DEF user, HasConfirmed
    <2>2. NoDoubles => doubles' = {} /\ stack' = <<>>
      BY <1>13, NoDoublesWalk DEF ThawInv
    <2> QED BY <2>1, <2>2 DEF ThawInv, NoFreeze, NoDoubles, Conflict
  <1>6. CASE PutOutputs \/ SpendInputs \/ UpdateSpendHeight
    BY <1>1, <1>6 DEF PutOutputs, SpendInputs, UpdateSpendHeight, user, walk
  <1>7. CASE PutTxn
    BY <1>7 DEF PutTxn, NoCall, ThawInv, user, NoFreeze
  <1>8. ASSUME NEW o \in Op, NEW b \in BOOLEAN, FreezeGet(o, b) PROVE ThawInv'
    <2>1. utxos[o] \in Utxo
      BY <1>8 DEF FreezeGet, TypeOK, UtxosOK
    <2>2. Refrozen(o, b).frozen = b
      BY <2>1 DEF Refrozen, Utxo
    <2>3. freeze'[3].frozen = freeze'[2]
      BY <1>8, <2>2 DEF FreezeGet
    <2> QED BY <1>8, <2>3 DEF FreezeGet, ThawInv, HasConfirmed, db, buckets, job, call, walk,
                             NoDoubles, Conflict
  <1>9. CASE FreezePut
    BY <1>9 DEF FreezePut, ThawInv, HasConfirmed, job, call, walk, NoDoubles, Conflict
  <1>10. CASE Restart \/ KilledInOutputs \/ KilledInInputs
    BY <1>10, KillFacts DEF ThawInv
  <1>11. CASE UNCHANGED vars
    BY <1>1, <1>11 DEF vars, db, buckets, job, call, walk, user
  <1> QED BY <1>2, <1>3, <1>4, <1>5, <1>6, <1>7, <1>8, <1>9, <1>10, <1>11, <1>12, <1>13 DEF Next

\* Without double spends nothing is marked as dead.
LEMMA NothingDies ==
    ASSUME TypeOK, NoDoubles, NEW t \in Tx
    PROVE  Dead(DoubleSpends(t)) = {}
  <1>1. DoubleSpends(t) = {}
    BY DEF NoDoubles, DoubleSpends, TypeOK, TxnsOK
  <1>2. Closed({}) /\ {} \in SUBSET Tx
    BY DEF Closed
  <1> QED BY <1>1, <1>2 DEF Dead

\* What any step does to a coin that stays in the utxo bucket: it keeps its record,
\* AddTransaction puts it anew, or the user's call does.
LEMMA CoinStep ==
    ASSUME TypeOK, ThawInv, NoDoubles \/ OneBucket, [Next]_vars,
           NEW o \in DOMAIN utxos \cap DOMAIN utxos'
    PROVE  \/ utxos'[o] = utxos[o]
           \/ pc = "outputs" /\ TxOf[o] = tx
           \/ FreezePut /\ o = freeze[1] /\ utxos'[o] = freeze[3]
  <1>1. CASE \E t \in Tx : Broadcast(t) \/ Evict(t) \/ Mine(t)
    BY <1>1 DEF Broadcast, Evict, Mine, db, buckets
  <1>2. CASE \/ (\E k \in Keys : GetHistory(k)) \/ HistoryDone
             \/ \E e \in todo : SkipConfirmed(e) \/ FetchFails(e) \/ AddTransactionReturns(e)
    BY <1>2 DEF GetHistory, HistoryDone, SkipConfirmed, FetchFails, AddTransactionReturns, db, buckets
  <1>3. ASSUME NEW e \in todo, AddTransaction(e) PROVE utxos'[o] = utxos[o]
    <2> DEFINE D == Dead(DoubleSpends(e.tx))
    <2>1. MarkAsDead(D)
      BY <1>3 DEF AddTransaction
    <2>2. o \notin DeadSpends(D)
      <3>1. CASE NoDoubles
        <4>1. e.tx \in Tx
          BY DEF TypeOK, JobOK
        <4> QED BY <3>1, <4>1, NothingDies DEF DeadSpends
      <3>2. CASE OneBucket
        BY <3>2 DEF OneBucket, DeadSpends
      <3> QED BY <3>1, <3>2
    <2> HIDE DEF D
    <2> QED BY <2>1, <2>2 DEF MarkAsDead, UtxosAfterDeath, Put, Delete
  <1>10. CASE \E e \in todo : AddTransactionSteps(e)
    BY <1>10 DEF AddTransactionSteps
  <1>11. CASE MarkAsDeadStep
    <2>1. CASE NoDoubles
      BY <1>11, <2>1 DEF ThawInv, MarkAsDeadStep, MarkSpender, SpenderMissing, PutBack, RowsDone,
                         MarkReturns, DoublesDone, Walking, db, buckets
    <2>2. CASE OneBucket
      <3>1. CASE PutBack
        <4>1. utxos' = Put(utxos, Single(Top.row.op, Top.row.utxo)) /\ InFlight = {Top.row.op}
          BY <3>1 DEF PutBack, InFlight, Walking
        <4>2. o # Top.row.op
          BY <2>2, <4>1 DEF OneBucket
        <4> QED BY <4>1, <4>2 DEF Put, Single
      <3>2. CASE stack # <<>> /\ \E u \in Top.outs : DeleteDeadUtxo(u)
        BY <3>2 DEF DeleteDeadUtxo, Delete
      <3>3. CASE ~PutBack /\ ~(stack # <<>> /\ \E u \in Top.outs : DeleteDeadUtxo(u))
        BY <1>11, <3>3 DEF MarkAsDeadStep, MarkDouble, DeleteDeadStxo, MarkSpender, SpenderMissing,
                           RowsDone, MarkReturns, DoublesDone, db, buckets
      <3> QED BY <3>1, <3>2, <3>3
    <2> QED BY <2>1, <2>2
  <1>4. CASE PutOutputs
    <2>1. CASE o \in Ours
      BY <1>4, <2>1 DEF Ours, PutOutputs
    <2>2. CASE o \notin Ours
      BY <1>4, <2>2 DEF PutOutputs, Put
    <2> QED BY <2>1, <2>2
  <1>5. CASE SpendInputs
    BY <1>5 DEF SpendInputs, Delete
  <1>6. CASE UpdateSpendHeight \/ PutTxn \/ Restart
    BY <1>6 DEF UpdateSpendHeight, PutTxn, Restart
  <1>12. CASE KilledInOutputs
    <2>1. PICK done \in SUBSET Ours :
                 utxos' = Put(utxos, [u \in done |-> [height |-> height, frozen |-> FALSE]])
      BY <1>12 DEF KilledInOutputs
    <2>2. CASE o \in done
      BY <1>12, <2>2 DEF Ours, KilledInOutputs
    <2>3. CASE o \notin done
      BY <2>1, <2>3 DEF Put
    <2> QED BY <2>2, <2>3
  <1>13. CASE KilledInInputs
    BY <1>13 DEF KilledInInputs, Delete
  <1>7. CASE \E u \in Op, b \in BOOLEAN : FreezeGet(u, b)
    BY <1>7 DEF FreezeGet, db, buckets
  <1>8. CASE FreezePut
    BY <1>8 DEF FreezePut, Put, Single
  <1>9. CASE UNCHANGED vars
    BY <1>9 DEF vars, db, buckets
  <1> QED BY <1>1, <1>2, <1>3, <1>4, <1>5, <1>6, <1>7, <1>8, <1>9, <1>10, <1>11,
             <1>12, <1>13
          DEF Next

\* A frozen coin of a transaction stored as confirmed stays frozen until UnFreezeUTXO
\* is called for it: for any histories, with kills between any two writes, as long as
\* no double spend is about or no coin is both unspent and spent.  (With both, markAsDead
\* writes the record of the spent coin over the frozen one.)
THEOREM OnlyUserThaws == Spec /\ [](NoDoubles \/ OneBucket) => ThawedByUser
  <1>1. Init => ThawInv
    BY DEF Init, ThawInv
  <1>2. TypeOK /\ ThawInv /\ [Next]_vars => ThawInv'
    BY ThawInvStep
  <1>3. TypeOK /\ ThawInv /\ (NoDoubles \/ OneBucket) /\ [Next]_vars =>
          [\A o \in DOMAIN utxos \cap DOMAIN utxos' :
             utxos[o].frozen /\ TxOf[o] \in DOMAIN txns /\ txns[TxOf[o]] > 0
               => utxos'[o].frozen \/ (freeze # NoFreeze /\ freeze[1] = o /\ ~freeze[2])]_vars
    <2> SUFFICES ASSUME TypeOK, ThawInv, NoDoubles \/ OneBucket, [Next]_vars,
                        NEW o \in DOMAIN utxos \cap DOMAIN utxos',
                        utxos[o].frozen, HasConfirmed(TxOf[o])
                 PROVE  utxos'[o].frozen \/ (freeze # NoFreeze /\ freeze[1] = o /\ ~freeze[2])
      BY DEF HasConfirmed
    <2>1. CASE utxos'[o] = utxos[o]
      BY <2>1
    <2>2. CASE pc = "outputs" /\ TxOf[o] = tx
      BY <2>2 DEF ThawInv
    <2>3. CASE FreezePut /\ o = freeze[1] /\ utxos'[o] = freeze[3]
      <3>1. freeze # NoFreeze /\ freeze[3].frozen = freeze[2]
        BY <2>3 DEF FreezePut, ThawInv
      <3> QED BY <2>3, <3>1
    <2> QED BY <2>1, <2>2, <2>3, CoinStep
  <1> QED BY <1>1, <1>2, <1>3, TypeCorrect, PTL DEF Spec, ThawedByUser

-----------------------------------------------------------------------------
(* The balance. *)

\* What the server has is free of conflicts, and whatever was in its mempool spends
\* mined outputs.
Chain ==
    /\ \A t \in seen : Parents(t) \subseteq Mined \ {t}
    /\ \A t, u \in DOMAIN net : ~Conflict(t, u)

\* A height, once known, is where the transaction was mined: in the entries of a
\* history, the call under way, the transactions stored, and in both buckets, which
\* hold outputs of the wallet, spent ones with the height they had.
TrueHeight(t, h) == h > 0 => t \in Mined /\ net[t] = h

TrueHeights ==
    /\ \A e \in todo : e.height >= 0 /\ TrueHeight(e.tx, e.height)
    /\ pc \in Calling => height >= 0 /\ TrueHeight(tx, height) /\ ~HasConfirmed(tx)
    /\ \A t \in DOMAIN txns : t \in seen /\ TrueHeight(t, txns[t])
    /\ \A t \in DOMAIN txids : txids[t] > 0 => HasConfirmed(t)

OurCoins ==
    \A o \in DOMAIN utxos :
      Owner[o] # NotOurs /\ TxOf[o] \in seen /\ TrueHeight(TxOf[o], utxos[o].height)

OurSpent ==
    \A o \in DOMAIN stxos :
      /\ Owner[o] # NotOurs /\ o \in Ins[stxos[o].spender] /\ stxos[o].spender \in seen
      /\ stxos[o].utxo.height > 0 /\ TrueHeight(TxOf[o], stxos[o].utxo.height)
      /\ TrueHeight(stxos[o].spender, stxos[o].spendHeight)

\* Coins of a transaction have a height exactly if it is stored as confirmed, or the
\* call that will store it so has put its outputs.  Only such coins are ever spent.
InCall(t) == pc \in {"inputs", "heights", "commit"} /\ tx = t /\ height > 0
Kept(t) == HasConfirmed(t) \/ InCall(t)

HeightKept == \A o \in DOMAIN utxos : utxos[o].height > 0 <=> Kept(TxOf[o])

SpentKept ==
    \A u \in seen : \A o \in Ins[u] :
      Owner[o] # NotOurs => o \in Recorded /\ Kept(TxOf[o])

\* A coin is of a live transaction, a spent one was spent by a live transaction, or
\* by the call under way, which will be stored; and what these spend is not a coin.
Living ==
    /\ \A o \in DOMAIN utxos :
         Alive(TxOf[o]) \/ (pc \in {"inputs", "heights", "commit"} /\ tx = TxOf[o] /\ hits)
    /\ \A o \in DOMAIN stxos :
         Alive(stxos[o].spender) \/ (pc \in {"heights", "commit"} /\ tx = stxos[o].spender /\ hits)

SpentAway ==
    /\ \A m \in DOMAIN txns : Alive(m) => Ins[m] \cap DOMAIN utxos = {}
    /\ pc \in {"heights", "commit"} => Ins[tx] \cap DOMAIN utxos = {}

\* A call for a mined transaction of the wallet is a hit in the end.
OwnInputs(t) == {o \in Ins[t] : Owner[o] # NotOurs}

Hit ==
    /\ pc \in {"inputs", "heights", "commit"} /\ OwnOutputs(tx) # {} => hits
    /\ pc \in {"heights", "commit"} /\ height > 0 /\ OwnInputs(tx) # {} =>
         hits \/ (pc = "heights" /\ \E o \in DOMAIN stxos : stxos[o].spender = tx)

\* What was mined for a key whose history has been worked through is stored as
\* confirmed; while it is worked through, what is not stored is still to come.
Done ==
    /\ \A k \in fresh : \A t \in Mined : Touches(t, k) => HasConfirmed(t)
    /\ pc # "idle" /\ valid => \A t \in Mined : Touches(t, key) =>
         \/ HasConfirmed(t)
         \/ [tx |-> t, height |-> net[t]] \in todo
         \/ pc \in Calling /\ tx = t /\ height = net[t]

\* No call of markAsDead is under way, and none has failed.
Quiet == stack = <<>> /\ doubles = {} /\ gaveUp = {} /\ torn = {}

LiveInv ==
    /\ freeze = NoFreeze
    /\ Chain /\ TrueHeights /\ OurCoins /\ OurSpent /\ HeightKept /\ SpentKept
    /\ Living /\ SpentAway /\ Hit /\ Done

AllInv == TypeOK /\ ConflictInv /\ CoinInv /\ Quiet /\ LiveInv

\* A transaction that is mined changes the histories of the keys it touches.
LEMMA MinedShows ==
    ASSUME TypeOK, NEW t \in Tx, Broadcast(t) \/ Evict(t) \/ Mine(t),
           NEW u \in Mined', u \notin Mined, NEW k \in Keys, Touches(u, k)
    PROVE  /\ k \notin fresh'
           /\ key = k => ~valid'
  <1>1. Restatus /\ key' = key
    BY DEF Broadcast, Evict, Mine
  <1>2. Mine(t) /\ u = t
    <2>1. CASE Broadcast(t)
      BY <2>1 DEF Broadcast, Put, Single, Mined
    <2>2. CASE Evict(t)
      BY <2>2 DEF Evict, Delete, Mined
    <2>3. CASE Mine(t)
      BY <2>3 DEF Mine, Mined
    <2> QED BY <2>1, <2>2, <2>3
  <1>3. DOMAIN net' = DOMAIN net /\ t \in DOMAIN net /\ net'[t] > 0 /\ ~(net[t] > 0)
    BY <1>2 DEF Mine, Mined
  <1>4. net[t] \in Nat /\ net'[t] \in Int
    <2>1. TypeOK'
      BY ServerType
    <2> QED BY <1>3, <2>1 DEF TypeOK, ServerOK
  <1>5. Listed(t)' = net'[t] /\ Listed(t) \in {0, -1}
    BY <1>3, <1>4 DEF Listed
  <1> DEFINE entry == [tx |-> t, height |-> net'[t]]
  <1>6. entry \in History(k)'
    BY <1>2, <1>3, <1>5 DEF History, Touches
  <1>7. entry \notin History(k)
    <2> SUFFICES ASSUME NEW v \in DOMAIN net, entry = [tx |-> v, height |-> Listed(v)]
                 PROVE  FALSE
      BY DEF History
    <2>1. v = t /\ Listed(v) = net'[t]
      OBVIOUS
    <2> QED BY <2>1, <1>3, <1>4, <1>5
  <1>8. History(k)' # History(k)
    BY <1>6, <1>7
  <1> QED BY <1>1, <1>8 DEF Restatus

LEMMA LiveServer ==
    ASSUME AllInv, Undisturbed, NEW t \in Tx, Broadcast(t) \/ Evict(t) \/ Mine(t)
    PROVE  LiveInv'
  <1> USE DEF AllInv, LiveInv
  <1>0. TypeOK
    OBVIOUS
  <1>1. /\ seen \subseteq seen' /\ Mined \subseteq Mined'
        /\ \A u \in Mined : net'[u] = net[u]
        /\ UNCHANGED <<utxos, stxos, txns, txids, pc, key, todo, tx, height, hits, freeze>>
        /\ fresh' \subseteq fresh /\ (valid' => valid)
    BY <1>0, ServerMoves
  <1>2. Chain'
    <2>1. CASE Broadcast(t)
      <3>1. DOMAIN net' = DOMAIN net \cup {t} /\ seen' = seen \cup {t} /\ t \notin DOMAIN net
        BY <2>1 DEF Broadcast, Put, Single
      <3>2. Parents(t) \subseteq Mined \ {t}
        BY <2>1 DEF Broadcast, Undisturbed, Mined
      <3>3. \A u \in seen' : Parents(u) \subseteq Mined' \ {u}
        BY <1>1, <3>1, <3>2 DEF Chain, Parents
      <3>4. \A u \in DOMAIN net : ~Conflict(t, u) /\ ~Conflict(u, t) /\ ~Conflict(t, t)
        BY <2>1 DEF Broadcast, Conflict
      <3> QED BY <3>1, <3>3, <3>4 DEF Chain, Parents, Conflict
    <2>2. CASE Evict(t) \/ Mine(t)
      <3>1. DOMAIN net' \subseteq DOMAIN net /\ seen' = seen
        BY <2>2 DEF Evict, Mine, Delete
      <3> QED BY <1>1, <3>1 DEF Chain, Parents, Conflict
    <2> QED BY <2>1, <2>2
  <1>3. \A u, h : TrueHeight(u, h) => (h > 0 => u \in Mined' /\ net'[u] = h)
    BY <1>1 DEF TrueHeight
  <1>4. TrueHeights'
    BY <1>1, <1>3 DEF TrueHeights, TrueHeight, HasConfirmed, Calling
  <1>5. OurCoins' /\ OurSpent'
    BY <1>1, <1>3 DEF OurCoins, OurSpent, TrueHeight
  <1>6. HeightKept' /\ Living' /\ SpentAway' /\ Hit'
    BY <1>1 DEF HeightKept, Kept, HasConfirmed, InCall, Living, Alive, SpentAway, Hit
  <1>7. SpentKept'
    <2>1. \A u : Kept(u)' <=> Kept(u)
      BY <1>1 DEF Kept, HasConfirmed, InCall
    <2>2. ASSUME Broadcast(t), NEW o \in Ins[t], Owner[o] # NotOurs
          PROVE  o \in Recorded /\ Kept(TxOf[o])
      BY <2>2 DEF Broadcast, Undisturbed, Plausible, Spendable, HeightKept, Recorded
    <2>3. seen' = seen \/ (Broadcast(t) /\ seen' = seen \cup {t})
      BY DEF Broadcast, Evict, Mine
    <2>4. Recorded' = Recorded
      BY <1>1 DEF Recorded
    <2> QED BY <2>1, <2>2, <2>3, <2>4 DEF SpentKept
  <1>8. Done'
    <2>1. ASSUME NEW k \in fresh', NEW u \in Mined', Touches(u, k) PROVE HasConfirmed(u)'
      <3>1. k \in Keys
        BY <1>1 DEF TypeOK, JobOK
      <3>2. u \in Mined
        BY <1>0, <2>1, <3>1, MinedShows
      <3> QED BY <1>1, <2>1, <3>2 DEF Done, HasConfirmed
    <2>2. ASSUME pc' # "idle", valid', NEW u \in Mined', Touches(u, key')
          PROVE  \/ HasConfirmed(u)'
                 \/ [tx |-> u, height |-> net'[u]] \in todo'
                 \/ pc' \in Calling /\ tx' = u /\ height' = net'[u]
      <3>1. key \in Keys
        BY <1>1, <2>2 DEF TypeOK, JobOK
      <3>2. u \in Mined
        BY <1>0, <1>1, <2>2, <3>1, MinedShows
      <3> QED BY <1>1, <2>2, <3>2 DEF Done, HasConfirmed
    <2> QED BY <2>1, <2>2 DEF Done, Touches, Calling
  <1> QED BY <1>1, <1>2, <1>4, <1>5, <1>6, <1>7, <1>8 DEF NoFreeze

\* Steps between the calls of AddTransaction: the entries of a history are those of
\* the server when it was fetched, and only unconfirmed ones are passed over.
LEMMA LiveQueue ==
    ASSUME AllInv, Undisturbed,
           \/ \E k \in Keys : GetHistory(k)
           \/ \E e \in todo : SkipConfirmed(e) \/ FetchFails(e) \/ AddTransactionReturns(e)
           \/ HistoryDone \/ Restart
    PROVE  LiveInv'
  <1> USE DEF AllInv, LiveInv
  <1>1. UNCHANGED <<net, seen, utxos, stxos, txns>> /\ pc \in {"idle", "next"}
    BY KillFacts DEF GetHistory, SkipConfirmed, FetchFails, AddTransactionReturns, HistoryDone,
                     Restart, server, db, buckets, Idle, Undisturbed
  <1>2. pc' \in {"idle", "next"} /\ freeze' = NoFreeze
    BY KillFacts DEF GetHistory, SkipConfirmed, FetchFails, AddTransactionReturns, HistoryDone,
                     user, Idle, NoFreeze
  <1>3. Mined' = Mined
    BY <1>1 DEF Mined
  <1>4. Chain' /\ OurCoins' /\ OurSpent'
    BY <1>1, <1>3 DEF Chain, Parents, Conflict, OurCoins, OurSpent, TrueHeight
  <1>5. \A u : (Kept(u)' <=> Kept(u)) /\ (HasConfirmed(u)' <=> HasConfirmed(u))
    BY <1>1, <1>2 DEF Kept, HasConfirmed, InCall
  <1>6. HeightKept' /\ SpentKept'
    BY <1>1, <1>5 DEF HeightKept, SpentKept, Recorded
  <1>7. Living' /\ SpentAway' /\ Hit'
    BY <1>1, <1>2 DEF Living, SpentAway, Hit, Alive
  <1>8. TrueHeights'
    <2>1. \A e \in todo' : e.height >= 0 /\ TrueHeight(e.tx, e.height)
      <3>1. ASSUME NEW k \in Keys, GetHistory(k), NEW e \in todo'
            PROVE  e.height >= 0 /\ TrueHeight(e.tx, e.height)
        <4>1. PICK u \in DOMAIN net : e = [tx |-> u, height |-> Listed(u)]
          BY <3>1 DEF GetHistory, History
        <4>2. Parents(u) \subseteq Mined
          BY DEF Chain, CoinInv, KnownKeys
        <4>3. Listed(u) = net[u] /\ net[u] \in Nat
          BY <4>2 DEF Listed, TypeOK, ServerOK
        <4> QED BY <4>1, <4>3 DEF TrueHeight, Mined
      <3>2. ASSUME ~\E k \in Keys : GetHistory(k) PROVE todo' \subseteq todo
        BY <3>2, KillFacts DEF SkipConfirmed, FetchFails, AddTransactionReturns, HistoryDone
      <3> QED BY <3>1, <3>2 DEF TrueHeights
    <2>2. txids' = txids \/ txids' = txns
      BY DEF GetHistory, SkipConfirmed, FetchFails, AddTransactionReturns, HistoryDone, Restart,
             Reload, cache
    <2>3. \A u \in DOMAIN txids' : txids'[u] > 0 => HasConfirmed(u)
      BY <2>2 DEF TrueHeights, HasConfirmed
    <2> QED BY <1>1, <1>2, <1>3, <1>5, <2>1, <2>3 DEF TrueHeights, TrueHeight, Calling
  <1>9. Done'
    <2>1. CASE \E k \in Keys : GetHistory(k)
      <3>1. PICK k \in Keys : GetHistory(k)
        BY <2>1
      <3>2. key' = k /\ todo' = History(k) /\ fresh' = fresh
        BY <3>1 DEF GetHistory
      <3>3. ASSUME NEW u \in Mined, Touches(u, k)
            PROVE  [tx |-> u, height |-> net[u]] \in History(k)
        <4>1. u \in DOMAIN net /\ Listed(u) = net[u]
          BY DEF Mined, Listed, TypeOK, ServerOK
        <4> QED BY <3>3, <4>1 DEF History
      <3> QED BY <1>1, <1>3, <1>5, <3>2, <3>3 DEF Done, Touches
    <2>2. ASSUME NEW e \in todo, SkipConfirmed(e) \/ FetchFails(e) \/ AddTransactionReturns(e)
          PROVE  Done'
      <3>1. todo' = todo \ {e} /\ UNCHANGED <<key, fresh>> /\ pc = "next" /\ pc' = "next"
        BY <2>2 DEF SkipConfirmed, FetchFails, AddTransactionReturns
      <3>2. CASE FetchFails(e)
        BY <1>1, <1>3, <1>5, <3>1, <3>2 DEF FetchFails, Done, Touches
      <3>3. CASE SkipConfirmed(e) \/ AddTransactionReturns(e)
        <4>1. ASSUME NEW u \in Mined, e = [tx |-> u, height |-> net[u]] PROVE HasConfirmed(u)
          <5>1. net[u] > 0 /\ e.tx = u /\ e.height = net[u]
            BY <4>1 DEF Mined
          <5>2. CASE SkipConfirmed(e)
            BY <5>1, <5>2 DEF SkipConfirmed
          <5>3. CASE AddTransactionReturns(e)
            BY <5>1, <5>3 DEF AddTransactionReturns, Processed, FirstSeen, TrueHeights
          <5> QED BY <3>3, <5>2, <5>3
        <4>2. UNCHANGED valid
          BY <3>3 DEF SkipConfirmed, AddTransactionReturns
        <4>3. pc' \notin Calling /\ pc \notin Calling
          BY <3>1 DEF Calling
        <4> QED BY <1>1, <1>3, <1>5, <3>1, <4>1, <4>2, <4>3 DEF Done, Touches
      <3> QED BY <2>2, <3>2, <3>3
    <2>3. CASE HistoryDone
      <3>1. pc' = "idle" /\ pc = "next" /\ todo = {} /\ pc \notin Calling
        BY <2>3 DEF HistoryDone, Calling
      <3>2. fresh' = fresh \/ (valid /\ fresh' = fresh \cup {key})
        BY <2>3 DEF HistoryDone
      <3> QED BY <1>1, <1>3, <1>5, <3>1, <3>2 DEF Done, Touches
    <2>4. CASE Restart
      BY <2>4 DEF Restart, Reload, Done
    <2> QED BY <2>1, <2>2, <2>3, <2>4
  <1> QED BY <1>2, <1>4, <1>6, <1>7, <1>8, <1>9

\* What markAsDead kills was never mined, so nothing spends it: it is the double
\* spends alone.
LEMMA OnlyDoubles ==
    ASSUME AllInv, NEW e \in todo, AddTransaction(e)
    PROVE  /\ Dead(DoubleSpends(e.tx)) = DoubleSpends(e.tx)
           /\ DoubleSpends(e.tx) \cap Mined = {}
           /\ \A u \in DoubleSpends(e.tx) : ~HasConfirmed(u)
           /\ DoubleSpends(e.tx) \subseteq Tx
  <1> USE DEF AllInv, LiveInv
  <1> DEFINE D == DoubleSpends(e.tx)
  <1>0. D \subseteq Tx /\ \A o \in DOMAIN stxos : o \in Op
    BY DEF DoubleSpends, TypeOK, TxnsOK, StxosOK
  <1>1. D \cap Mined = {}
    <2> SUFFICES ASSUME NEW u \in D, u \in Mined PROVE FALSE
      OBVIOUS
    <2>1. ~FirstSeen(e.tx, e.height) /\ e.height \in Int /\ e.height >= 0
      BY DEF AddTransaction, Begins, TrueHeights, TypeOK, JobOK
    <2>2. e.height > 0
      BY <2>1 DEF FirstSeen
    <2>3. e.tx \in Mined
      BY <2>2 DEF TrueHeights, TrueHeight
    <2>4. Conflict(e.tx, u)
      BY DEF DoubleSpends
    <2> QED BY <2>3, <2>4 DEF Chain, Mined
  <1>2. \A u \in D : ~HasConfirmed(u)
    BY <1>1 DEF HasConfirmed, TrueHeights, TrueHeight
  <1>3. Closed(D)
    <2> SUFFICES ASSUME NEW o \in DOMAIN stxos, TxOf[o] \in D PROVE FALSE
      BY DEF Closed
    <2>1. o \in Ins[stxos[o].spender] /\ stxos[o].spender \in seen
      BY DEF OurSpent
    <2>2. TxOf[o] \in Parents(stxos[o].spender)
      BY <1>0, <2>1, ConstantsAssumption DEF Parents
    <2>3. TxOf[o] \in Mined
      BY <2>1, <2>2 DEF Chain
    <2> QED BY <1>1, <2>3
  <1>4. D \in SUBSET Tx
    BY <1>0
  <1> HIDE DEF D
  <1>5. Dead(D) = D
    <2>1. D \subseteq Dead(D)
      BY <1>4 DEF Dead
    <2>2. \A u \in Dead(D) : u \in D
      BY <1>3, <1>4 DEF Dead
    <2> QED BY <2>1, <2>2
  <1> QED BY <1>0, <1>1, <1>2, <1>5 DEF D

\* AddTransaction until its first write of the buckets.
LEMMA LiveBegin ==
    ASSUME AllInv, NEW e \in todo, AddTransaction(e)
    PROVE  LiveInv'
  <1> USE DEF AllInv, LiveInv
  <1> DEFINE D == DoubleSpends(e.tx)
  <1>1. /\ Dead(D) = D /\ D \cap Mined = {} /\ D \subseteq Tx
        /\ \A u \in D : ~HasConfirmed(u)
    BY OnlyDoubles
  <1>2. MarkAsDead(D)
    BY <1>1 DEF AddTransaction
  <1>3. \A u \in DOMAIN txns : Alive(u) /\ Conflict(e.tx, u) => u \in D
    BY DEF DoubleSpends, Alive
  <1>4. \A u \in D : u \in DOMAIN txns /\ Alive(u) /\ Conflict(e.tx, u)
    BY DEF DoubleSpends, Alive
  <1> HIDE DEF D
  <1>5. /\ UNCHANGED <<net, seen, txids, key, valid, fresh, freeze>> /\ pc = "next"
        /\ tx' = e.tx /\ height' = e.height /\ pc' = "outputs" /\ todo' = todo \ {e}
        /\ ~HasConfirmed(e.tx)
    BY DEF AddTransaction, Begins, server, cache, user
  <1>6. Mined' = Mined
    BY <1>5 DEF Mined
  <1>7. txns' = [t \in DOMAIN txns |-> IF t \in D THEN -1 ELSE txns[t]]
    BY <1>2 DEF MarkAsDead, TxnsAfterDeath
  <1>8. \A u : HasConfirmed(u)' <=> HasConfirmed(u)
    BY <1>1, <1>7 DEF HasConfirmed
  <1>9. \A u : Alive(u)' <=> Alive(u) /\ u \notin D
    BY <1>7 DEF Alive
  <1>10. \A u : (Kept(u) <=> HasConfirmed(u)) /\ (Kept(u)' <=> HasConfirmed(u))
    BY <1>5, <1>8 DEF Kept, InCall
  <1>11. /\ DOMAIN stxos' = DOMAIN stxos \ DeadSpends(D)
         /\ \A o \in DOMAIN stxos' : stxos'[o] = stxos[o]
    BY <1>2 DEF MarkAsDead, StxosAfterDeath, Delete
  <1>12. DOMAIN utxos \subseteq Op /\ DOMAIN stxos \subseteq Op
    BY DEF TypeOK, UtxosOK, StxosOK
  \* A coin that comes back is of a transaction stored as confirmed.
  <1>13. ASSUME NEW o \in DeadSpends(D)
         PROVE  /\ HasConfirmed(TxOf[o]) /\ TxOf[o] \in Mined /\ TxOf[o] \in seen
                /\ o \notin DeadOutputs(D)
    <2>1. o \in DOMAIN stxos /\ stxos[o].spender \in seen /\ o \in Ins[stxos[o].spender]
          /\ Owner[o] # NotOurs
      BY DEF DeadSpends, OurSpent
    <2>2. HasConfirmed(TxOf[o])
      BY <1>10, <2>1 DEF SpentKept
    <2>3. TxOf[o] \in Mined /\ TxOf[o] \in seen
      BY <2>2 DEF HasConfirmed, TrueHeights, TrueHeight
    <2> QED BY <1>1, <2>2, <2>3 DEF DeadOutputs
  <1>14. DOMAIN utxos' = (DOMAIN utxos \cup DeadSpends(D)) \ DeadOutputs(D)
    BY <1>2 DEF MarkAsDead, UtxosAfterDeath, Put, Delete
  <1>15. \A o \in DOMAIN utxos' : \/ o \in DeadSpends(D) /\ utxos'[o] = stxos[o].utxo
                                  \/ o \in DOMAIN utxos /\ utxos'[o] = utxos[o]
    BY <1>2 DEF MarkAsDead, UtxosAfterDeath, Put, Delete
  <1>16. \A o \in DOMAIN utxos' : TxOf[o] \notin D
    BY <1>12, <1>14 DEF DeadOutputs, DeadSpends
  <1>17. Chain'
    BY <1>5, <1>6 DEF Chain, Parents, Conflict
  <1>18. TrueHeights'
    <2>1. \A u \in DOMAIN txns' : u \in seen /\ TrueHeight(u, txns'[u])
      BY <1>7 DEF TrueHeights, TrueHeight
    <2> QED BY <1>5, <1>6, <1>8, <2>1 DEF TrueHeights, TrueHeight
  <1>19. OurSpent'
    BY <1>5, <1>6, <1>11 DEF OurSpent, TrueHeight
  <1>20. OurCoins'
    <2>1. ASSUME NEW o \in DOMAIN utxos'
          PROVE  Owner[o] # NotOurs /\ TxOf[o] \in seen /\ TrueHeight(TxOf[o], utxos'[o].height)
      <3>1. CASE o \in DeadSpends(D) /\ utxos'[o] = stxos[o].utxo
        BY <1>13, <3>1 DEF DeadSpends, OurSpent
      <3>2. CASE o \in DOMAIN utxos /\ utxos'[o] = utxos[o]
        BY <3>2 DEF OurCoins
      <3> QED BY <1>15, <3>1, <3>2
    <2> QED BY <1>5, <1>6, <2>1 DEF OurCoins, TrueHeight
  <1>21. HeightKept'
    <2>1. ASSUME NEW o \in DOMAIN utxos' PROVE utxos'[o].height > 0 <=> HasConfirmed(TxOf[o])
      <3>1. CASE o \in DeadSpends(D) /\ utxos'[o] = stxos[o].utxo
        BY <1>13, <3>1 DEF DeadSpends, OurSpent
      <3>2. CASE o \in DOMAIN utxos /\ utxos'[o] = utxos[o]
        BY <1>10, <3>2 DEF HeightKept
      <3> QED BY <1>15, <3>1, <3>2
    <2> QED BY <1>10, <2>1 DEF HeightKept
  <1>22. SpentKept'
    <2>1. ASSUME NEW u \in seen, NEW o \in Ins[u], Owner[o] # NotOurs
          PROVE  o \in Recorded' /\ HasConfirmed(TxOf[o])
      <3>1. o \in Recorded /\ HasConfirmed(TxOf[o])
        BY <1>10, <2>1 DEF SpentKept
      <3>2. o \notin DeadOutputs(D)
        BY <1>1, <3>1 DEF DeadOutputs
      <3> QED BY <1>11, <1>14, <3>1, <3>2 DEF Recorded
    <2> QED BY <1>5, <1>10, <2>1 DEF SpentKept
  <1>23. Living'
    <2>1. \A o \in DOMAIN utxos' : Alive(TxOf[o])
      <3>1. \A u : HasConfirmed(u) => Alive(u)
        BY DEF HasConfirmed, Alive, TypeOK, TxnsOK
      <3> QED BY <1>5, <1>13, <1>15, <3>1 DEF Living
    <2>2. \A o \in DOMAIN stxos' : Alive(stxos'[o].spender) /\ stxos'[o].spender \notin D
      BY <1>5, <1>11 DEF Living, DeadSpends
    <2> QED BY <1>9, <1>16, <2>1, <2>2 DEF Living
  <1>24. SpentAway'
    <2>1. ASSUME NEW m, Alive(m), m \notin D, NEW o \in Ins[m], o \in DOMAIN utxos' PROVE FALSE
      <3>1. o \notin DOMAIN utxos
        BY <2>1 DEF SpentAway, Alive
      <3>2. o \in DOMAIN stxos /\ stxos[o].spender \in D /\ o \in Ins[stxos[o].spender]
        BY <1>14, <2>1, <3>1 DEF DeadSpends, OurSpent
      <3>3. m # stxos[o].spender /\ Conflict(m, stxos[o].spender)
        BY <2>1, <3>2 DEF Conflict
      <3>4. m \in DOMAIN txns /\ stxos[o].spender \in DOMAIN txns /\ Alive(stxos[o].spender)
        BY <1>4, <2>1, <3>2 DEF Alive
      <3> QED BY <2>1, <3>3, <3>4 DEF ConflictInv, NoConflict, Quiet
    <2> QED BY <1>5, <1>9, <2>1 DEF SpentAway
  <1>25. Hit'
    BY <1>5 DEF Hit
  <1>26. Done'
    <2>1. \A k \in fresh' : \A t \in Mined' : Touches(t, k) => HasConfirmed(t)'
      BY <1>5, <1>6, <1>8 DEF Done
    <2>2. ASSUME valid, NEW t \in Mined, Touches(t, key)
          PROVE  \/ HasConfirmed(t)
                 \/ [tx |-> t, height |-> net[t]] \in todo'
                 \/ tx' = t /\ height' = net[t]
      <3>1. HasConfirmed(t) \/ [tx |-> t, height |-> net[t]] \in todo
        BY <1>5, <2>2 DEF Done, Calling
      <3>2. CASE e = [tx |-> t, height |-> net[t]]
        BY <1>5, <3>2
      <3> QED BY <1>5, <3>1, <3>2
    <2>3. pc' \in Calling
      BY <1>5 DEF Calling
    <2> QED BY <1>5, <1>6, <1>8, <2>1, <2>2, <2>3 DEF Done, Touches, Calling
  <1> QED BY <1>5, <1>17, <1>18, <1>19, <1>20, <1>21, <1>22, <1>23, <1>24, <1>25, <1>26
          DEF NoFreeze

\* The outputs of the transaction are put, all that are the wallet's.
LEMMA LiveOutputs ==
    ASSUME AllInv, PutOutputs
    PROVE  LiveInv'
  <1> USE DEF AllInv, LiveInv
  <1>1. /\ UNCHANGED <<net, seen, stxos, txns, txids, key, todo, tx, height, valid, fresh, freeze>>
        /\ pc = "outputs" /\ pc' = "inputs" /\ hits' = (Ours # {})
    BY DEF PutOutputs, server, cache, user
  <1>2. Mined' = Mined
    BY <1>1 DEF Mined
  <1>3. tx \in seen /\ tx \in Tx /\ ~HasConfirmed(tx) /\ TrueHeight(tx, height) /\ adrs = nkeys
    BY <1>1 DEF Calling, CoinInv, KnownKeys, AdrsCurrent, TrueHeights, TypeOK, JobOK
  <1>4. Ours = OwnOutputs(tx)
    <2>1. \A o \in Op : Owner[o] # NotOurs => Owner[o] \in Nat
      BY ConstantsAssumption
    <2>2. OwnOutputs(tx) \subseteq Ours
      BY <1>3, <2>1 DEF CoinInv, KnownKeys, OwnOutputs, Ours, TypeOK, KeysOK
    <2>3. Ours \subseteq OwnOutputs(tx)
      BY DEF Ours, OwnOutputs, NotOurs, TypeOK, KeysOK
    <2> QED BY <2>2, <2>3
  <1>5. /\ DOMAIN utxos' = DOMAIN utxos \cup Ours
        /\ \A o \in Ours : utxos'[o].height = height
        /\ \A o \in DOMAIN utxos \ Ours : utxos'[o] = utxos[o]
    BY DEF PutOutputs, Put
  <1>6. \A o \in Ours : TxOf[o] = tx /\ Owner[o] # NotOurs
    BY <1>4 DEF OwnOutputs
  <1>7. \A o \in DOMAIN utxos \ Ours : TxOf[o] # tx
    BY <1>4 DEF OwnOutputs, OurCoins, TypeOK, UtxosOK
  <1>8. \A u : (HasConfirmed(u)' <=> HasConfirmed(u)) /\ (Alive(u)' <=> Alive(u))
    BY <1>1 DEF HasConfirmed, Alive
  <1>9. /\ \A u : Kept(u) <=> HasConfirmed(u)
        /\ \A u : Kept(u)' <=> HasConfirmed(u) \/ (u = tx /\ height > 0)
    BY <1>1, <1>8 DEF Kept, InCall
  <1>10. Chain' /\ OurSpent'
    BY <1>1, <1>2 DEF Chain, Parents, Conflict, OurSpent, TrueHeight
  <1>11. TrueHeights'
    BY <1>1, <1>2, <1>8 DEF TrueHeights, TrueHeight, Calling
  <1>12. OurCoins'
    <2>1. ASSUME NEW o \in DOMAIN utxos'
          PROVE  Owner[o] # NotOurs /\ TxOf[o] \in seen /\ TrueHeight(TxOf[o], utxos'[o].height)
      BY <1>3, <1>5, <1>6 DEF OurCoins
    <2> QED BY <1>1, <1>2, <2>1 DEF OurCoins, TrueHeight
  <1>13. HeightKept'
    <2>1. ASSUME NEW o \in DOMAIN utxos' PROVE utxos'[o].height > 0 <=> Kept(TxOf[o])'
      <3>1. CASE o \in Ours
        BY <1>3, <1>5, <1>6, <1>9, <3>1
      <3>2. CASE o \in DOMAIN utxos \ Ours
        BY <1>5, <1>7, <1>9, <3>2 DEF HeightKept
      <3> QED BY <1>5, <3>1, <3>2
    <2> QED BY <2>1 DEF HeightKept
  <1>14. SpentKept'
    BY <1>1, <1>5, <1>9 DEF SpentKept, Recorded
  <1>15. Living'
    BY <1>1, <1>5, <1>6, <1>8 DEF Living
  <1>16. SpentAway'
    <2>1. ASSUME NEW m \in DOMAIN txns, Alive(m), NEW o \in Ins[m], o \in Ours PROVE FALSE
      <3>1. m \in seen
        BY DEF TrueHeights
      <3>2. HasConfirmed(tx)
        BY <1>6, <1>9, <2>1, <3>1 DEF SpentKept
      <3> QED BY <1>3, <3>2
    <2> QED BY <1>1, <1>5, <1>8, <2>1 DEF SpentAway
  <1>17. Hit'
    BY <1>1, <1>4 DEF Hit, OwnOutputs
  <1>18. Done'
    BY <1>1, <1>2, <1>8 DEF Done, Touches, Calling
  <1> QED BY <1>1, <1>10, <1>11, <1>12, <1>13, <1>14, <1>15, <1>16, <1>17, <1>18 DEF NoFreeze

\* The inputs of the transaction are spent; one that is not there was spent by the
\* same transaction before.
LEMMA LiveInputs ==
    ASSUME AllInv, SpendInputs
    PROVE  LiveInv'
  <1> USE DEF AllInv, LiveInv
  <1>1. /\ UNCHANGED <<net, seen, txns, txids, key, todo, tx, height, valid, fresh, freeze>>
        /\ pc = "inputs" /\ pc' \in {"heights", "commit"} /\ (height > 0 => pc' = "heights")
        /\ hits' = (hits \/ Spent # {})
    BY DEF SpendInputs, server, cache, user
  <1>2. Mined' = Mined
    BY <1>1 DEF Mined
  <1>3. tx \in seen /\ tx \in Tx /\ TrueHeight(tx, height)
    BY <1>1 DEF Calling, CoinInv, KnownKeys, TrueHeights, TypeOK, JobOK
  <1>4. DOMAIN utxos' = DOMAIN utxos \ Spent /\ \A o \in DOMAIN utxos' : utxos'[o] = utxos[o]
    BY DEF SpendInputs, Delete
  <1>5. /\ DOMAIN stxos' = DOMAIN stxos \cup Spent
        /\ \A o \in Spent : /\ stxos'[o].utxo = utxos[o] /\ stxos'[o].spender = tx
                            /\ stxos'[o].spendHeight = height
        /\ \A o \in DOMAIN stxos \ Spent : stxos'[o] = stxos[o]
    BY DEF SpendInputs, Put
  <1>6. Spent \subseteq Ins[tx] /\ Spent \subseteq DOMAIN utxos
    BY DEF Spent
  <1>7. \A u : (HasConfirmed(u)' <=> HasConfirmed(u)) /\ (Alive(u)' <=> Alive(u))
    BY <1>1 DEF HasConfirmed, Alive
  <1>8. \A u : Kept(u)' <=> Kept(u)
    BY <1>1, <1>7 DEF Kept, InCall
  <1>9. Chain' /\ TrueHeights'
    BY <1>1, <1>2, <1>7 DEF Chain, Parents, Conflict, TrueHeights, TrueHeight, Calling
  <1>10. OurCoins'
    BY <1>1, <1>2, <1>4 DEF OurCoins, TrueHeight
  <1>11. OurSpent'
    <2>1. ASSUME NEW o \in Spent
          PROVE  Owner[o] # NotOurs /\ utxos[o].height > 0 /\ TrueHeight(TxOf[o], utxos[o].height)
      <3>1. Owner[o] # NotOurs /\ TrueHeight(TxOf[o], utxos[o].height)
        BY <1>6 DEF OurCoins
      <3>2. Kept(TxOf[o])
        BY <1>3, <1>6, <3>1 DEF SpentKept
      <3> QED BY <1>6, <3>1, <3>2 DEF HeightKept
    <2>2. ASSUME NEW o \in DOMAIN stxos'
          PROVE  /\ Owner[o] # NotOurs /\ o \in Ins[stxos'[o].spender]
                 /\ stxos'[o].spender \in seen /\ stxos'[o].utxo.height > 0
                 /\ TrueHeight(TxOf[o], stxos'[o].utxo.height)
                 /\ TrueHeight(stxos'[o].spender, stxos'[o].spendHeight)
      <3>1. CASE o \in Spent
        BY <1>3, <1>5, <1>6, <2>1, <3>1
      <3>2. CASE o \in DOMAIN stxos \ Spent
        BY <1>5, <3>2 DEF OurSpent
      <3> QED BY <1>5, <3>1, <3>2
    <2> QED BY <1>1, <1>2, <2>2 DEF OurSpent, TrueHeight
  <1>12. HeightKept'
    BY <1>4, <1>8 DEF HeightKept
  <1>13. SpentKept'
    BY <1>1, <1>4, <1>5, <1>8 DEF SpentKept, Recorded
  <1>14. Living'
    <2>1. \A o \in DOMAIN utxos' : Alive(TxOf[o])' \/ (pc' \in {"heights", "commit"} /\ tx' = TxOf[o] /\ hits')
      BY <1>1, <1>4, <1>7 DEF Living
    <2>2. ASSUME NEW o \in DOMAIN stxos'
          PROVE  Alive(stxos[o].spender)' \/ (tx' = stxos'[o].spender /\ hits')
      <3>1. CASE o \in Spent
        BY <1>1, <1>5, <3>1
      <3>2. CASE o \in DOMAIN stxos \ Spent
        <4>1. Alive(stxos[o].spender)
          BY <1>1, <3>2 DEF Living
        <4> QED BY <1>1, <1>5, <3>2, <4>1 DEF Alive
      <3> QED BY <1>5, <3>1, <3>2
    <2> QED BY <1>1, <2>1, <2>2 DEF Living
  <1>15. SpentAway'
    BY <1>1, <1>4, <1>7 DEF SpentAway, Spent
  <1>16. Hit'
    <2>1. pc' \in {"inputs", "heights", "commit"} /\ OwnOutputs(tx') # {} => hits'
      BY <1>1 DEF Hit, OwnOutputs
    <2>2. ASSUME height > 0, NEW o \in OwnInputs(tx), ~hits'
          PROVE  \E s \in DOMAIN stxos' : stxos'[s].spender = tx
      <3>1. o \in Ins[tx] /\ o \in Recorded
        BY <1>3, <2>2 DEF OwnInputs, SpentKept
      <3>2. o \notin DOMAIN utxos /\ Spent = {}
        BY <1>1, <2>2, <3>1 DEF Spent
      <3>3. o \in DOMAIN stxos /\ o \in DOMAIN stxos' /\ stxos'[o] = stxos[o]
        BY <1>5, <3>1, <3>2 DEF Recorded
      <3>4. Alive(stxos[o].spender) /\ o \in Ins[stxos[o].spender]
        BY <1>1, <3>3 DEF Living, OurSpent
      <3>5. ~Conflict(tx, stxos[o].spender)
        BY <1>1, <3>4 DEF ConflictInv, NoRival, Calling, Alive, Pending, Quiet
      <3>6. stxos[o].spender = tx
        BY <3>1, <3>4, <3>5 DEF Conflict
      <3> QED BY <3>3, <3>6
    <2> QED BY <1>1, <2>1, <2>2 DEF Hit, OwnInputs
  <1>17. Done'
    BY <1>1, <1>2, <1>7 DEF Done, Touches, Calling
  <1> QED BY <1>1, <1>9, <1>10, <1>11, <1>12, <1>13, <1>14, <1>15, <1>16, <1>17 DEF NoFreeze

\* A spent coin of the transaction gets its height.
LEMMA LiveHeights ==
    ASSUME AllInv, UpdateSpendHeight
    PROVE  LiveInv'
  <1> USE DEF AllInv, LiveInv
  <1>1. /\ UNCHANGED <<net, seen, utxos, txns, txids, key, todo, tx, height, valid, fresh, freeze>>
        /\ pc = "heights" /\ pc' = "commit" /\ (hits => hits')
    BY DEF UpdateSpendHeight, server, cache, user
  <1>2. Mined' = Mined
    BY <1>1 DEF Mined
  <1>3. tx \in Tx /\ TrueHeight(tx, height)
    BY <1>1 DEF Calling, TrueHeights, TypeOK, JobOK
  <1>4. /\ DOMAIN stxos' = DOMAIN stxos
        /\ \A o \in DOMAIN stxos :
             /\ stxos'[o].utxo = stxos[o].utxo /\ stxos'[o].spender = stxos[o].spender
             /\ \/ stxos'[o].spendHeight = stxos[o].spendHeight
                \/ stxos[o].spender = tx /\ stxos'[o].spendHeight = height
    <2>1. CASE UNCHANGED stxos
      BY <2>1
    <2>2. CASE \E s \in DOMAIN stxos :
                 stxos[s].spender = tx /\ stxos' = [stxos EXCEPT ![s].spendHeight = height]
      BY <2>2 DEF TypeOK, StxosOK, Stxo
    <2> QED BY <2>1, <2>2 DEF UpdateSpendHeight
  <1>5. (\E o \in DOMAIN stxos : stxos[o].spender = tx) => hits'
    BY DEF UpdateSpendHeight
  <1>6. \A u : (HasConfirmed(u)' <=> HasConfirmed(u)) /\ (Alive(u)' <=> Alive(u))
    BY <1>1 DEF HasConfirmed, Alive
  <1>7. \A u : Kept(u)' <=> Kept(u)
    BY <1>1, <1>6 DEF Kept, InCall
  <1>8. Chain' /\ TrueHeights' /\ OurCoins'
    BY <1>1, <1>2, <1>6 DEF Chain, Parents, Conflict, TrueHeights, TrueHeight, Calling, OurCoins
  <1>9. OurSpent'
    <2>1. \A o \in DOMAIN stxos : TrueHeight(stxos[o].spender, stxos'[o].spendHeight)
      BY <1>3, <1>4 DEF OurSpent
    <2> QED BY <1>1, <1>2, <1>4, <2>1 DEF OurSpent, TrueHeight
  <1>10. HeightKept' /\ SpentKept'
    BY <1>1, <1>4, <1>7 DEF HeightKept, SpentKept, Recorded
  <1>11. Living'
    <2>1. \A o \in DOMAIN utxos' : Alive(TxOf[o])' \/ (tx' = TxOf[o] /\ hits')
      BY <1>1, <1>6 DEF Living
    <2>2. \A o \in DOMAIN stxos' :
            Alive(stxos[o].spender)' \/ (tx' = stxos'[o].spender /\ hits')
      BY <1>1, <1>4 DEF Living, Alive
    <2> QED BY <1>1, <2>1, <2>2 DEF Living
  <1>12. SpentAway'
    BY <1>1, <1>6 DEF SpentAway
  <1>13. Hit'
    BY <1>1, <1>5 DEF Hit, OwnOutputs, OwnInputs
  <1>14. Done'
    BY <1>1, <1>2, <1>6 DEF Done, Touches, Calling
  <1> QED BY <1>1, <1>8, <1>9, <1>10, <1>11, <1>12, <1>13, <1>14 DEF NoFreeze

\* The transaction is stored, if it is the wallet's.
LEMMA LivePutTxn ==
    ASSUME AllInv, PutTxn
    PROVE  LiveInv'
  <1> USE DEF AllInv, LiveInv
  <1>1. /\ UNCHANGED <<net, seen, utxos, stxos, key, todo, valid, fresh, freeze>>
        /\ pc = "commit" /\ pc' = "next"
    BY DEF PutTxn, server, user
  <1>2. Mined' = Mined
    BY <1>1 DEF Mined
  <1>3. /\ tx \in Tx /\ tx \in seen /\ height \in Int /\ height >= 0
        /\ TrueHeight(tx, height) /\ ~HasConfirmed(tx)
    BY <1>1 DEF Calling, CoinInv, KnownKeys, TrueHeights, TypeOK, JobOK
  <1>4. /\ hits => /\ DOMAIN txns' = DOMAIN txns \cup {tx} /\ txns'[tx] = height
                   /\ \A u \in DOMAIN txns \ {tx} : txns'[u] = txns[u]
                   /\ txids' = Put(txids, txns')
        /\ ~hits => UNCHANGED <<txns, txids>>
    BY <1>3 DEF PutTxn, StoredHeight, Put, Single, cache
  <1>5. /\ \A u : HasConfirmed(u)' <=> HasConfirmed(u) \/ (hits /\ u = tx /\ height > 0)
        /\ \A u : Alive(u) \/ (hits /\ u = tx) => Alive(u)'
        /\ \A u : Alive(u)' => Alive(u) \/ u = tx
    BY <1>3, <1>4 DEF HasConfirmed, Alive
  <1>6. OwnOutputs(tx) # {} => hits
    BY <1>1 DEF Hit
  <1>7. \A o \in Recorded : TxOf[o] = tx => hits
    <2>1. \A o \in Recorded : o \in Op /\ Owner[o] # NotOurs
      BY DEF Recorded, OurCoins, OurSpent, TypeOK, UtxosOK, StxosOK
    <2> QED BY <1>6, <2>1 DEF OwnOutputs
  <1>8. \A o \in Recorded : Kept(TxOf[o])' <=> Kept(TxOf[o])
    BY <1>1, <1>5, <1>7 DEF Kept, InCall
  <1>9. Chain' /\ OurCoins' /\ OurSpent'
    BY <1>1, <1>2 DEF Chain, Parents, Conflict, OurCoins, OurSpent, TrueHeight
  <1>10. TrueHeights'
    <2>1. \A u \in DOMAIN txns' : u \in seen /\ TrueHeight(u, txns'[u])
      BY <1>3, <1>4 DEF TrueHeights
    <2>2. \A u \in DOMAIN txids' : txids'[u] > 0 => HasConfirmed(u)'
      <3>1. CASE hits
        <4>1. \A u \in DOMAIN txids' : \/ u \in DOMAIN txns' /\ txids'[u] = txns'[u]
                                       \/ u \notin DOMAIN txns' /\ u \in DOMAIN txids /\ txids'[u] = txids[u]
          BY <1>4, <3>1 DEF Put
        <4> QED BY <1>4, <3>1, <4>1 DEF TrueHeights, HasConfirmed
      <3>2. CASE ~hits
        BY <1>4, <1>5, <3>2 DEF TrueHeights
      <3> QED BY <3>1, <3>2
    <2>3. pc' \notin Calling
      BY <1>1 DEF Calling
    <2> QED BY <1>1, <1>2, <2>1, <2>2, <2>3 DEF TrueHeights, TrueHeight, Calling
  <1>11. HeightKept' /\ SpentKept'
    BY <1>1, <1>8 DEF HeightKept, SpentKept, Recorded
  <1>12. Living'
    <2>1. \A o \in DOMAIN utxos : Alive(TxOf[o])'
      BY <1>5 DEF Living
    <2>2. \A o \in DOMAIN stxos : Alive(stxos[o].spender)'
      BY <1>1, <1>5 DEF Living, Alive
    <2> QED BY <1>1, <2>1, <2>2 DEF Living, Alive
  <1>13. SpentAway'
    <2>1. \A m : Alive(m)' => Ins[m] \cap DOMAIN utxos = {}
      BY <1>1, <1>5 DEF SpentAway, Alive
    <2> QED BY <1>1, <2>1 DEF SpentAway
  <1>14. Hit'
    BY <1>1 DEF Hit
  <1>15. Done'
    <2>1. ASSUME NEW k \in Keys, NEW t, t = tx, height > 0, Touches(t, k)
          PROVE  HasConfirmed(t)'
      <3>1. k # NotOurs
        BY <2>1 DEF Keys
      <3>2. OwnOutputs(tx) # {} \/ OwnInputs(tx) # {}
        BY <2>1, <3>1 DEF Touches, OwnOutputs, OwnInputs
      <3>3. hits
        BY <1>1, <2>1, <3>2 DEF Hit
      <3> QED BY <1>5, <2>1, <3>3
    <2>2. \A k \in fresh' : \A t \in Mined' : Touches(t, k) => HasConfirmed(t)'
      BY <1>1, <1>2, <1>5 DEF Done
    <2>3. ASSUME valid, NEW t \in Mined, Touches(t, key)
          PROVE  HasConfirmed(t)' \/ [tx |-> t, height |-> net[t]] \in todo
      <3>1. key \in Keys
        BY <1>1 DEF TypeOK, JobOK
      <3>2. \/ HasConfirmed(t) \/ [tx |-> t, height |-> net[t]] \in todo
            \/ tx = t /\ height = net[t]
        BY <1>1, <2>3 DEF Done
      <3>3. tx = t /\ height = net[t] => HasConfirmed(t)'
        BY <2>1, <2>3, <3>1 DEF Mined
      <3> QED BY <1>5, <3>2, <3>3
    <2> QED BY <1>1, <1>2, <2>2, <2>3 DEF Done, Touches
  <1> QED BY <1>1, <1>9, <1>10, <1>11, <1>12, <1>13, <1>14, <1>15 DEF NoFreeze

LEMMA LiveNext ==
    ASSUME AllInv, Undisturbed, [Next]_vars
    PROVE  LiveInv'
  <1>1. CASE \E t \in Tx : Broadcast(t) \/ Evict(t) \/ Mine(t)
    BY <1>1, LiveServer
  <1>2. CASE \/ \E k \in Keys : GetHistory(k)
             \/ \E e \in todo : SkipConfirmed(e) \/ FetchFails(e) \/ AddTransactionReturns(e)
             \/ HistoryDone \/ Restart
    BY <1>2, LiveQueue
  <1>7. CASE \/ \E e \in todo : AddTransactionSteps(e)
             \/ MarkAsDeadStep \/ KilledInOutputs \/ KilledInInputs
    BY <1>7, WalkFacts DEF AddTransactionSteps, KilledInOutputs, KilledInInputs, Undisturbed
  <1>3. CASE \E e \in todo : AddTransaction(e)
    BY <1>3, LiveBegin
  <1>4. CASE PutOutputs \/ SpendInputs \/ UpdateSpendHeight \/ PutTxn
    BY <1>4, LiveOutputs, LiveInputs, LiveHeights, LivePutTxn
  <1>5. CASE (\E o \in Op, b \in BOOLEAN : FreezeGet(o, b)) \/ FreezePut
    BY <1>5 DEF FreezeGet, FreezePut, Undisturbed, AllInv, LiveInv
  <1>6. CASE UNCHANGED vars
    <2>1. UNCHANGED <<net, seen, utxos, stxos, txns, txids, pc, key, todo, tx, height, hits,
                      valid, fresh, freeze>>
      BY <1>6 DEF vars, server, db, buckets, cache, job, call, user
    <2> USE <2>1 DEF AllInv, LiveInv
    <2>2. Mined' = Mined /\ \A u : (HasConfirmed(u)' <=> HasConfirmed(u)) /\ (Alive(u)' <=> Alive(u))
      BY DEF Mined, HasConfirmed, Alive
    <2>3. Chain' /\ TrueHeights' /\ OurCoins' /\ OurSpent'
      BY <2>2 DEF Chain, Parents, Conflict, TrueHeights, TrueHeight, Calling, OurCoins, OurSpent
    <2>4. HeightKept' /\ SpentKept' /\ Done'
      BY <2>2 DEF HeightKept, SpentKept, Kept, InCall, Recorded, Done, Touches, Calling
    <2>5. Living' /\ SpentAway' /\ Hit'
      BY DEF Living, SpentAway, Hit, Alive, OwnOutputs, OwnInputs
    <2> QED BY <2>3, <2>4, <2>5 DEF NoFreeze
  <1> QED BY <1>1, <1>2, <1>3, <1>4, <1>5, <1>6, <1>7 DEF Next

\* What was in the mempool once and can never be mined conflicts with a mined
\* transaction: nothing it spends is doomed.
LEMMA DoomedConflicts ==
    ASSUME AllInv, NEW t \in seen, t \in Doomed
    PROVE  \E m \in Mined : Conflict(t, m)
  <1> DEFINE S == {u \in Tx : u \notin seen \/ \E m \in Mined : Conflict(u, m)}
  <1>1. ASSUME NEW u \in Tx, (\E m \in Mined : Conflict(u, m)) \/ Parents(u) \cap S # {}
        PROVE  u \in S
    <2>1. CASE \E m \in Mined : Conflict(u, m)
      BY <2>1
    <2>2. ASSUME u \in seen, NEW v \in Parents(u), v \in S PROVE FALSE
      <3>1. v \in Mined /\ v \in seen
        BY <2>2 DEF AllInv, LiveInv, Chain, CoinInv, KnownKeys, Mined
      <3> QED BY <2>2, <3>1 DEF AllInv, LiveInv, Chain, Mined
    <2> QED BY <1>1, <2>1, <2>2
  <1>2. S \in SUBSET Tx
    OBVIOUS
  <1> HIDE DEF S
  <1>3. t \in S
    BY <1>1, <1>2 DEF Doomed
  <1> QED BY <1>3 DEF S

\* Whoever owns an output is touched by what makes and by what spends it.
LEMMA OwnersTouched ==
    ASSUME NEW o \in Op, Owner[o] # NotOurs
    PROVE  /\ Owner[o] \in Keys
           /\ Touches(TxOf[o], Owner[o])
           /\ \A t : o \in Ins[t] => Touches(t, Owner[o])
  BY DEF Keys, Touches

\* The confirmed part of Balance.
LEMMA ConfirmedRight == AllInv => ConfirmedShown
  <1> SUFFICES ASSUME AllInv, Idle, fresh = Keys
               PROVE  BalanceConfirmed = {o \in DOMAIN utxos : TxOf[o] \in Mined}
    BY DEF ConfirmedShown
  <1> USE DEF AllInv, LiveInv
  <1>1. ASSUME NEW o \in DOMAIN utxos, utxos[o].height > 0 \/ StxoConfirmed(o)
        PROVE  TxOf[o] \in Mined
    <2>1. CASE utxos[o].height > 0
      BY <2>1 DEF OurCoins, TrueHeight
    <2>2. CASE \E s \in DOMAIN stxos : stxos[s].spender = TxOf[o] /\ stxos[s].spendHeight > 0
      BY <2>2 DEF OurSpent, TrueHeight
    <2> QED BY <1>1, <2>1, <2>2 DEF StxoConfirmed
  <1>2. ASSUME NEW o \in DOMAIN utxos, TxOf[o] \in Mined PROVE utxos[o].height > 0
    <2>1. o \in Op /\ Owner[o] # NotOurs
      BY DEF TypeOK, UtxosOK, OurCoins
    <2>2. HasConfirmed(TxOf[o])
      BY <1>2, <2>1, OwnersTouched DEF Done
    <2> QED BY <2>2 DEF HeightKept, Kept
  <1> QED BY <1>1, <1>2 DEF BalanceConfirmed

\* ListUnspent, once the network is settled.
LEMMA SettledRight == AllInv /\ Visible => SettledBalance
  <1> SUFFICES ASSUME AllInv, Visible, Idle, fresh = Keys, Settled
               PROVE  /\ DOMAIN utxos = Unspent
                      /\ \A o \in DOMAIN utxos : utxos[o].height = net[TxOf[o]]
    BY DEF SettledBalance, AtRest
  <1> USE DEF AllInv, LiveInv
  <1>0. pc = "idle"
    BY DEF Idle
  \* A live transaction that touches a key of the wallet is mined.
  <1>1. ASSUME NEW t \in seen, Alive(t), NEW k \in Keys, Touches(t, k)
        PROVE  t \in Mined
    <2> SUFFICES ASSUME t \notin Mined PROVE FALSE
      OBVIOUS
    <2>1. PICK m \in Mined : Conflict(t, m)
      BY DoomedConflicts DEF Settled
    <2>2. t \in Tx /\ m \in Tx
      BY DEF TypeOK, ServerOK, Mined
    <2>3. PICK j \in Keys : Touches(m, j)
      BY <1>1, <2>1, <2>2 DEF Visible
    <2>4. HasConfirmed(m)
      BY <2>3 DEF Done
    <2>5. Alive(m) /\ m \in DOMAIN txns
      BY <2>4 DEF HasConfirmed, Alive, TypeOK, TxnsOK
    <2>6. t \in DOMAIN txns
      BY <1>1 DEF Alive
    <2> QED BY <1>1, <2>1, <2>5, <2>6 DEF ConflictInv, NoConflict, Quiet
  <1>2. ASSUME NEW o \in DOMAIN utxos
        PROVE  o \in Unspent /\ utxos[o].height = net[TxOf[o]]
    <2>1. o \in Op /\ Owner[o] # NotOurs /\ TxOf[o] \in seen /\ Alive(TxOf[o])
      BY <1>0 DEF TypeOK, UtxosOK, OurCoins, Living
    <2>2. TxOf[o] \in Mined
      BY <1>1, <2>1, OwnersTouched
    <2>3. ASSUME NEW m \in Mined, o \in Ins[m] PROVE FALSE
      <3>1. HasConfirmed(m)
        BY <2>1, <2>3, OwnersTouched DEF Done
      <3>2. Alive(m) /\ m \in DOMAIN txns
        BY <3>1 DEF HasConfirmed, Alive, TypeOK, TxnsOK
      <3> QED BY <2>3, <3>2 DEF SpentAway
    <2>4. HasConfirmed(TxOf[o])
      BY <2>1, <2>2, OwnersTouched DEF Done
    <2>5. utxos[o].height = net[TxOf[o]]
      BY <2>4 DEF HeightKept, Kept, OurCoins, TrueHeight
    <2> QED BY <2>1, <2>2, <2>3, <2>5 DEF Unspent
  <1>3. ASSUME NEW o \in Unspent PROVE o \in DOMAIN utxos
    <2>1. /\ o \in Op /\ Owner[o] # NotOurs /\ TxOf[o] \in Mined
          /\ \A m \in Mined : o \notin Ins[m]
      BY DEF Unspent
    <2>2. HasConfirmed(TxOf[o]) /\ TxOf[o] \in Tx
      BY <2>1, OwnersTouched DEF Done, Mined, TypeOK, ServerOK
    <2>3. o \in Recorded
      BY <2>1, <2>2 DEF CoinInv, OnRecord, OwnOutputs, InFlight, Quiet
    <2>4. ASSUME o \in DOMAIN stxos PROVE FALSE
      <3>1. /\ stxos[o].spender \in seen /\ o \in Ins[stxos[o].spender]
            /\ Alive(stxos[o].spender)
        BY <1>0, <2>4 DEF OurSpent, Living
      <3>2. stxos[o].spender \in Mined
        BY <1>1, <2>1, <3>1, OwnersTouched
      <3> QED BY <2>1, <3>1, <3>2
    <2> QED BY <2>3, <2>4 DEF Recorded
  <1> QED BY <1>2, <1>3

LEMMA QuietStep ==
    ASSUME AllInv, Undisturbed, [Next]_vars
    PROVE  Quiet'
  <1> USE DEF Quiet, AllInv
  <1>1. CASE \E t \in Tx : Broadcast(t) \/ Evict(t) \/ Mine(t)
    BY <1>1 DEF Broadcast, Evict, Mine, db, call, walk
  <1>2. CASE \/ \E k \in Keys : GetHistory(k)
             \/ \E e \in todo : SkipConfirmed(e) \/ FetchFails(e) \/ AddTransactionReturns(e)
             \/ HistoryDone
    BY <1>2 DEF GetHistory, SkipConfirmed, FetchFails, AddTransactionReturns, HistoryDone,
                db, call, walk
  <1>3. CASE \E e \in todo : AddTransaction(e)
    BY <1>3 DEF AddTransaction, walk
  <1>4. CASE PutOutputs \/ SpendInputs \/ UpdateSpendHeight \/ PutTxn
    BY <1>4 DEF PutOutputs, SpendInputs, UpdateSpendHeight, PutTxn, NoCall, walk
  <1>5. CASE (\E o \in Op, b \in BOOLEAN : FreezeGet(o, b)) \/ FreezePut
    BY <1>5 DEF FreezeGet, FreezePut, db, job, call, walk
  <1>6. CASE Restart
    BY <1>6, KillFacts DEF InFlight
  <1>7. CASE \/ \E e \in todo : AddTransactionSteps(e)
             \/ MarkAsDeadStep \/ KilledInOutputs \/ KilledInInputs
    BY <1>7, WalkFacts DEF AddTransactionSteps, KilledInOutputs, KilledInInputs, Undisturbed
  <1>8. CASE UNCHANGED vars
    BY <1>8 DEF vars, db, job, call, walk
  <1> QED BY <1>1, <1>2, <1>3, <1>4, <1>5, <1>6, <1>7, <1>8 DEF Next

LEMMA LiveHolds == ASSUME Undisturbed PROVE Spec => []AllInv
  <1>1. Init => AllInv
    <2> SUFFICES ASSUME Init PROVE AllInv
      OBVIOUS
    <2>1. TypeOK /\ ConflictInv /\ CoinInv
      BY InitType, ConflictHolds, CoinsHold DEF Undisturbed
    <2>2. Quiet
      BY DEF Init, Quiet
    <2>3. /\ DOMAIN net = {} /\ DOMAIN utxos = {} /\ DOMAIN stxos = {} /\ DOMAIN txns = {}
          /\ DOMAIN txids = {} /\ seen = {} /\ todo = {} /\ fresh = {} /\ pc = "idle"
          /\ freeze = NoFreeze
      BY DEF Init, None
    <2>4. LiveInv
      BY <2>3 DEF LiveInv, Chain, TrueHeights, OurCoins, OurSpent, HeightKept, SpentKept, Living,
                  SpentAway, Hit, Done, Calling
    <2> QED BY <2>1, <2>2, <2>4 DEF AllInv
  <1>2. AllInv /\ [Next]_vars => LiveInv' /\ Quiet'
    BY LiveNext, QuietStep
  <1>3. AllInv /\ [Next]_vars => ConflictInv' /\ CoinInv'
    BY ConflictHolds, CoinsHold DEF AllInv, Undisturbed
  <1>4. AllInv /\ TypeOK' /\ [Next]_vars => AllInv'
    BY <1>2, <1>3 DEF AllInv
  <1> QED BY <1>1, <1>4, TypeCorrect, PTL DEF Spec

\* What Balance reports as confirmed is right whenever the histories have been worked
\* through, with transactions in the mempool or without: for any transactions, any
\* order of histories and any failed requests.
THEOREM ConfirmedIsRight == ASSUME Undisturbed PROVE Spec => []ConfirmedShown
  BY ConfirmedRight, LiveHolds, PTL

\* Both amounts are right: besides, ListUnspent has the wallet's unspent outputs once
\* the network is settled, double spends having been replaced or mined, if the
\* wallet sees the double spends of what it sees.
THEOREM BalanceIsRight == ASSUME Undisturbed, Visible PROVE Spec => []LiveBalance
  <1>1. AllInv => LiveBalance
    BY ConfirmedRight, SettledRight DEF LiveBalance
  <1> QED BY <1>1, LiveHolds, PTL

=============================================================================
