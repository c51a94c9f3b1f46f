------------------------- MODULE ConnectBlockProofs -------------------------
(***************************************************************************)
(* Proofs about ConnectBlock for every value of the constants that         *)
(* ConstAssumption allows: the type invariant, which the model-checked     *)
(* properties all rest on.                                                 *)
(***************************************************************************)
EXTENDS ConnectBlock, TLAPS

\* The outpoints an input list may name, and the shape of a transaction.
Ref == OutPoint \cup {Missing}
TxRec == [ins : Seq(Ref), out : Nat, ent : Nat]

\* A function on 1..n is a sequence of length n.
LEMMA FunIsSeq ==
  ASSUME NEW S, NEW n \in Nat, NEW f \in [1..n -> S]
  PROVE  f \in Seq(S) /\ Len(f) = n
  OBVIOUS

\* The length of a sequence is a natural number.
LEMMA LenInNat ==
  ASSUME NEW S, NEW q \in Seq(S)
  PROVE  Len(q) \in Nat
  OBVIOUS

-----------------------------------------------------------------------------
(* The candidate blocks of Next have the shapes the type invariant needs.  *)

\* The candidate lists of n transactions, before the filter of TxChoices.
TxCands(n) ==
  {[i \in 1..n |-> [ins |-> a[i], out |-> InSum(a[i]) - f[i], ent |-> e[i]]] :
     a \in [1..n -> InputSeqs], f \in [1..n -> FeeChoices],
     e \in [1..n -> EntChoices]}

\* TxChoices is the union of the filtered TxCands(n).
LEMMA TxChoicesUnion ==
  ASSUME NEW txs \in TxChoices
  PROVE  \E n \in 0..MaxTxs : txs \in TxCands(n) /\ \A i \in 1..n : txs[i].out \in Nat
<1>1. TxChoices = UNION {{t \in TxCands(n) : \A i \in 1..n : t[i].out \in Nat} :
                          n \in 0..MaxTxs}
  BY DEF TxChoices, TxCands
<1> QED
  BY <1>1

\* A member of TxCands(n) is a function on 1..n of transaction records
\* whose input lists come from InputSeqs and whose entangle amounts come
\* from EntChoices.
LEMMA TxCandsShape ==
  ASSUME NEW n, NEW txs \in TxCands(n)
  PROVE  /\ txs = [i \in 1..n |-> txs[i]]
         /\ \A i \in 1..n :
              /\ txs[i] = [ins |-> txs[i].ins, out |-> txs[i].out, ent |-> txs[i].ent]
              /\ txs[i].ins \in InputSeqs
              /\ txs[i].ent \in EntChoices
<1>1. PICK a \in [1..n -> InputSeqs], f \in [1..n -> FeeChoices],
           e \in [1..n -> EntChoices] :
              txs = [i \in 1..n |-> [ins |-> a[i], out |-> InSum(a[i]) - f[i],
                                     ent |-> e[i]]]
  BY DEF TxCands
<1> QED
  BY <1>1

\* Every candidate transaction list of TxChoices is a sequence of at most
\* MaxTxs transactions whose inputs name outpoints of the view or Missing
\* and whose output value (InSum less the fee) is a natural number.
LEMMA TxChoicesType ==
  ASSUME TypeOK, NEW txs \in TxChoices
  PROVE  txs \in Seq(TxRec) /\ Len(txs) <= MaxTxs
<1>1. PICK n \in 0..MaxTxs : txs \in TxCands(n) /\ \A i \in 1..n : txs[i].out \in Nat
  BY TxChoicesUnion
<1>2. /\ txs = [i \in 1..n |-> txs[i]]
      /\ \A i \in 1..n :
           /\ txs[i] = [ins |-> txs[i].ins, out |-> txs[i].out, ent |-> txs[i].ent]
           /\ txs[i].ins \in InputSeqs
           /\ txs[i].ent \in EntChoices
  BY <1>1, TxCandsShape, Zenon
<1>3. InputSeqs \subseteq Seq(Ref)
  <2> SUFFICES ASSUME NEW s \in InputSeqs PROVE s \in Seq(Ref)
    OBVIOUS
  <2>1. PICK m \in 1..MaxIns : s \in [1..m -> Spendable]
    BY Zenon DEF InputSeqs
  <2>2. Spendable \subseteq Ref
    BY DEF TypeOK, Spendable, Ref
  <2> QED
    BY <2>1, <2>2, FunIsSeq, ConstAssumption
<1>4. ASSUME NEW i \in 1..n PROVE txs[i] \in TxRec
  <2>1. txs[i].ins \in Seq(Ref) /\ txs[i].ent \in Nat /\ txs[i].out \in Nat
    BY <1>1, <1>2, <1>3, ConstAssumption
  <2> QED
    BY <1>2, <2>1 DEF TxRec
<1>5. txs \in [1..n -> TxRec]
  BY <1>2, <1>4
<1> QED
  BY <1>5, FunIsSeq, ConstAssumption

\* The merge inputs CbInputChoices offers are a sequence of outpoints of
\* OutPoint or Missing.
LEMMA CbInputChoicesType ==
  ASSUME TypeOK, NEW h, NEW ins \in CbInputChoices(h)
  PROVE  ins \in Seq(Ref)
<1>1. CASE h < EntangleHeight
  <2>1. ins = <<>>
    BY <1>1, Zenon DEF CbInputChoices
  <2> QED
    BY <2>1
<1>2. CASE ~(h < EntangleHeight) /\ AnyMergeInputs
  <2>1. ins \in [1..2 -> {o \in DOMAIN view : o[1] = tip} \cup {Missing}]
    BY <1>2, Zenon DEF CbInputChoices
  <2>2. ins \in [1..2 -> Ref]
    BY <2>1 DEF TypeOK, Ref
  <2> QED
    BY <2>2, FunIsSeq
<1>3. CASE ~(h < EntangleHeight) /\ ~AnyMergeInputs
  <2>1. ins = <<<<tip, 0, Pool1>>, <<tip, 0, Pool2>>>>
    BY <1>3, Zenon DEF CbInputChoices
  <2> QED
    BY <2>1 DEF TypeOK, Ref, OutPoint, Pool1, Pool2, Miner, Mint
<1> QED
  BY <1>1, <1>2, <1>3

-----------------------------------------------------------------------------
(* What one connected block adds to and changes in the view.              *)

\* The outputs NewOutputs adds at height h are entries at outpoints of
\* height h, given natural output values.
LEMMA NewOutputsType ==
  ASSUME NEW cb, NEW txs \in Seq(TxRec), Len(txs) <= MaxTxs,
         NEW h \in 1..MaxHeight,
         {cb.miner, cb.pool1, cb.pool2, cb.mint} \subseteq Nat
  PROVE  /\ DOMAIN NewOutputs(cb, txs, h) \subseteq OutPoint
         /\ \A o \in DOMAIN NewOutputs(cb, txs, h) : NewOutputs(cb, txs, h)[o] \in Entry
<1> DEFINE CbOuts == {<<h, 0, k>> : k \in {Miner, Pool1, Pool2, Mint}}
           TxOuts == {<<h, t, 0>> : t \in 1..Len(txs)}
<1>1. DOMAIN NewOutputs(cb, txs, h) = CbOuts \cup TxOuts
  BY DEF NewOutputs, CbOuts, TxOuts
<1>2. CbOuts \cup TxOuts \subseteq OutPoint
  <2>1. \A k \in {Miner, Pool1, Pool2, Mint} : <<h, 0, k>> \in OutPoint
    BY ConstAssumption DEF OutPoint
  <2>2. \A t \in 1..Len(txs) : <<h, t, 0>> \in OutPoint
    BY LenInNat, ConstAssumption DEF OutPoint
  <2> QED
    BY <2>1, <2>2 DEF CbOuts, TxOuts
<1>3. ASSUME NEW k \in {Miner, Pool1, Pool2, Mint}
      PROVE  NewOutputs(cb, txs, h)[<<h, 0, k>>] \in Entry
  BY <1>3 DEF NewOutputs, Entry, Miner, Pool1, Pool2, Mint
<1>4. ASSUME NEW t \in 1..Len(txs)
      PROVE  NewOutputs(cb, txs, h)[<<h, t, 0>>] \in Entry
  <2>1. txs[t] \in TxRec
    BY <1>4
  <2>2. txs[t].out \in Nat
    BY <2>1 DEF TxRec
  <2> QED
    BY <1>4, <2>2 DEF NewOutputs, Entry
<1> QED
  BY <1>1, <1>2, <1>3, <1>4 DEF CbOuts, TxOuts

\* A connected block keeps every entry of the view (marking some spent) and
\* adds the outputs of NewOutputs.
LEMMA ConnectTransactionsType ==
  ASSUME TypeOK, NEW cb, NEW txs \in Seq(TxRec), Len(txs) <= MaxTxs,
         NEW h \in 1..MaxHeight,
         {cb.miner, cb.pool1, cb.pool2, cb.mint} \subseteq Nat
  PROVE  /\ DOMAIN ConnectTransactions(cb, txs, h) \subseteq OutPoint
         /\ \A o \in DOMAIN ConnectTransactions(cb, txs, h) :
               ConnectTransactions(cb, txs, h)[o] \in Entry
<1> DEFINE added == NewOutputs(cb, txs, h)
           l == SpendList(cb, txs)
           spent == {l[i] : i \in 1..(FirstFailure(l) - 1)}
<1>1. ConnectTransactions(cb, txs, h) =
        [o \in DOMAIN view \cup DOMAIN added |->
           IF o \in DOMAIN added THEN added[o]
           ELSE [view[o] EXCEPT !.spent = @ \/ o \in spent]]
  BY DEF ConnectTransactions
<1>2. /\ DOMAIN added \subseteq OutPoint
      /\ \A o \in DOMAIN added : added[o] \in Entry
  BY NewOutputsType
<1>3. ASSUME NEW o \in DOMAIN view
      PROVE  [view[o] EXCEPT !.spent = @ \/ o \in spent] \in Entry
  BY DEF TypeOK, Entry
<1> QED
  BY <1>1, <1>2, <1>3 DEF TypeOK

-----------------------------------------------------------------------------
(* The type invariant.                                                     *)

\* Integer division of a natural number by a positive one is natural.
LEMMA DivNat ==
  ASSUME NEW a \in Nat, NEW b \in Nat \ {0}
  PROVE  a \div b \in Nat
  OBVIOUS

\* CalcBlockSubsidy is a natural number at every height.
LEMMA SubsidyNat ==
  ASSUME NEW h \in Nat
  PROVE  CalcBlockSubsidy(h) \in Nat
<1> DEFINE q == h \div SubsidyReductionInterval
<1>1. CASE SubsidyReductionInterval = 0 \/ q = 0
  BY <1>1, ConstAssumption DEF CalcBlockSubsidy, q
<1>2. CASE SubsidyReductionInterval # 0 /\ q # 0
  <2>1. q \in Nat \ {0}
    BY <1>2, ConstAssumption DEF q
  <2>2. BaseSubsidy \div q \in Nat
    BY <2>1, ConstAssumption, DivNat
  <2> QED
    BY <1>2, <2>2 DEF CalcBlockSubsidy, q
<1> QED
  BY <1>1, <1>2

\* The initial state, genesis with an empty view, is well typed.
LEMMA InitTypeOK == Init => TypeOK
  BY ConstAssumption DEF Init, TypeOK

\* One accepted block (checkConnectBlock returning nil, then
\* connectTransactions) preserves the type invariant.
LEMMA ConnectBlockTypeOK ==
  ASSUME TypeOK, tip < MaxHeight,
         NEW txs \in Seq(TxRec), Len(txs) <= MaxTxs,
         NEW cb, cb.ins \in Seq(Ref),
         {cb.miner, cb.pool1, cb.pool2, cb.mint} \subseteq Nat,
         ConnectBlock(cb, txs)
  PROVE  TypeOK'
<1> DEFINE h == tip + 1
           s == CalcBlockSubsidy(h)
<1>1. h \in 1..MaxHeight
  BY ConstAssumption DEF TypeOK, h
<1>2. tip' \in 0..MaxHeight
  BY <1>1 DEF ConnectBlock, h
<1>3. /\ DOMAIN view' \subseteq OutPoint
      /\ \A o \in DOMAIN view' : view'[o] \in Entry
  <2>1. view' = ConnectTransactions(cb, txs, h)
    BY DEF ConnectBlock, h
  <2> QED
    BY <2>1, <1>1, ConnectTransactionsType
<1>4. consumed' \subseteq [op : Ref, h : 1..MaxHeight, t : 0..MaxTxs]
  <2>1. consumed' = consumed \cup
           {[op |-> cb.ins[i], h |-> h, t |-> 0] : i \in 1..Len(cb.ins)}
           \cup UNION {{[op |-> txs[t].ins[i], h |-> h, t |-> t] :
                          i \in 1..Len(txs[t].ins)} : t \in 1..Len(txs)}
    BY DEF ConnectBlock, h
  <2>2. \A i \in 1..Len(cb.ins) : cb.ins[i] \in Ref
    OBVIOUS
  <2>3. ASSUME NEW t \in 1..Len(txs)
        PROVE  \A i \in 1..Len(txs[t].ins) : txs[t].ins[i] \in Ref
    <3>1. txs[t] \in TxRec
      OBVIOUS
    <3>2. txs[t].ins \in Seq(Ref)
      BY <3>1 DEF TxRec
    <3> QED
      BY <3>2
  <2>4. 1..Len(txs) \subseteq 1..MaxTxs
    BY ConstAssumption
  <2> DEFINE R == [op : Ref, h : 1..MaxHeight, t : 0..MaxTxs]
  <2>5. {[op |-> cb.ins[i], h |-> h, t |-> 0] : i \in 1..Len(cb.ins)} \subseteq R
    BY <2>2, <1>1, ConstAssumption DEF R
  <2>6. UNION {{[op |-> txs[t].ins[i], h |-> h, t |-> t] :
                  i \in 1..Len(txs[t].ins)} : t \in 1..Len(txs)} \subseteq R
    BY <2>3, <2>4, <1>1 DEF R
  <2>7. consumed \subseteq R
    BY DEF TypeOK, Ref, R
  <2> QED
    BY <2>1, <2>5, <2>6, <2>7 DEF R
<1>5. s \in Nat
  BY <1>1, SubsidyNat DEF s
<1>6. Income1(s) \in Nat /\ Income2(s) \in Nat
  BY <1>5 DEF Income1, Income2
<1>7. minted' \in Nat
  <2>1. minted' = IF h > EntangleHeight THEN minted + cb.mint ELSE minted
    BY DEF ConnectBlock, h
  <2>2. minted \in Nat /\ cb.mint \in Nat
    BY DEF TypeOK
  <2> QED
    BY <2>1, <2>2
<1>8. accrued' \in Nat \X Nat
  <2>1. accrued' = IF h > EntangleHeight
                   THEN <<accrued[1] + Income1(s), accrued[2] + Income2(s)>>
                   ELSE accrued
    BY DEF ConnectBlock, h, s
  <2>2. accrued \in Nat \X Nat
    BY DEF TypeOK
  <2> QED
    BY <2>1, <2>2, <1>6
<1>9. skipped' \subseteq 1..MaxHeight
  <2>1. skipped' = IF Connects(cb, txs) THEN skipped ELSE skipped \cup {h}
    BY DEF ConnectBlock, h
  <2> QED
    BY <2>1, <1>1 DEF TypeOK
<1> QED
  BY <1>2, <1>3, <1>4, <1>7, <1>8, <1>9 DEF TypeOK, Ref

\* A step of Next connects some well-shaped candidate block or stutters.
LEMMA NextShape ==
  ASSUME TypeOK, [Next]_vars
  PROVE  \/ \E txs \in Seq(TxRec), cb \in [ins : Seq(Ref), miner : Nat, pool1 : Nat,
                                           pool2 : Nat, mint : Nat] :
              /\ tip < MaxHeight /\ Len(txs) <= MaxTxs
              /\ ConnectBlock(cb, txs)
         \/ UNCHANGED vars
<1>1. ASSUME tip < MaxHeight, NEW txs \in TxChoices,
             NEW ins \in CbInputChoices(tip + 1),
             NEW c \in CoinbaseChoices(CalcBlockSubsidy(tip + 1), Fees(txs),
                                       EntangleAmount(txs), tip + 1),
             ConnectBlock([ins |-> ins, miner |-> c.miner, pool1 |-> c.pool1,
                           pool2 |-> c.pool2, mint |-> c.mint], txs)
      PROVE  \E t \in Seq(TxRec), cb \in [ins : Seq(Ref), miner : Nat, pool1 : Nat,
                                          pool2 : Nat, mint : Nat] :
               /\ tip < MaxHeight /\ Len(t) <= MaxTxs
               /\ ConnectBlock(cb, t)
  <2> DEFINE cb == [ins |-> ins, miner |-> c.miner, pool1 |-> c.pool1,
                    pool2 |-> c.pool2, mint |-> c.mint]
  <2>1. txs \in Seq(TxRec) /\ Len(txs) <= MaxTxs
    BY TxChoicesType
  <2>2. ins \in Seq(Ref)
    BY CbInputChoicesType
  <2>3. {c.miner, c.pool1, c.pool2, c.mint} \subseteq Nat
    BY DEF CoinbaseChoices
  <2>4. cb \in [ins : Seq(Ref), miner : Nat, pool1 : Nat, pool2 : Nat, mint : Nat]
    BY <2>2, <2>3 DEF cb
  <2> QED
    BY <1>1, <2>1, <2>4, Zenon DEF cb
<1> QED
  BY <1>1 DEF Next

\* Each step of Next preserves the type invariant.
LEMMA NextTypeOK == TypeOK /\ [Next]_vars => TypeOK'
<1> SUFFICES ASSUME TypeOK, [Next]_vars PROVE TypeOK'
  OBVIOUS
<1>1. ASSUME NEW txs \in Seq(TxRec),
             NEW cb \in [ins : Seq(Ref), miner : Nat, pool1 : Nat, pool2 : Nat, mint : Nat],
             tip < MaxHeight, Len(txs) <= MaxTxs, ConnectBlock(cb, txs)
      PROVE  TypeOK'
  BY <1>1, ConnectBlockTypeOK
<1>2. CASE UNCHANGED vars
  BY <1>2 DEF TypeOK, vars
<1> QED
  BY <1>1, <1>2, NextShape

\* Type correctness of the connect-time model: every reachable state has a
\* tip within the bound, a view of well-formed entries at outpoints of the
\* connected heights, a consumed history of inputs of connected blocks and
\* natural mint and share totals.
THEOREM TypeCorrect == Spec => []TypeOK
<1>1. Init => TypeOK
  BY InitTypeOK
<1>2. TypeOK /\ [Next]_vars => TypeOK'
  BY NextTypeOK
<1> QED
  BY <1>1, <1>2, PTL DEF Spec
-----------------------------------------------------------------------------
(* The pool ledger.                                                        *)

\* Up to the activation block nothing is minted or credited to the pools.
PreActivation ==
  tip <= EntangleHeight => minted = 0 /\ accrued = <<0, 0>>

\* The inductive invariant behind PoolLedger.
IInv == TypeOK /\ PreActivation /\ PoolLedger

\* LookupAmount as a function of the view it reads, so that the amounts of
\* the view before and after a step can be named at the same outpoint.
AmountIn(v, op) == IF op \in DOMAIN v THEN v[op].amount ELSE 0

\* What a connected block does to the amounts of the view: an outpoint of
\* the block reads the new output, any other reads what it read before
\* (connectTransactions only marks old entries spent).
LEMMA AmountAfterConnect ==
  ASSUME TypeOK, NEW cb, NEW txs, NEW h,
         view' = ConnectTransactions(cb, txs, h)
  PROVE  \A op :
           /\ op \in DOMAIN NewOutputs(cb, txs, h) =>
                AmountIn(view', op) = NewOutputs(cb, txs, h)[op].amount
           /\ op \notin DOMAIN NewOutputs(cb, txs, h) =>
                AmountIn(view', op) = AmountIn(view, op)
<1> SUFFICES ASSUME NEW op
             PROVE  /\ op \in DOMAIN NewOutputs(cb, txs, h) =>
                          AmountIn(view', op) = NewOutputs(cb, txs, h)[op].amount
                    /\ op \notin DOMAIN NewOutputs(cb, txs, h) =>
                          AmountIn(view', op) = AmountIn(view, op)
  OBVIOUS
<1> DEFINE added == NewOutputs(cb, txs, h)
           l == SpendList(cb, txs)
           spent == {l[i] : i \in 1..(FirstFailure(l) - 1)}
<1>1. view' = [o \in DOMAIN view \cup DOMAIN added |->
                 IF o \in DOMAIN added THEN added[o]
                 ELSE [view[o] EXCEPT !.spent = @ \/ o \in spent]]
  BY DEF ConnectTransactions
<1>2. ASSUME op \in DOMAIN view, op \notin DOMAIN added
      PROVE  [view[op] EXCEPT !.spent = @ \/ op \in spent].amount = view[op].amount
  BY <1>2 DEF TypeOK, Entry
<1> QED
  BY <1>1, <1>2 DEF AmountIn

\* The coinbase outputs of a block at height h are outputs of NewOutputs
\* with the proposed amounts; no outpoint of another height is.
LEMMA NewCoinbaseOutputs ==
  ASSUME NEW cb, NEW txs, NEW h
  PROVE  /\ <<h, 0, Pool1>> \in DOMAIN NewOutputs(cb, txs, h)
         /\ <<h, 0, Pool2>> \in DOMAIN NewOutputs(cb, txs, h)
         /\ NewOutputs(cb, txs, h)[<<h, 0, Pool1>>].amount = cb.pool1
         /\ NewOutputs(cb, txs, h)[<<h, 0, Pool2>>].amount = cb.pool2
         /\ \A e, k : e # h => <<e, 0, k>> \notin DOMAIN NewOutputs(cb, txs, h)
<1>1. NewOutputs(cb, txs, h)[<<h, 0, Pool1>>].amount = cb.pool1
  BY DEF NewOutputs, Miner, Pool1, Pool2, Mint
<1>2. NewOutputs(cb, txs, h)[<<h, 0, Pool2>>].amount = cb.pool2
  BY DEF NewOutputs, Miner, Pool1, Pool2, Mint
<1> QED
  BY <1>1, <1>2 DEF NewOutputs, Miner, Pool1, Pool2, Mint

\* One accepted block preserves the pool ledger: after EntangleHeight a
\* block whose connectTransactions succeeded passed checkBlockSubsidy, which
\* makes the new pool-1 output the parent's plus the 19%
\* share less the minted amount, which the mint output carries, and the new
\* pool-2 output the parent's plus the 1% share.
LEMMA ConnectBlockIInv ==
  ASSUME IInv, TypeOK', tip < MaxHeight, NEW txs, NEW cb, cb.mint \in Nat,
         ConnectBlock(cb, txs)
  PROVE  PreActivation' /\ PoolLedger'
<1> DEFINE h == tip + 1
           s == CalcBlockSubsidy(h)
           P1E == AmountIn(view, <<EntangleHeight, 0, Pool1>>)
           P2E == AmountIn(view, <<EntangleHeight, 0, Pool2>>)
<1>0. tip \in Nat /\ EntangleHeight \in Nat
  BY ConstAssumption DEF IInv, TypeOK
<1>1. /\ h \in 1..MaxHeight /\ tip' = h
      /\ view' = ConnectTransactions(cb, txs, h)
      /\ skipped' = IF Connects(cb, txs) THEN skipped ELSE skipped \cup {h}
  BY ConstAssumption DEF IInv, TypeOK, ConnectBlock, h
<1>2. PoolLedger' <=>
        (h >= EntangleHeight /\ (\A k \in skipped' : k <= EntangleHeight) =>
           /\ AmountIn(view', <<h, 0, Pool1>>) + minted'
                = AmountIn(view', <<EntangleHeight, 0, Pool1>>) + accrued'[1]
           /\ AmountIn(view', <<h, 0, Pool2>>)
                = AmountIn(view', <<EntangleHeight, 0, Pool2>>) + accrued'[2])
  BY <1>1 DEF PoolLedger, LookupAmount, AmountIn
<1>3. /\ AmountIn(view', <<h, 0, Pool1>>) = cb.pool1
      /\ AmountIn(view', <<h, 0, Pool2>>) = cb.pool2
  <2>1. \A op : op \in DOMAIN NewOutputs(cb, txs, h) =>
                  AmountIn(view', op) = NewOutputs(cb, txs, h)[op].amount
    BY <1>1, AmountAfterConnect DEF IInv
  <2>2. /\ <<h, 0, Pool1>> \in DOMAIN NewOutputs(cb, txs, h)
        /\ <<h, 0, Pool2>> \in DOMAIN NewOutputs(cb, txs, h)
        /\ NewOutputs(cb, txs, h)[<<h, 0, Pool1>>].amount = cb.pool1
        /\ NewOutputs(cb, txs, h)[<<h, 0, Pool2>>].amount = cb.pool2
    BY NewCoinbaseOutputs
  <2> QED
    BY <2>1, <2>2
<1>4. /\ s \in Nat /\ Income1(s) \in Nat /\ Income2(s) \in Nat
  <2>1. s \in Nat
    BY <1>1, SubsidyNat DEF s
  <2> QED
    BY <2>1 DEF Income1, Income2
<1>5. /\ AmountIn(view', <<EntangleHeight, 0, Pool1>>) \in Nat
      /\ AmountIn(view', <<EntangleHeight, 0, Pool2>>) \in Nat
      /\ AmountIn(view, <<tip, 0, Pool1>>) \in Nat
      /\ AmountIn(view, <<tip, 0, Pool2>>) \in Nat
      /\ P1E \in Nat /\ P2E \in Nat
      /\ minted \in Nat /\ accrued \in Nat \X Nat
  BY DEF IInv, TypeOK, Entry, AmountIn, P1E, P2E
<1>6. CASE h <= EntangleHeight
  <2>1. minted' = minted /\ accrued' = accrued
    BY <1>0, <1>6 DEF ConnectBlock, h
  <2>2. minted = 0 /\ accrued = <<0, 0>>
    BY <1>0, <1>6 DEF IInv, PreActivation, h
  <2>3. PreActivation'
    BY <2>1, <2>2 DEF PreActivation
  <2>4. PoolLedger'
    <3>1. CASE h = EntangleHeight
      <4>1. minted' = 0 /\ accrued'[1] = 0 /\ accrued'[2] = 0
        BY <2>1, <2>2
      <4>2. /\ AmountIn(view', <<h, 0, Pool1>>) + minted'
                 = AmountIn(view', <<EntangleHeight, 0, Pool1>>) + accrued'[1]
            /\ AmountIn(view', <<h, 0, Pool2>>)
                 = AmountIn(view', <<EntangleHeight, 0, Pool2>>) + accrued'[2]
        BY <3>1, <4>1, <1>5 DEF h
      <4> QED
        BY <4>2, <1>2
    <3>2. CASE h < EntangleHeight
      BY <3>2, <1>0, <1>2
    <3> QED
      BY <3>1, <3>2, <1>0, <1>6
  <2> QED
    BY <2>3, <2>4
<1>7. CASE h > EntangleHeight
  <2>1. PreActivation'
    BY <1>0, <1>1, <1>7 DEF PreActivation
  <2>2. CASE ~Connects(cb, txs) \/ ~(\A k \in skipped : k <= EntangleHeight)
    \* a block accepted after connectTransactions failed, or an earlier one:
    \* the ledger is no longer claimed
    <3>1. skipped \subseteq skipped'
      BY <1>1
    <3>2. ~Connects(cb, txs) => h \in skipped'
      BY <1>1
    <3>3. ~(\A k \in skipped' : k <= EntangleHeight)
      BY <3>1, <3>2, <1>0, <1>7, <2>2
    <3> QED
      BY <2>1, <3>3, <1>2
  <2>3. CASE Connects(cb, txs) /\ \A k \in skipped : k <= EntangleHeight
    <3>1. /\ minted' = minted + cb.mint
          /\ accrued' = <<accrued[1] + Income1(s), accrued[2] + Income2(s)>>
      BY <1>0, <1>7 DEF ConnectBlock, h, s
    <3>2. /\ cb.mint = EntangleAmount(txs)
          /\ cb.pool1 = AmountIn(view, <<tip, 0, Pool1>>) + Income1(s) - EntangleAmount(txs)
          /\ cb.pool2 = AmountIn(view, <<tip, 0, Pool2>>) + Income2(s)
      BY <1>0, <1>7, <2>3 DEF ConnectBlock, BlockSubsidyOK, LastPool, LookupAmount,
                              AmountIn, h, s
    <3>3. /\ AmountIn(view', <<EntangleHeight, 0, Pool1>>) = P1E
          /\ AmountIn(view', <<EntangleHeight, 0, Pool2>>) = P2E
      <4>1. EntangleHeight # h
        BY <1>0, <1>7
      <4>2. \A op : op \notin DOMAIN NewOutputs(cb, txs, h) =>
                      AmountIn(view', op) = AmountIn(view, op)
        BY <1>1, AmountAfterConnect DEF IInv
      <4>3. /\ <<EntangleHeight, 0, Pool1>> \notin DOMAIN NewOutputs(cb, txs, h)
            /\ <<EntangleHeight, 0, Pool2>> \notin DOMAIN NewOutputs(cb, txs, h)
        BY <4>1, NewCoinbaseOutputs
      <4> QED
        BY <4>2, <4>3 DEF P1E, P2E
    <3>4. /\ AmountIn(view, <<tip, 0, Pool1>>) + minted = P1E + accrued[1]
          /\ AmountIn(view, <<tip, 0, Pool2>>) = P2E + accrued[2]
      BY <1>0, <1>7, <2>3 DEF IInv, PoolLedger, LookupAmount, AmountIn, h, P1E, P2E
    <3> DEFINE A1 == AmountIn(view, <<tip, 0, Pool1>>)
               A2 == AmountIn(view, <<tip, 0, Pool2>>)
               E == EntangleAmount(txs)
    <3>5. /\ A1 \in Nat /\ A2 \in Nat /\ E \in Nat /\ minted \in Nat
          /\ accrued[1] \in Nat /\ accrued[2] \in Nat
          /\ P1E \in Nat /\ P2E \in Nat
      BY <1>5, <3>2 DEF A1, A2, E
    <3>6. /\ AmountIn(view', <<h, 0, Pool1>>) = A1 + Income1(s) - E
          /\ minted' = minted + E
          /\ accrued'[1] = accrued[1] + Income1(s)
          /\ A1 + minted = P1E + accrued[1]
      BY <1>3, <3>1, <3>2, <3>4 DEF A1, E
    <3>7. AmountIn(view', <<h, 0, Pool1>>) + minted' = P1E + accrued'[1]
      BY <3>5, <3>6, <1>4 DEF A1, E, P1E, h, s
    <3>8. /\ AmountIn(view', <<h, 0, Pool2>>) = A2 + Income2(s)
          /\ accrued'[2] = accrued[2] + Income2(s)
          /\ A2 = P2E + accrued[2]
      BY <1>3, <3>1, <3>2, <3>4 DEF A2
    <3>9. AmountIn(view', <<h, 0, Pool2>>) = P2E + accrued'[2]
      BY <3>5, <3>8, <1>4 DEF A2, P2E, h, s
    <3> QED
      BY <1>2, <2>1, <3>3, <3>7, <3>9
  <2> QED
    BY <2>2, <2>3
<1> QED
  BY <1>0, <1>6, <1>7 DEF h

\* Genesis satisfies the inductive invariant: the tip is below the
\* activation height and nothing is minted or credited.
LEMMA InitIInv == Init => IInv
  BY InitTypeOK, ConstAssumption DEF Init, IInv, PreActivation, PoolLedger

\* Each step of Next preserves the inductive invariant.
LEMMA NextIInv == IInv /\ [Next]_vars => IInv'
<1> SUFFICES ASSUME IInv, [Next]_vars PROVE IInv'
  OBVIOUS
<1>1. TypeOK'
  BY NextTypeOK DEF IInv
<1>2. ASSUME NEW txs \in Seq(TxRec),
             NEW cb \in [ins : Seq(Ref), miner : Nat, pool1 : Nat, pool2 : Nat, mint : Nat],
             tip < MaxHeight, Len(txs) <= MaxTxs, ConnectBlock(cb, txs)
      PROVE  IInv'
  <2>1. cb.mint \in Nat
    OBVIOUS
  <2> QED
    BY <1>1, <1>2, <2>1, ConnectBlockIInv DEF IInv
<1>3. CASE UNCHANGED vars
  BY <1>1, <1>3 DEF IInv, PreActivation, PoolLedger, LookupAmount, vars
<1> QED
  BY <1>2, <1>3, NextShape DEF IInv

\* The pool ledger holds for every value of the constants: after the
\* activation block, the pool-1 output of the tip's coinbase plus all that
\* was minted since equals the activation block's pool-1 output plus the
\* 19% shares credited since, and the pool-2 output grows by the 1% shares
\* alone (checkBlockSubsidy reading the parent's pools through
\* getPoolAmountFromPreBlock at every height).
THEOREM PoolLedgerHolds == Spec => []PoolLedger
<1>1. Init => IInv
  BY InitIInv
<1>2. IInv /\ [Next]_vars => IInv'
  BY NextIInv
<1>3. IInv => PoolLedger
  BY DEF IInv
<1> QED
  BY <1>1, <1>2, <1>3, PTL DEF Spec

====
