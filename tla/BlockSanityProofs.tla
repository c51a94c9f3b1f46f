-------------------------- MODULE BlockSanityProofs --------------------------
(***************************************************************************)
(* Proofs about the BlockSanity pipeline, for every value of the constants *)
(* that BlockSanityAssumption allows, and in particular whether or not     *)
(* MainNetParams.EntangleHeight equals the chain's EntangleHeight.         *)
(*                                                                         *)
(* The argument for CoinbaseLayout: a connected block passed               *)
(* checkBlockSanity, so its first transaction is IsCoinBaseTx-shaped and   *)
(* spends the null outpoint; it passed checkSerializedHeight, so its       *)
(* script claims the block's height; and its inputs were all found by      *)
(* CheckTransactionInputs.  Had isCoinBaseInParam rejected it, every input *)
(* would have been looked up, the null one too, and the null outpoint is   *)
(* never in the view: so isCoinBaseInParam accepted it, and that rule      *)
(* fixes the input count by the chain's EntangleHeight at the claimed,     *)
(* hence the real, height.  Blocks already connected never change.         *)
(***************************************************************************)
EXTENDS BlockSanity, SequenceTheorems, TLAPS

Block == [txs : Seq(TxPool), rootOK : BOOLEAN]

\* Every block a peer may offer is a record of pool transactions.
LEMMA BlockChoicesType ==
  ASSUME NEW b \in BlockChoices
  PROVE  b \in Block
<1>1. PICK t \in UNION {[1..n -> TxPool] : n \in 0..MaxTxs}, r \in BOOLEAN :
         b = [txs |-> t, rootOK |-> r]
  BY DEF BlockChoices
<1>2. t \in Seq(TxPool)
  BY <1>1, BlockSanityAssumption, SeqDef
<1>3. QED
  BY <1>1, <1>2 DEF Block

\* What the pipeline guarantees of the coinbase of a block it accepts at
\* height h: the three checks, in the order the code runs them, pin its
\* null input, its height claim and its input count.
LEMMA AcceptedCoinbase ==
  ASSUME NEW b \in Block, NEW h \in Nat, Outcome(b, h) = Ok
  PROVE  LET cb == b.txs[1]
         IN  /\ Len(b.txs) >= 1
             /\ cb.ins[1] = NullOut
             /\ HeightDecodes(cb) /\ CoinbaseHeight(cb) = h
             /\ Len(cb.ins) = IF h >= EntangleHeight THEN 3 ELSE 1
<1> DEFINE cb == b.txs[1]
<1>1. CheckBlockSanity(b) = Ok
  BY DEF Outcome, Ok, Err, Panic
<1>2. /\ CheckBlockContext(b, h)
      /\ \A i \in 1..Len(b.txs) : TxInputsFound(b.txs[i], h)
  BY <1>1 DEF Outcome, Ok, Err
<1>3. Len(b.txs) # 0 /\ IsCoinBase(cb)
  BY <1>1 DEF CheckBlockSanity, Ok, Err, Panic
<1>4. Len(b.txs) >= 1 /\ cb \in Tx
  BY <1>3, BlockSanityAssumption DEF Block
<1>5. cb.ins[1] = NullOut /\ Len(cb.ins) >= 1
  BY <1>3 DEF IsCoinBase, CoinbaseShaped
<1>6. HeightDecodes(cb) /\ CoinbaseHeight(cb) = h
  BY <1>2, <1>4 DEF CheckBlockContext, CheckSerializedHeight
<1>7. IsCoinBaseInParam(cb)
  <2> SUFFICES ASSUME ~IsCoinBaseInParam(cb) PROVE FALSE
    OBVIOUS
  <2>1. TxInputsFound(cb, h)
    BY <1>2, <1>4
  <2>2. \A j \in 1..Len(cb.ins) : cb.ins[j] \in View
    BY <2>1 DEF TxInputsFound
  <2>3. Len(cb.ins) \in Nat
    BY <1>4 DEF Tx
  <2>4. cb.ins[1] \in View
    BY <2>2, <2>3, <1>5
  <2>5. QED
    BY <2>4, <1>5, BlockSanityAssumption
<1>8. Len(cb.ins) = IF h >= EntangleHeight THEN 3 ELSE 1
  BY <1>6, <1>7 DEF IsCoinBaseInParam, CoinbaseShaped
<1>9. QED
  BY <1>4, <1>5, <1>6, <1>8

\* The inductive invariant: the type and the layout together.
IInv == TypeOK /\ CoinbaseLayout

\* The initial state satisfies the invariant.
LEMMA IInvInit == Init => IInv
<1> SUFFICES ASSUME Init PROVE IInv
  OBVIOUS
<1>1. chain = << >> /\ panicked = FALSE /\ crashes = 0
  BY DEF Init
<1>2. chain \in Seq(Block) /\ Tip = 0
  BY <1>1, EmptySeq DEF Tip
<1>3. TypeOK
  <2>1. Tip \in 0..MaxHeight /\ crashes \in 0..MaxCrashes
    BY <1>1, <1>2, BlockSanityAssumption
  <2>2. QED
    BY <1>1, <1>2, <2>1 DEF TypeOK, Block
<1>4. CoinbaseLayout
  BY <1>2 DEF CoinbaseLayout
<1>5. QED
  BY <1>3, <1>4 DEF IInv

\* Each step keeps the invariant.
LEMMA IInvStep == IInv /\ [Next]_vars => IInv'
<1> SUFFICES ASSUME IInv, [Next]_vars PROVE IInv'
  OBVIOUS
<1> USE BlockSanityAssumption
<1>1. chain \in Seq(Block)
  BY DEF IInv, TypeOK, Block
<1>2. CASE \E b \in BlockChoices : AcceptBlock(b)
  <2>1. PICK b \in BlockChoices : AcceptBlock(b)
    BY <1>2
  <2>2. b \in Block
    BY BlockChoicesType
  <2>3. /\ chain' \in Seq(Block)
        /\ Len(chain') = Len(chain) + 1
        /\ \A i \in 1..Len(chain) : chain'[i] = chain[i]
        /\ chain'[Len(chain) + 1] = b
    BY <1>1, <2>1, <2>2, AppendProperties DEF AcceptBlock
  <2>4. TypeOK'
    BY <2>1, <2>3 DEF AcceptBlock, IInv, TypeOK, Tip, Block
  <2>5. CoinbaseLayout'
    <3> SUFFICES ASSUME NEW h \in 1..Len(chain')
                 PROVE  LET cb == chain'[h].txs[1]
                        IN  /\ cb.ins[1] = NullOut
                            /\ HeightDecodes(cb) /\ CoinbaseHeight(cb) = h
                            /\ Len(cb.ins) = IF h >= EntangleHeight THEN 3 ELSE 1
      BY DEF CoinbaseLayout, Tip
    <3>1. CASE h \in 1..Len(chain)
      BY <3>1, <2>3 DEF IInv, CoinbaseLayout, Tip
    <3>2. CASE h = Len(chain) + 1
      <4>1. Outcome(b, h) = Ok
        BY <3>2, <2>1 DEF AcceptBlock, Tip
      <4>2. QED
        BY <4>1, <3>2, <2>2, <2>3, <1>1, AcceptedCoinbase
    <3>3. QED
      BY <3>1, <3>2, <2>3, <1>1
  <2>6. QED
    BY <2>4, <2>5 DEF IInv
<1>3. CASE \E b \in BlockChoices : PanicBlock(b)
  BY <1>3 DEF PanicBlock, IInv, TypeOK, CoinbaseLayout, Tip
<1>4. CASE Restart
  BY <1>4 DEF Restart, IInv, TypeOK, CoinbaseLayout, Tip
<1>5. CASE Halted
  BY <1>5 DEF Halted, vars, IInv, TypeOK, CoinbaseLayout, Tip
<1>6. CASE UNCHANGED vars
  BY <1>6 DEF vars, IInv, TypeOK, CoinbaseLayout, Tip
<1>7. QED
  BY <1>2, <1>3, <1>4, <1>5, <1>6 DEF Next

\* Every connected block's coinbase spends the null outpoint, encodes the
\* block's height, and has three inputs from the chain's EntangleHeight on
\* and one before: the checks of checkBlockSanity, checkSerializedHeight and
\* CheckTransactionInputs together keep it so for every parameter choice.
THEOREM CoinbaseLayoutHolds == Spec => []CoinbaseLayout
<1>1. Init => IInv
  BY IInvInit
<1>2. IInv => CoinbaseLayout
  BY DEF IInv
<1>3. QED
  BY <1>1, <1>2, IInvStep, PTL DEF Spec

\* The node's state keeps its type.
THEOREM TypeCorrect == Spec => []TypeOK
<1>1. Init => IInv
  BY IInvInit
<1>2. QED
  BY <1>1, IInvStep, PTL DEF Spec, IInv
-----------------------------------------------------------------------------
(* Refinement of CoinbaseChain.  The mapping reads the coinbase of every  *)
(* connected block through CoinbaseView and maps a crashed node to a down *)
(* one.  AcceptBlock is Extend (by AcceptedCoinbase the appended view is  *)
(* Expected of the new height), PanicBlock is Crash, Restart is Recover,  *)
(* and Halted is a stutter.                                               *)

Mapped == [h \in 1..Tip |-> CoinbaseView(h)]

\* CoinbaseView of the block at height h of a chain c.
ViewOf(c, h) ==
  LET cb == c[h].txs[1]
  IN  [decodes |-> HeightDecodes(cb), claim |-> CoinbaseHeight(cb),
       nullIn |-> cb.ins[1] = NullOut, nins |-> Len(cb.ins)]

\* Genesis maps to the abstract initial state.
LEMMA RefineInit == Init => CC!Init
<1> SUFFICES ASSUME Init PROVE Mapped = << >> /\ panicked = FALSE
  BY DEF CC!Init, Mapped
<1>1. Tip = 0
  BY EmptySeq DEF Init, Tip
<1> QED
  BY <1>1 DEF Init, Mapped

\* Appending an accepted block appends its coinbase's view to the mapping.
LEMMA MappedAppend ==
  ASSUME IInv, NEW b \in BlockChoices, AcceptBlock(b)
  PROVE  Mapped' = Append(Mapped, CC!Expected(Len(Mapped) + 1))
<1>1. chain \in Seq(Block)
  BY DEF IInv, TypeOK, Block
<1>2. b \in Block
  BY BlockChoicesType
<1>3. /\ Len(chain') = Len(chain) + 1
      /\ \A i \in 1..Len(chain) : chain'[i] = chain[i]
      /\ chain'[Len(chain) + 1] = b
  BY <1>1, <1>2, AppendProperties DEF AcceptBlock
<1>4. Len(chain) \in Nat
  BY <1>1, LenProperties
<1>5. Len(Mapped) = Len(chain)
  BY <1>4 DEF Mapped, Tip
<1>6. Outcome(b, Len(chain) + 1) = Ok
  BY DEF AcceptBlock, Tip
<1>7. ViewOf(chain', Len(chain) + 1) = CC!Expected(Len(chain) + 1)
  <2>1. LET cb == b.txs[1]
        IN  /\ cb.ins[1] = NullOut
            /\ HeightDecodes(cb) /\ CoinbaseHeight(cb) = Len(chain) + 1
            /\ Len(cb.ins) = IF Len(chain) + 1 >= EntangleHeight THEN 3 ELSE 1
    BY <1>2, <1>4, <1>6, AcceptedCoinbase
  <2> QED
    BY <2>1, <1>3 DEF ViewOf, CC!Expected
<1>8. \A h \in 1..Len(chain) : ViewOf(chain', h) = ViewOf(chain, h)
  BY <1>3 DEF ViewOf
<1>9. Mapped' = [h \in 1..Len(chain) + 1 |-> ViewOf(chain', h)]
  BY <1>3 DEF Mapped, Tip, CoinbaseView, ViewOf
<1>10. Mapped = [h \in 1..Len(chain) |-> ViewOf(chain, h)]
  BY DEF Mapped, Tip, CoinbaseView, ViewOf
<1> QED
  BY <1>4, <1>5, <1>7, <1>8, <1>9, <1>10

\* Every step of the node is a step of CoinbaseChain or leaves the mapped
\* state alone.
LEMMA RefineStep == IInv /\ [Next]_vars => [CC!Next]_CC!cvars
<1> SUFFICES ASSUME IInv, [Next]_vars PROVE [CC!Next]_CC!cvars
  OBVIOUS
<1>1. CASE \E b \in BlockChoices : AcceptBlock(b)
  <2>1. PICK b \in BlockChoices : AcceptBlock(b)
    BY <1>1
  <2>2. Mapped' = Append(Mapped, CC!Expected(Len(Mapped) + 1))
    BY <2>1, MappedAppend
  <2>3. ~panicked /\ panicked' = panicked
    BY <2>1 DEF AcceptBlock
  <2> QED
    BY <2>2, <2>3 DEF CC!Next, CC!Extend, Mapped
<1>2. CASE \E b \in BlockChoices : PanicBlock(b)
  <2>1. ~panicked /\ panicked' = TRUE /\ chain' = chain
    BY <1>2 DEF PanicBlock
  <2>2. Mapped' = Mapped
    BY <2>1 DEF Mapped, Tip, CoinbaseView
  <2> QED
    BY <2>1, <2>2 DEF CC!Next, CC!Crash, Mapped
<1>3. CASE Restart
  <2>1. panicked /\ panicked' = FALSE /\ chain' = chain
    BY <1>3 DEF Restart
  <2>2. Mapped' = Mapped
    BY <2>1 DEF Mapped, Tip, CoinbaseView
  <2> QED
    BY <2>1, <2>2 DEF CC!Next, CC!Recover, Mapped
<1>4. CASE Halted \/ UNCHANGED vars
  <2>1. chain' = chain /\ panicked' = panicked
    BY <1>4 DEF Halted, vars
  <2>2. Mapped' = Mapped
    BY <2>1 DEF Mapped, Tip, CoinbaseView
  <2> QED
    BY <2>1, <2>2 DEF CC!cvars, Mapped
<1> QED
  BY <1>1, <1>2, <1>3, <1>4 DEF Next

\* The block pipeline implements CoinbaseChain for every parameter choice:
\* checkBlockSanity, checkBlockContext and CheckTransactionInputs connect a
\* block only with the coinbase its height calls for, and a panic in
\* checkBlockSanity with the restart after it leaves the chain as it was.
THEOREM RefinesCoinbaseChain == Spec => CoinbaseChainRefined
<1>1. Init => CC!Init
  BY RefineInit
<1>2. IInv /\ [Next]_vars => [CC!Next]_CC!cvars
  BY RefineStep
<1> QED
  BY <1>1, <1>2, IInvInit, IInvStep, PTL DEF Spec, CoinbaseChainRefined, CC!Spec
====
