------------------------- MODULE EntangleVerifyProofs -------------------------
(***************************************************************************)
(* Proof that every credited entangle item is backed by a real foreign     *)
(* deposit, for every foreign chain, client set and bound that             *)
(* EntangleAssumption allows.  Credits only grow, and only by the items of *)
(* a block CheckBlockEntangle accepts.  That block's every transaction had *)
(* Ok among its outcomes, so VerifyEntangleTx verified each of its items,  *)
(* with some client, through every check of verifyDogeTx / verifyLtcTx up  *)
(* to the last.  The property needs no strengthening: what it says of an   *)
(* item depends on the constant ForeignTx alone, not on the block counts   *)
(* the maturity check read, so a later foreign block cannot undo it.       *)
(***************************************************************************)
EXTENDS EntangleVerify, SequenceTheorems, TLAPS

\* An item some client verifies names a pool output of the claimed amount
\* on a transaction of the item's chain.
LEMMA VerifiedItemBacked ==
  ASSUME NEW e \in Item, NEW k, VerifyForeign(e, k) = Ok
  PROVE  /\ e.ext \in DOMAIN ForeignTx /\ ForeignTx[e.ext].chain = e.chain
         /\ e.vout < Len(ForeignTx[e.ext].outs)
         /\ ForeignTx[e.ext].outs[e.vout + 1].value = e.amount
         /\ ForeignTx[e.ext].outs[e.vout + 1].class = PoolClass
         /\ ForeignTx[e.ext].outs[e.vout + 1].pool
<1> DEFINE f == ForeignTx[e.ext]
<1>0. Ok # Err /\ Ok # Panic
  BY DEF Ok, Err, Panic
<1>1. e.ext # Unknown /\ f.chain = e.chain
  <2>1. ~(e.ext = Unknown \/ ForeignTx[e.ext].chain # e.chain)
    BY <1>0 DEF VerifyForeign
  <2>2. QED
    BY <2>1 DEF f
<1>2. e.ext \in DOMAIN ForeignTx
  BY <1>1 DEF Item
<1>3. ~(Len(f.outs) < e.vout) /\ Len(f.outs) # e.vout
  BY <1>0, <1>1 DEF VerifyForeign, f
<1>4. e.vout \in Nat /\ Len(f.outs) \in Nat
  <2>1. e.vout \in Nat
    BY EntangleAssumption DEF Item
  <2>2. f.outs \in Seq([value : Nat, class : Nat, pool : BOOLEAN])
    BY <1>2, EntangleAssumption DEF f
  <2>3. QED
    BY <2>1, <2>2, LenProperties
<1>5. e.vout < Len(f.outs)
  BY <1>3, <1>4
<1>6. /\ f.outs[e.vout + 1].value = e.amount
      /\ f.outs[e.vout + 1].class = PoolClass
      /\ f.outs[e.vout + 1].pool
  BY <1>0, <1>1, <1>3 DEF VerifyForeign, f
<1>7. QED
  BY <1>1, <1>2, <1>5, <1>6

\* A transaction that can pass VerifyEntangleTx has every item verified by
\* some client.
LEMMA TxOkItemsVerified ==
  ASSUME NEW tx, Ok \in TxOutcomes(tx), NEW e \in tx
  PROVE  \E k \in Clients : VerifyForeign(e, k) = Ok
<1>1. ~(HasCache /\ \E x \in tx : Key(x) \in cache)
  BY DEF TxOutcomes, Ok, Err
<1>2. Ok \in ItemOutcomes(e)
  BY <1>1 DEF TxOutcomes, Ok, Err, Panic
<1>3. QED
  BY <1>2 DEF ItemOutcomes

\* A block that can pass CheckBlockEntangle has every transaction able to
\* pass VerifyEntangleTx.
LEMMA BlockOkTxsOk ==
  ASSUME NEW txs, Ok \in BlockOutcomes(txs), NEW i \in 1..Len(txs)
  PROVE  Ok \in TxOutcomes(txs[i])
  BY DEF BlockOutcomes, Ok, Err, Panic

\* The items of a candidate block are items.
LEMMA BlockItems ==
  ASSUME NEW txs \in BlockChoices, NEW i \in 1..Len(txs), NEW e \in txs[i]
  PROVE  e \in Item
<1>1. PICK n \in 1..MaxTxs : txs \in [1..n -> TxChoices]
  BY DEF BlockChoices
<1>2. txs[i] \in TxChoices
  BY <1>1
<1>3. PICK g \in UNION {[1..m -> Item] : m \in 1..MaxItems} : txs[i] = {g[j] : j \in DOMAIN g}
  BY <1>2 DEF TxChoices
<1>4. PICK m \in 1..MaxItems : g \in [1..m -> Item]
  BY <1>3
<1>5. QED
  BY <1>3, <1>4

\* Each step keeps every credit backed.
LEMMA CreditsStep ==
  CreditsMatchDeposits /\ [Next]_vars => CreditsMatchDeposits'
<1> SUFFICES ASSUME CreditsMatchDeposits, [Next]_vars
             PROVE  CreditsMatchDeposits'
  OBVIOUS
<1>1. CASE \E txs \in BlockChoices : ConnectBlock(txs)
  <2>1. PICK txs \in BlockChoices : ConnectBlock(txs)
    BY <1>1
  <2>2. SUFFICES ASSUME NEW c \in credits'
                 PROVE  DepositBacked(c.item)
    BY DEF CreditsMatchDeposits
  <2>3. CASE c \in credits
    BY <2>3 DEF CreditsMatchDeposits
  <2>4. CASE c \notin credits
    <3>0. PICK i \in 1..Len(txs) :
            \E x \in txs[i] : c = [blk |-> nblocks + 1, tx |-> i, item |-> x]
      BY <2>1, <2>4 DEF ConnectBlock
    <3>1. PICK e \in txs[i] : c = [blk |-> nblocks + 1, tx |-> i, item |-> e]
      BY <3>0
    <3>2. e \in Item
      BY BlockItems
    <3>3. Ok \in TxOutcomes(txs[i])
      BY <2>1, BlockOkTxsOk DEF ConnectBlock
    <3>4. PICK k \in Clients : VerifyForeign(e, k) = Ok
      BY <3>3, TxOkItemsVerified
    <3>5. QED
      BY <3>1, <3>2, <3>4, VerifiedItemBacked DEF DepositBacked
  <2>5. QED
    BY <2>3, <2>4
<1>2. CASE \E txs \in BlockChoices : PanicBlock(txs)
  BY <1>2 DEF PanicBlock, CreditsMatchDeposits
<1>3. CASE \E c \in Chains, k \in Clients : ForeignBlock(c, k)
  BY <1>3 DEF ForeignBlock, CreditsMatchDeposits
<1>4. CASE Halted
  BY <1>4 DEF Halted, vars, CreditsMatchDeposits
<1>5. CASE UNCHANGED vars
  BY <1>5 DEF vars, CreditsMatchDeposits
<1>6. QED
  BY <1>1, <1>2, <1>3, <1>4, <1>5 DEF Next

\* Every entangle item the node ever credited names an existing output of
\* a transaction of the item's foreign chain that pays the pool script
\* exactly the credited amount: whichever RPC client rand.Intn picked and
\* whatever order Go's map iteration gave, CheckBlockEntangle accepts no
\* block whose items verifyDogeTx / verifyLtcTx did not all verify.
THEOREM CreditsBacked == Spec => []CreditsMatchDeposits
<1>1. Init => CreditsMatchDeposits
  BY DEF Init, CreditsMatchDeposits
<1>2. QED
  BY <1>1, CreditsStep, PTL DEF Spec
-----------------------------------------------------------------------------
(* Type correctness.  TypeOK is inductive.  The bounds it states are the   *)
(* guards of the actions: a block connects only below MaxBlocks, a client  *)
(* counts only below MaxCount, and a block has at most MaxTxs entries.    *)

\* A transaction's index in a candidate block is at most MaxTxs.
LEMMA BlockTxIndex ==
  ASSUME NEW txs \in BlockChoices, NEW i \in 1..Len(txs)
  PROVE  i \in 1..MaxTxs
<1>1. PICK n \in 1..MaxTxs : txs \in [1..n -> TxChoices]
  BY DEF BlockChoices
<1>2. txs \in Seq(TxChoices)
  BY <1>1, SeqDef, EntangleAssumption
<1>3. DOMAIN txs = 1..Len(txs)
  BY <1>2, LenProperties
<1>4. QED
  BY <1>1, <1>3, EntangleAssumption

\* The initial state is well typed.
LEMMA TypeInit == Init => TypeOK
<1> SUFFICES ASSUME Init PROVE TypeOK
  OBVIOUS
<1>1. StartCount \in StartCount..MaxCount
  BY EntangleAssumption
<1>2. count \in [Chains -> [Clients -> StartCount..MaxCount]]
  BY <1>1 DEF Init
<1>3. nblocks \in 0..MaxBlocks
  BY EntangleAssumption DEF Init
<1>4. QED
  BY <1>2, <1>3 DEF Init, TypeOK

\* A connected block keeps the state well typed.
LEMMA TypeConnect ==
  ASSUME TypeOK, NEW txs \in BlockChoices, ConnectBlock(txs)
  PROVE  TypeOK'
<1>1. nblocks' \in 0..MaxBlocks
  BY EntangleAssumption DEF TypeOK, ConnectBlock
<1>2. ASSUME NEW i \in 1..Len(txs), NEW e \in txs[i]
      PROVE  /\ Key(e) \in (DOMAIN ForeignTx \cup {Unknown}) \X ClaimedHeights \X Chains
             /\ [blk |-> nblocks + 1, tx |-> i, item |-> e]
                  \in [blk : 1..MaxBlocks, tx : 1..MaxTxs, item : Item]
  <2>1. e \in Item /\ i \in 1..MaxTxs
    BY BlockItems, BlockTxIndex
  <2>2. nblocks + 1 \in 1..MaxBlocks
    BY EntangleAssumption DEF TypeOK, ConnectBlock
  <2>3. QED
    BY <2>1, <2>2 DEF Key, Item
<1>3. cache' \subseteq (DOMAIN ForeignTx \cup {Unknown}) \X ClaimedHeights \X Chains
  BY <1>2 DEF TypeOK, ConnectBlock, CacheAfter
<1>4. credits' \subseteq [blk : 1..MaxBlocks, tx : 1..MaxTxs, item : Item]
  BY <1>2 DEF TypeOK, ConnectBlock
<1>5. QED
  BY <1>1, <1>3, <1>4 DEF TypeOK, ConnectBlock

\* Every step keeps the state well typed.
LEMMA TypeStep == TypeOK /\ [Next]_vars => TypeOK'
<1> SUFFICES ASSUME TypeOK, [Next]_vars PROVE TypeOK'
  OBVIOUS
<1>1. CASE \E txs \in BlockChoices : ConnectBlock(txs)
  BY <1>1, TypeConnect
<1>2. CASE \E txs \in BlockChoices : PanicBlock(txs)
  BY <1>2 DEF PanicBlock, TypeOK
<1>3. CASE \E c \in Chains, k \in Clients : ForeignBlock(c, k)
  BY <1>3, EntangleAssumption DEF ForeignBlock, TypeOK
<1>4. CASE Halted \/ UNCHANGED vars
  BY <1>4 DEF Halted, vars, TypeOK
<1>5. QED
  BY <1>1, <1>2, <1>3, <1>4 DEF Next

\* Every reachable state is well typed: client counts stay between
\* StartCount and MaxCount, every cached key and credit is built from a
\* candidate item, and every credit records a block and transaction index
\* within the bounds.
THEOREM TypeCorrect == Spec => []TypeOK
  BY TypeInit, TypeStep, PTL DEF Spec
====
