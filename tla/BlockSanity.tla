----------------------------- MODULE BlockSanity -----------------------------
(***************************************************************************)
(* The block pipeline of blockchain/validate.go as CheckConnectBlockTemplate *)
(* runs it on a block that extends the tip: checkBlockSanity (with          *)
(* CheckTransactionSanity, IsCoinBase and ExtractCoinbaseHeight), then     *)
(* checkBlockContext (IsFinalizedTransaction, checkSerializedHeight), then *)
(* the first check checkConnectBlock makes of each transaction,            *)
(* CheckTransactionInputs, which asks checkMergeTxInCoinbase whether the   *)
(* transaction is the coinbase.  Two different rules decide what a         *)
(* coinbase is: IsCoinBaseTx reads chaincfg.MainNetParams.EntangleHeight,  *)
(* isCoinBaseInParam the chain's own.                                      *)
(*                                                                         *)
(* Peers offer blocks built from a constant pool of transactions.  A block *)
(* whose checks pass extends the chain; one whose checks index past the    *)
(* inputs of a transaction crashes the node, which restarts on the chain   *)
(* it had stored.  The header checks are the Difficulty module's and are   *)
(* taken to pass (the miner built the header for the tip); the spending    *)
(* checks after the coinbase test are the ConnectBlock module's, reduced   *)
(* here to "the outpoint is in the view".  Scripts are abstracted to what  *)
(* ExtractCoinbaseHeight reads of TxIn[0].SignatureScript: its length, its *)
(* first byte, and the little-endian value of the bytes that follow.       *)
(***************************************************************************)
EXTENDS Integers, Sequences

CONSTANTS
  EntangleHeight,      \* chainParams.EntangleHeight
  MainEntangleHeight,  \* chaincfg.MainNetParams.EntangleHeight
  Outpoints,           \* the outpoints an input may name
  NullOut,             \* the null outpoint: zero hash, index math.MaxUint32
  View,                \* the outpoints the utxo view holds
  TxPool,              \* the transactions peers may put in a block
  MaxSatoshi,          \* czzutil.MaxSatoshi (scaled)
  MaxBlockSize,        \* b.excessiveBlockSize
  HeightBits,          \* 32: ExtractCoinbaseHeight truncates to int32
  MagneticAnomaly,     \* BFMagneticAnomaly, set by CheckConnectBlockTemplate
  MaxTxs,              \* transactions per block (modelling bound)
  MaxHeight,           \* last height connected (modelling bound)
  MaxCrashes           \* crashes of the node (modelling bound)

\* MinCoinbaseScriptLen, MaxCoinbaseScriptLen, MaxTransactionSize,
\* MinTransactionSize, MaxTransactionSigOps: validate.go:21-56.
MinCoinbaseScriptLen == 2
MaxCoinbaseScriptLen == 100
MaxTransactionSize == 1000000
MinTransactionSize == 100
MaxTransactionSigOps == 20000
LockTimeThreshold == 500000000
OP_0 == 0
OP_1 == 81
OP_16 == 96

Script == [len : Nat, head : 0..255, val : Nat]
Tx == [id : Nat, ins : Seq(Outpoints), script : Script, outs : Seq(Int),
       lockTime : Nat, seqFinal : BOOLEAN, size : Nat, sigOps : Nat]

ASSUME BlockSanityAssumption ==
  /\ EntangleHeight \in Nat \ {0} /\ MainEntangleHeight \in Nat \ {0}
  /\ NullOut \in Outpoints /\ View \subseteq Outpoints \ {NullOut}
  /\ TxPool \subseteq Tx
  \* lock times are block heights: the timestamp branch is not modelled
  /\ \A tx \in TxPool : tx.lockTime < LockTimeThreshold
  /\ MaxSatoshi \in Nat /\ MaxBlockSize \in Nat /\ HeightBits \in Nat \ {0}
  /\ MagneticAnomaly \in BOOLEAN
  /\ MaxTxs \in Nat /\ MaxHeight \in Nat /\ MaxCrashes \in Nat

Ok == "ok"
Err == "err"
Panic == "panic"

\* int32(serializedHeight), HeightBits wide.
IntW(v) == LET m == v % 2^HeightBits
           IN  IF m >= 2^(HeightBits - 1) THEN m - 2^HeightBits ELSE m

\* ExtractCoinbaseHeight, validate.go:720-754, for a transaction with an
\* input: whether it returns a height, and which.
HeightDecodes(tx) ==
  LET s == tx.script
  IN  /\ s.len >= 1
      /\ s.head = OP_0 \/ s.head \in OP_1..OP_16 \/ s.len - 1 >= s.head

CoinbaseHeight(tx) ==
  LET s == tx.script
  IN  CASE s.head = OP_0 -> 0
        [] s.head \in OP_1..OP_16 -> s.head - (OP_1 - 1)
        [] OTHER -> IntW(s.val)

\* IsCoinBaseTx (validate.go:108-132) when e is MainNetParams.EntangleHeight,
\* isCoinBaseInParam (134-159) when e is the chain's: the height decodes,
\* the input count is 3 from e on and 1 before, and TxIn[0] is null.  Both
\* read TxIn[0] first: they panic on a transaction without inputs.
CoinbaseShaped(tx, e) ==
  /\ HeightDecodes(tx)
  /\ Len(tx.ins) = IF CoinbaseHeight(tx) >= e THEN 3 ELSE 1
  /\ tx.ins[1] = NullOut

IsCoinBase(tx) == CoinbaseShaped(tx, MainEntangleHeight)

\* Mutant: the connect-time rule with the three-input layout only after
\* EntangleHeight.
IsCoinBaseInParamAfter(tx) ==
  /\ HeightDecodes(tx)
  /\ Len(tx.ins) = IF CoinbaseHeight(tx) > EntangleHeight THEN 3 ELSE 1
  /\ tx.ins[1] = NullOut

IsCoinBaseInParam(tx) == CoinbaseShaped(tx, EntangleHeight)

\* The output-value loop of CheckTransactionSanity: each value in
\* 0..MaxSatoshi and the running total at most MaxSatoshi (with every value
\* checked non-negative the total only grows, so the last total decides;
\* it stays far below 2^63, so the overflow branch never fires).
OutputsInRange(outs) ==
  LET total[i \in 0..Len(outs)] == IF i = 0 THEN 0 ELSE total[i - 1] + outs[i]
  IN  /\ \A i \in 1..Len(outs) : outs[i] \in 0..MaxSatoshi
      /\ total[Len(outs)] <= MaxSatoshi

\* CheckTransactionSanity, validate.go:259-364 (CountSigOps is abstracted
\* to the field sigOps).
CheckTransactionSanity(tx) ==
  /\ Len(tx.ins) > 0
  /\ Len(tx.outs) > 0
  /\ tx.size <= MaxTransactionSize
  /\ ~(MagneticAnomaly /\ tx.size < MinTransactionSize)
  /\ tx.sigOps <= MaxTransactionSigOps
  /\ OutputsInRange(tx.outs)
  /\ \A i, j \in 1..Len(tx.ins) : i # j => tx.ins[i] # tx.ins[j]
  /\ IF IsCoinBase(tx)
     THEN tx.script.len \in MinCoinbaseScriptLen..MaxCoinbaseScriptLen
     ELSE \A i \in 1..Len(tx.ins) : tx.ins[i] # NullOut

\* The first transaction after the first that the second-coinbase loop of
\* checkBlockSanity stops at: one that is a coinbase, or one without inputs
\* (IsCoinBase indexes TxIn[0] before CheckTransactionSanity rejects it).
SecondCoinbaseHits(txs) ==
  {i \in 2..Len(txs) : Len(txs[i].ins) = 0 \/ IsCoinBase(txs[i])}

\* checkBlockSanity, validate.go:616-707, after checkBlockHeaderSanity: the
\* block has a transaction, the first is a coinbase and no other is, the
\* non-coinbase transactions are in id order under MagneticAnomaly, each
\* transaction is sane, the merkle root matches, no transaction repeats.
CheckBlockSanity(b) ==
  LET txs == b.txs
      hits == SecondCoinbaseHits(txs)
      first == CHOOSE i \in hits : \A j \in hits : i <= j
  IN  IF Len(txs) = 0 THEN Err
      ELSE IF Len(txs[1].ins) = 0 THEN Panic
      ELSE IF ~IsCoinBase(txs[1]) THEN Err
      ELSE IF hits # {} THEN (IF Len(txs[first].ins) = 0 THEN Panic ELSE Err)
      ELSE IF /\ \A i \in 1..Len(txs) :
                   /\ MagneticAnomaly /\ i > 2 => txs[i - 1].id < txs[i].id
                   /\ CheckTransactionSanity(txs[i])
              /\ b.rootOK
              /\ \A i, j \in 1..Len(txs) : i # j => txs[i].id # txs[j].id
           THEN Ok ELSE Err

\* IsFinalizedTransaction, validate.go:191-233 (height lock times).
IsFinalizedTransaction(tx, h) ==
  tx.lockTime = 0 \/ tx.lockTime < h \/ tx.seqFinal

\* Mutant: the coinbase height left unchecked (as under BFFastAdd).
CheckSerializedHeightSkipped(tx, h) == TRUE

\* checkSerializedHeight, validate.go:758-772.
CheckSerializedHeight(tx, h) == HeightDecodes(tx) /\ CoinbaseHeight(tx) = h

\* checkBlockContext, validate.go:872-954, after checkBlockHeaderContext,
\* without BFFastAdd (the serialized size is the sum of the transactions').
CheckBlockContext(b, h) ==
  LET txs == b.txs
      size[i \in 0..Len(txs)] == IF i = 0 THEN 0 ELSE size[i - 1] + txs[i].size
  IN  /\ Len(txs) <= MaxBlockSize
      /\ size[Len(txs)] <= MaxBlockSize
      /\ \A i \in 1..Len(txs) : IsFinalizedTransaction(txs[i], h)
      /\ CheckSerializedHeight(txs[1], h)

\* CheckTransactionInputs up to its first lookup (validate.go:1042-1064)
\* with checkMergeTxInCoinbase (955-995): a transaction isCoinBaseInParam
\* accepts returns at once, after EntangleHeight once its merge inputs are
\* in the view; any other has every input looked up, the null one too.
TxInputsFound(tx, h) ==
  IF IsCoinBaseInParam(tx)
  THEN h > EntangleHeight => \A j \in 2..Len(tx.ins) : tx.ins[j] \in View
  ELSE \A j \in 1..Len(tx.ins) : tx.ins[j] \in View

\* The outcome of the pipeline for a block at height h.
Outcome(b, h) ==
  LET s == CheckBlockSanity(b)
  IN  IF s # Ok THEN s
      ELSE IF CheckBlockContext(b, h) /\ \A i \in 1..Len(b.txs) : TxInputsFound(b.txs[i], h)
           THEN Ok ELSE Err

\* The blocks a peer may offer: up to MaxTxs transactions of the pool,
\* with a merkle root that matches them or not.
BlockChoices ==
  {[txs |-> t, rootOK |-> r] : t \in UNION {[1..n -> TxPool] : n \in 0..MaxTxs}, r \in BOOLEAN}

VARIABLES
  chain,     \* the blocks connected after genesis: chain[h] is at height h
  panicked,  \* the node crashed on a runtime panic and is down
  crashes    \* crashes so far

vars == <<chain, panicked, crashes>>

Tip == Len(chain)

\* A block whose checks pass is connected at the next height.
AcceptBlock(b) ==
  /\ ~panicked
  /\ Tip < MaxHeight
  /\ Outcome(b, Tip + 1) = Ok
  /\ chain' = Append(chain, b)
  /\ UNCHANGED <<panicked, crashes>>

\* A block whose sanity check indexes TxIn[0] of a transaction without
\* inputs: the goroutine panics and takes the node down.
PanicBlock(b) ==
  /\ ~panicked
  /\ crashes < MaxCrashes
  /\ Outcome(b, Tip + 1) = Panic
  /\ panicked' = TRUE
  /\ crashes' = crashes + 1
  /\ UNCHANGED chain

\* The node restarts on the chain it had stored.
Restart ==
  /\ panicked
  /\ panicked' = FALSE
  /\ UNCHANGED <<chain, crashes>>

\* Every height is connected and the node is up.
Halted ==
  /\ ~panicked /\ Tip = MaxHeight
  /\ UNCHANGED vars

Next ==
  \/ \E b \in BlockChoices : AcceptBlock(b)
  \/ \E b \in BlockChoices : PanicBlock(b)
  \/ Restart
  \/ Halted

Init ==
  /\ chain = <<>>
  /\ panicked = FALSE
  /\ crashes = 0

\* Honest miners keep offering blocks and a crashed node is restarted: a
\* step that stays possible is eventually taken.  Crashes are bounded by
\* MaxCrashes, so a peer cannot keep the node down for ever.
Fairness ==
  /\ WF_vars(\E b \in BlockChoices : AcceptBlock(b))
  /\ WF_vars(Restart)

Spec == Init /\ [][Next]_vars /\ Fairness
-----------------------------------------------------------------------------
(* Properties.                                                             *)

TypeOK ==
  /\ chain \in Seq([txs : Seq(TxPool), rootOK : BOOLEAN])
  /\ Tip \in 0..MaxHeight
  /\ panicked \in BOOLEAN
  /\ crashes \in 0..MaxCrashes

\* Spec 4.7 and 4.8: the coinbase of every connected block is the first
\* transaction, spends the null outpoint, encodes the block's height, and
\* has exactly three inputs (the two merge inputs) from EntangleHeight on
\* and one before.  IsCoinBase judges the shape by the height the script
\* claims, checkSerializedHeight ties the claim to the block's height, and
\* the connect-time test judges the shape by the chain's EntangleHeight:
\* only together do they pin the layout to the height.
CoinbaseLayout ==
  \A h \in 1..Tip :
    LET cb == chain[h].txs[1]
    IN  /\ cb.ins[1] = NullOut
        /\ HeightDecodes(cb) /\ CoinbaseHeight(cb) = h
        /\ Len(cb.ins) = IF h >= EntangleHeight THEN 3 ELSE 1

\* What the pipeline reads of the coinbase of the block at height h.
CoinbaseView(h) ==
  LET cb == chain[h].txs[1]
  IN  [decodes |-> HeightDecodes(cb), claim |-> CoinbaseHeight(cb),
       nullIn |-> cb.ins[1] = NullOut, nins |-> Len(cb.ins)]

CC == INSTANCE CoinbaseChain
        WITH coinbases <- [h \in 1..Tip |-> CoinbaseView(h)], down <- panicked

\* The node implements the promise of CoinbaseChain: every accepted block
\* appends exactly the coinbase its height calls for, a crash in
\* checkBlockSanity and the restart after it leave the stored chain as it
\* was, and no step rewrites a block already connected.
CoinbaseChainRefined == CC!Spec

\* A validator never crashes on a block a peer sends: every malformed
\* block is rejected with a rule error (spec 4.8 and 6).
NoSanityPanic == ~panicked

\* The chain keeps growing: at every height below the bound some block a
\* miner can build passes every check, so the node connects one.
ChainGrows == \A n \in 0..(MaxHeight - 1) : Tip = n ~> Tip > n
====
