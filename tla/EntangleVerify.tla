---------------------------- MODULE EntangleVerify ----------------------------
(***************************************************************************)
(* Entangle verification: CheckBlockEntangle and checkEntangleTx           *)
(* (blockchain/validate.go) over VerifyEntangleTx, verifyTx, verifyDogeTx  *)
(* and verifyLtcTx (package cross, src/unnamed/part_001), with the dedup   *)
(* cache of spec 4.6 (outside src/) that a connected block adds its items  *)
(* to.  The foreign chains are constant: each deposit transaction sits at  *)
(* a fixed foreign height; each foreign RPC client reports a block count   *)
(* that grows, and clients of one chain may lag each other.                *)
(*                                                                         *)
(* An entangle item is what IsEntangleTx (outside src/) decodes from an    *)
(* output of a transaction: foreign tx hash, output index, amount, the     *)
(* height the item claims and the foreign chain.  A transaction is a set   *)
(* of items (Go map: iterated in random order); a block a sequence of      *)
(* transactions.  Scripts are abstracted to the script class and whether   *)
(* the address derived from it is the pool address; ComputePk and         *)
(* ExtractPkScriptPub are taken to succeed.                                *)
(***************************************************************************)
EXTENDS Integers, Sequences, FiniteSets

CONSTANTS
  Chains,          \* the foreign chains: ExpandedTxEntangle_Doge, _Ltc
  ForeignTx,       \* foreign tx hash -> [chain, height, outs: Seq([value, class, pool])]
  Unknown,         \* a hash no foreign chain knows
  Vouts,           \* output indices an item may name
  Amounts,         \* amounts an item may claim
  ClaimedHeights,  \* heights an item may claim
  Clients,         \* RPC clients per chain (DogeCoinRPC, LtcCoinRPC)
  StartCount,      \* the foreign block count every client starts at
  MaxCount,        \* bound on the foreign block counts
  MaxBlocks,       \* bound on connected blocks
  MaxTxs,          \* entangle transactions per block
  MaxItems,        \* entangle items per transaction
  HasCache         \* ev.Cache # nil: checkEntangleTx's verifier has none
                   \* ("tmp the cache is nil", validate.go:367)

ASSUME EntangleAssumption ==
  /\ Clients # {} /\ StartCount \in Nat /\ MaxCount \in Nat /\ StartCount <= MaxCount
  /\ MaxBlocks \in Nat /\ MaxTxs \in Nat \ {0} /\ MaxItems \in Nat \ {0}
  \* a foreign transaction has a sequence of outputs; the unknown hash is
  \* none of them; an output index (a uint32) is a natural
  /\ \A x \in DOMAIN ForeignTx :
       ForeignTx[x].outs \in Seq([value : Nat, class : Nat, pool : BOOLEAN])
  /\ Unknown \notin DOMAIN ForeignTx
  /\ Vouts \subseteq Nat
  /\ HasCache \in BOOLEAN

\* dogeMaturity, ltcMaturity; the script class GetScriptClass must return.
Maturity == 14
PoolClass == 2

Ok == "ok"
Err == "err"
Panic == "panic"

VARIABLES
  count,     \* count[c][k]: the block count client k of chain c reports
  cache,     \* the dedup cache: keys <<hash, height, chain>> of connected items
  credits,   \* history: one record per item of each connected block
  nblocks,   \* connected blocks
  panicked   \* the node crashed on a runtime panic

vars == <<count, cache, credits, nblocks, panicked>>

Item == [ext : DOMAIN ForeignTx \cup {Unknown}, vout : Vouts, amount : Amounts,
         height : ClaimedHeights, chain : Chains]

\* FetchEntangleUtxoView (spec 4.6): the cache key of an item.
Key(e) == <<e.ext, e.height, e.chain>>

\* Mutant: verifyDogeTx without the amount comparison.
VerifyForeignNoAmount(e, k) ==
  LET f == ForeignTx[e.ext]
  IN  IF e.ext = Unknown \/ f.chain # e.chain THEN Err
      ELSE IF Len(f.outs) < e.vout THEN Err
      ELSE IF Len(f.outs) = e.vout THEN Panic
      ELSE IF f.outs[e.vout + 1].class # PoolClass THEN Err
      ELSE IF ~f.outs[e.vout + 1].pool THEN Err
      ELSE IF count[e.chain][k] - e.height <= Maturity THEN Err
      ELSE Ok

\* verifyDogeTx and verifyLtcTx (part_001:89-151, 153-211; the two differ
\* only in the chain's constants), with client k: GetRawTransaction fails
\* on a hash the chain does not know; the bound check is len(TxOut) < Vout,
\* so Vout = len(TxOut) reaches TxOut[Vout] and panics; then the amount,
\* the script class, the pool address and the maturity, which compares the
\* client's block count with the height the item claims.
VerifyForeign(e, k) ==
  LET f == ForeignTx[e.ext]
  IN  IF e.ext = Unknown \/ f.chain # e.chain THEN Err
      ELSE IF Len(f.outs) < e.vout THEN Err
      ELSE IF Len(f.outs) = e.vout THEN Panic
      ELSE IF f.outs[e.vout + 1].value # e.amount THEN Err
      ELSE IF f.outs[e.vout + 1].class # PoolClass THEN Err
      ELSE IF ~f.outs[e.vout + 1].pool THEN Err
      ELSE IF count[e.chain][k] - e.height <= Maturity THEN Err
      ELSE Ok

\* verifyTx (part_001:78-87): the client is rand.Intn over the chain's pool.
ItemOutcomes(e) == {VerifyForeign(e, k) : k \in Clients}

\* VerifyEntangleTx (part_001:33-76): when the verifier has a cache, first
\* every item is looked up in it (a hit is an error); then each is verified,
\* in map order, until one fails.  An outcome other than Ok is possible when some item can
\* have it (the map may put that item first).
TxOutcomes(tx) ==
  IF HasCache /\ \E e \in tx : Key(e) \in cache THEN {Err}
  ELSE {r \in {Err, Panic} : \E e \in tx : r \in ItemOutcomes(e)}
         \cup (IF \A e \in tx : Ok \in ItemOutcomes(e) THEN {Ok} ELSE {})

\* CheckBlockEntangle (validate.go:374-395) with checkEntangleTx (366-372):
\* the transactions in order until one fails.  The ordering check compares
\* with curHeight, which stays 0, so it never rejects.
CurHeight == 0

MaxClaimed(tx) == CHOOSE h \in {e.height : e \in tx} : \A e \in tx : e.height <= h

BlockOutcomes(txs) ==
  {r \in {Err, Panic} :
     \E i \in 1..Len(txs) :
       /\ \A j \in 1..(i - 1) : Ok \in TxOutcomes(txs[j]) /\ ~(CurHeight > MaxClaimed(txs[j]))
       /\ r \in TxOutcomes(txs[i]) \/ (r = Err /\ CurHeight > MaxClaimed(txs[i]))}
  \cup (IF \A i \in 1..Len(txs) : Ok \in TxOutcomes(txs[i]) /\ ~(CurHeight > MaxClaimed(txs[i]))
        THEN {Ok} ELSE {})

\* The blocks of entangle transactions a miner may propose.
TxChoices == {{f[i] : i \in DOMAIN f} : f \in UNION {[1..n -> Item] : n \in 1..MaxItems}}
BlockChoices == UNION {[1..n -> TxChoices] : n \in 1..MaxTxs}

\* The dedup cache after a block connects (spec 4.6, outside src/: the
\* keys of a connected block's items enter the cache, if there is one).
CacheAfter(txs) ==
  IF HasCache THEN cache \cup {Key(e) : e \in UNION {txs[i] : i \in 1..Len(txs)}}
  ELSE cache

\* A block whose entangle check passes is connected and its items are
\* credited.
ConnectBlock(txs) ==
  /\ ~panicked
  /\ nblocks < MaxBlocks
  /\ Ok \in BlockOutcomes(txs)
  /\ nblocks' = nblocks + 1
  /\ cache' = CacheAfter(txs)
  /\ credits' = credits \cup
       UNION {{[blk |-> nblocks + 1, tx |-> i, item |-> e] : e \in txs[i]} : i \in 1..Len(txs)}
  /\ UNCHANGED <<count, panicked>>

\* A block whose check can index past a foreign transaction's outputs.
PanicBlock(txs) ==
  /\ ~panicked
  /\ nblocks < MaxBlocks
  /\ Panic \in BlockOutcomes(txs)
  /\ panicked' = TRUE
  /\ UNCHANGED <<count, cache, credits, nblocks>>

\* Client k of chain c sees a new foreign block (GetBlockCount grows).
ForeignBlock(c, k) ==
  /\ ~panicked
  /\ count[c][k] < MaxCount
  /\ count' = [count EXCEPT ![c][k] = @ + 1]
  /\ UNCHANGED <<cache, credits, nblocks, panicked>>

\* The node is down, or every bound is reached.
Halted ==
  /\ panicked \/ (nblocks = MaxBlocks /\ \A c \in Chains, k \in Clients : count[c][k] = MaxCount)
  /\ UNCHANGED vars

Next ==
  \/ \E txs \in BlockChoices : ConnectBlock(txs)
  \/ \E txs \in BlockChoices : PanicBlock(txs)
  \/ \E c \in Chains, k \in Clients : ForeignBlock(c, k)
  \/ Halted

Init ==
  /\ count = [c \in Chains |-> [k \in Clients |-> StartCount]]
  /\ cache = {}
  /\ credits = {}
  /\ nblocks = 0
  /\ panicked = FALSE

Spec == Init /\ [][Next]_vars
-----------------------------------------------------------------------------
(* Properties.                                                             *)

TypeOK ==
  /\ count \in [Chains -> [Clients -> StartCount..MaxCount]]
  /\ cache \subseteq (DOMAIN ForeignTx \cup {Unknown}) \X ClaimedHeights \X Chains
  /\ credits \subseteq [blk : 1..MaxBlocks, tx : 1..MaxTxs, item : Item]
  /\ nblocks \in 0..MaxBlocks
  /\ panicked \in BOOLEAN

\* Item e names a real foreign deposit: the foreign transaction exists on
\* e's chain, and output e.vout pays the pool script e's amount.
DepositBacked(e) ==
  /\ e.ext \in DOMAIN ForeignTx /\ ForeignTx[e.ext].chain = e.chain
  /\ e.vout < Len(ForeignTx[e.ext].outs)
  /\ ForeignTx[e.ext].outs[e.vout + 1].value = e.amount
  /\ ForeignTx[e.ext].outs[e.vout + 1].class = PoolClass
  /\ ForeignTx[e.ext].outs[e.vout + 1].pool

\* Every credited item is backed by a real foreign deposit: the foreign
\* transaction exists on the item's chain, the output it names pays the
\* pool script (class 2, the pool address) exactly the amount credited.
\* This needs every check of verifyDogeTx/verifyLtcTx, under every client
\* and map order, in every transaction of the block.
CreditsMatchDeposits == \A c \in credits : DepositBacked(c.item)

\* Spec 4.6 and 6 ("Entangle dedup"): a foreign deposit (transaction and
\* output) is credited at most once.
NoDoubleEntangle ==
  \A c1, c2 \in credits :
    /\ c1.item.ext = c2.item.ext /\ c1.item.vout = c2.item.vout
    /\ c1.item.chain = c2.item.chain
    => c1 = c2

\* Spec 4.5 and 6: validation returns an error for a malformed item; the
\* node never crashes on one.
NoVerifierPanic == ~panicked

\* Spec 4.6 (per-block ordering rule of 4.8): the entangle transactions of
\* a connected block appear in non-decreasing order of their largest
\* claimed height.
EntangleOrdered ==
  \A c1, c2 \in credits :
    c1.blk = c2.blk /\ c1.tx < c2.tx =>
      \E c3 \in credits : c3.blk = c2.blk /\ c3.tx = c2.tx /\ c1.item.height <= c3.item.height
====
