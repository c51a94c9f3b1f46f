---------------------------- MODULE ConnectBlock ----------------------------
(***************************************************************************)
(* The connect-time validation of a block, blockchain/validate.go:         *)
(* checkConnectBlock with what it calls: CheckTransactionInputs,           *)
(* checkMergeTxInCoinbase, CalcBlockSubsidy, checkBlockSubsidy and         *)
(* summayOfTxsAndCheck, and connectTransactions (outside src/, from the    *)
(* spec).  One step validates a candidate block on top of the tip and, if  *)
(* checkConnectBlock returns nil, connects it: the UTXO view becomes the   *)
(* view connectTransactions left behind and the tip moves up one height.   *)
(*                                                                         *)
(* Data is abstracted: an outpoint is <<height, tx index, output index>>,  *)
(* a transaction has one output, the coinbase has the miner output         *)
(* out[0], the two pool outputs out[1] and out[2], and out[4..] collapsed  *)
(* into one entangle-mint output (out[3], the keeped-amount script, has    *)
(* value 0 and is left out).  Scripts, sigops, sequence locks and the      *)
(* entangle fee ordering of checkTxSequence are not modelled; scripts are  *)
(* abstracted to one consequence: a pool output, locked to a fixed         *)
(* public-key hash, cannot be an input of an ordinary transaction.         *)
(***************************************************************************)
EXTENDS Integers, Sequences, FiniteSets

CONSTANTS
  MaxHeight,                 \* last height connected (modelling bound)
  EntangleHeight,            \* chainParams.EntangleHeight
  CoinbaseMaturity,          \* chainParams.CoinbaseMaturity
  SubsidyReductionInterval,  \* chainParams.SubsidyReductionInterval
  BaseSubsidy,               \* baseSubsidy (scaled down)
  MaxTxs,                    \* non-coinbase transactions per block
  MaxIns,                    \* inputs per non-coinbase transaction
  FeeChoices,                \* fees a transaction may pay (negative: overspend)
  EntChoices,                \* entangle amounts a transaction may carry
  Slack,                     \* offsets a miner may add to coinbase outputs
  AnyMergeInputs,            \* may coinbase merge inputs be any parent output?
  Missing                    \* an outpoint that is in no view

ASSUME ConstAssumption ==
  /\ MaxHeight \in Nat \ {0}
  /\ EntangleHeight \in Nat \ {0}
  /\ CoinbaseMaturity \in Nat
  /\ SubsidyReductionInterval \in Nat
  /\ BaseSubsidy \in Nat
  /\ MaxTxs \in Nat /\ MaxIns \in Nat \ {0}
  /\ FeeChoices \subseteq Int /\ EntChoices \subseteq Nat /\ Slack \subseteq Nat
  /\ 0 \in Slack
  /\ AnyMergeInputs \in BOOLEAN

\* Output indices of the coinbase (validate.go:1504-1514).
Miner == 0
Pool1 == 1
Pool2 == 2
Mint  == 4

OutPoint == ((0..MaxHeight) \X {0} \X {Miner, Pool1, Pool2, Mint})
              \cup ((1..MaxHeight) \X (1..MaxTxs) \X {0})

Entry == [amount : Nat, coinbase : BOOLEAN, pool : BOOLEAN,
          height : 1..MaxHeight, spent : BOOLEAN]

VARIABLES
  tip,       \* height of the last connected block (genesis: 0)
  view,      \* the UTXO view: a function from the outpoints created so far
  consumed,  \* history: [op, h, t] for each input of each connected tx
  minted,    \* history: total value of the entangle-mint outputs after EntangleHeight
  accrued,   \* history: total shares <<a1, a2>> credited after EntangleHeight
  skipped    \* history: heights of blocks accepted after connectTransactions failed

vars == <<tip, view, consumed, minted, accrued, skipped>>

SeqSum(s) ==
  LET f[i \in 0..Len(s)] == IF i = 0 THEN 0 ELSE f[i - 1] + s[i]
  IN  f[Len(s)]

\* CalcBlockSubsidy, validate.go:235-256: divided by the halving count.
CalcBlockSubsidy(h) ==
  IF SubsidyReductionInterval = 0 \/ h \div SubsidyReductionInterval = 0
  THEN BaseSubsidy
  ELSE IF BaseSubsidy \div (h \div SubsidyReductionInterval) = 0 THEN 1
       ELSE BaseSubsidy \div (h \div SubsidyReductionInterval)

\* The 19% / 1% / 80% split of checkBlockSubsidy, validate.go:1001-1002.
Income1(s) == (s * 19) \div 100
Income2(s) == s \div 100
Income3(s) == s - Income1(s) - Income2(s)

LookupAmount(op) == IF op \in DOMAIN view THEN view[op].amount ELSE 0
InSum(ins) == SeqSum([i \in 1..Len(ins) |-> LookupAmount(ins[i])])

\* The input lists a miner may put in a transaction: distinct outpoints
\* (CheckTransactionSanity rejects duplicates), pool outputs excluded.
Spendable == {o \in DOMAIN view : ~view[o].pool} \cup {Missing}
InputSeqs ==
  UNION {{s \in [1..n -> Spendable] :
            \A i, j \in 1..n : i # j => s[i] # s[j]} : n \in 1..MaxIns}

\* Mutant: the maturity comparison made strict.
InputOKMaturityStrict(op, h) ==
  /\ op \in DOMAIN view
  /\ ~view[op].spent
  /\ view[op].coinbase /\ ~view[op].pool =>
        h - view[op].height > CoinbaseMaturity

\* One lookup of CheckTransactionInputs (validate.go:1054-1084):
\* the entry exists, is unspent and, when it is a coinbase output that is
\* not a pool output, is CoinbaseMaturity blocks old.
InputOK(op, h) ==
  /\ op \in DOMAIN view
  /\ ~view[op].spent
  /\ view[op].coinbase /\ ~view[op].pool =>
        h - view[op].height >= CoinbaseMaturity

\* CheckTransactionInputs for a non-coinbase transaction, validate.go:1042-1142.
TxInputsOK(tx, h) ==
  /\ \A i \in 1..Len(tx.ins) : InputOK(tx.ins[i], h)
  /\ tx.out <= InSum(tx.ins)

\* matchPoolFromUtxo, validate.go:1552-1576, never reads the utxo: it asks
\* ExtractPkScriptAddrs to parse the raw 20-byte pool hash as a script,
\* which ends in a truncated push and is no pay-to-pubkey-hash script, so
\* it returns "pool not match" for every input.
PoolScriptMatches == FALSE

\* checkMergeTxInCoinbase after EntangleHeight, validate.go:955-995: each
\* merge input in turn exists, is unspent and is not older than
\* EntangleHeight - 1; for inputs 1 and 2 a failed matchPoolFromUtxo
\* returns (true, nil) at once, so the inputs after it go unchecked.
MergeInputsOK(cb, h) ==
  h > EntangleHeight =>
    \A i \in 1..Len(cb.ins) :
      (\A j \in 1..(i - 1) : j <= 2 => PoolScriptMatches) =>
        /\ cb.ins[i] \in DOMAIN view
        /\ ~view[cb.ins[i]].spent
        /\ view[cb.ins[i]].height >= EntangleHeight - 1

Fees(txs) == SeqSum([i \in 1..Len(txs) |-> InSum(txs[i].ins) - txs[i].out])
EntangleAmount(txs) == SeqSum([i \in 1..Len(txs) |-> txs[i].ent])
TxOutSum(txs) == SeqSum([i \in 1..Len(txs) |-> txs[i].out])
TxInSum(txs) == SeqSum([i \in 1..Len(txs) |-> InSum(txs[i].ins)])

\* Mutant: getPoolAmountFromPreBlock reading the two pool outputs swapped.
LastPoolSwapped(k) == LookupAmount(<<tip, 0, IF k = Pool1 THEN Pool2 ELSE Pool1>>)

\* getPoolAmountFromPreBlock, validate.go:1463-1470: out[1] and out[2] of
\* the parent's coinbase.
LastPool(k) == LookupAmount(<<tip, 0, k>>)

\* Mutant of the subsidy check: the total-value comparison left out.
BlockSubsidyNoTotal(cb, txs, h) ==
  LET s == CalcBlockSubsidy(h)
  IN  h > EntangleHeight =>
        /\ cb.mint = EntangleAmount(txs)
        /\ cb.pool1 = LastPool(Pool1) + Income1(s) - EntangleAmount(txs)
        /\ cb.pool2 = LastPool(Pool2) + Income2(s)

\* checkBlockSubsidy with summayOfTxsAndCheck, validate.go:997-1039,
\* 1487-1545: skipped up to EntangleHeight.
BlockSubsidyOK(cb, txs, h) ==
  LET s == CalcBlockSubsidy(h)
      totalIn == LastPool(Pool1) + LastPool(Pool2)
                   + Income1(s) + Income2(s) + Income3(s) + TxInSum(txs)
      totalOut == cb.miner + cb.pool1 + cb.pool2 + cb.mint + TxOutSum(txs)
  IN  h > EntangleHeight =>
        /\ cb.mint = EntangleAmount(txs)
        /\ cb.pool1 = LastPool(Pool1) + Income1(s) - EntangleAmount(txs)
        /\ cb.pool2 = LastPool(Pool2) + Income2(s)
        /\ totalOut <= totalIn

\* The inputs connectTransactions spends, in order: the coinbase's merge
\* inputs, then each transaction's inputs.
SpendList(cb, txs) ==
  LET f[i \in 0..Len(txs)] == IF i = 0 THEN cb.ins ELSE f[i - 1] \o txs[i].ins
  IN  f[Len(txs)]

\* connectTransactions (spec 4.2; the code is outside src/): every output of
\* the block is added first, then the inputs are spent in order until one
\* is missing or already spent, where it returns an error.
FirstFailure(l) ==
  LET bad == {i \in 1..Len(l) :
                \/ l[i] \notin DOMAIN view
                \/ view[l[i]].spent
                \/ \E j \in 1..(i - 1) : l[j] = l[i]}
  IN  IF bad = {} THEN Len(l) + 1 ELSE CHOOSE i \in bad : \A j \in bad : i <= j

NewOutputs(cb, txs, h) ==
  [o \in {<<h, 0, k>> : k \in {Miner, Pool1, Pool2, Mint}}
           \cup {<<h, t, 0>> : t \in 1..Len(txs)} |->
     IF o[2] = 0
     THEN [amount |-> CASE o[3] = Miner -> cb.miner
                        [] o[3] = Pool1 -> cb.pool1
                        [] o[3] = Pool2 -> cb.pool2
                        [] o[3] = Mint  -> cb.mint,
           coinbase |-> TRUE,
           pool |-> o[3] \in {Pool1, Pool2} /\ h >= EntangleHeight,
           height |-> h, spent |-> FALSE]
     ELSE [amount |-> txs[o[2]].out, coinbase |-> FALSE, pool |-> FALSE,
           height |-> h, spent |-> FALSE]]

ConnectTransactions(cb, txs, h) ==
  LET l == SpendList(cb, txs)
      spent == {l[i] : i \in 1..(FirstFailure(l) - 1)}
      added == NewOutputs(cb, txs, h)
  IN  [o \in DOMAIN view \cup DOMAIN added |->
         IF o \in DOMAIN added THEN added[o]
         ELSE [view[o] EXCEPT !.spent = @ \/ o \in spent]]

\* connectTransactions returns no error: every input it spends is there.
Connects(cb, txs) ==
  FirstFailure(SpendList(cb, txs)) > Len(SpendList(cb, txs))

\* The candidate blocks a miner can propose at height h.
Around(x) == {x + d : d \in Slack} \cap Nat

\* (a negative output value is rejected by CheckTransactionSanity)
TxChoices ==
  UNION {{txs \in {[i \in 1..n |-> [ins |-> ins[i], out |-> InSum(ins[i]) - fee[i],
                                    ent |-> ent[i]]] :
                     ins \in [1..n -> InputSeqs], fee \in [1..n -> FeeChoices],
                     ent \in [1..n -> EntChoices]} :
            \A i \in 1..n : txs[i].out \in Nat} : n \in 0..MaxTxs}

\* The merge inputs of a coinbase at or after EntangleHeight: the pool
\* outputs of the parent block or, when AnyMergeInputs holds, any two
\* outputs of the parent block or the missing outpoint.
CbInputChoices(h) ==
  IF h < EntangleHeight THEN {<<>>}
  ELSE IF AnyMergeInputs
       THEN {s \in [1..2 -> {o \in DOMAIN view : o[1] = tip} \cup {Missing}] :
               s[1] # s[2]}
       ELSE {<<<<tip, 0, Pool1>>, <<tip, 0, Pool2>>>>}

\* The coinbase outputs a miner may propose: the value each check expects
\* (for out[0] either the 80% share or the whole subsidy, plus fees), with
\* at most one output raised by an offset of Slack.  Up to EntangleHeight
\* the layout has no pools yet; the spec's catch-up values are expected at
\* the activation block.
ExpectedCoinbase(s, fees, e, h) ==
  { [miner |-> m,
     pool1 |-> CASE h < EntangleHeight -> 0
                 [] h = EntangleHeight -> Income1(s) * (EntangleHeight - 1)
                 [] OTHER -> LastPool(Pool1) + Income1(s) - e,
     pool2 |-> CASE h < EntangleHeight -> 0
                 [] h = EntangleHeight -> Income2(s) * (EntangleHeight - 1)
                 [] OTHER -> LastPool(Pool2) + Income2(s),
     mint |-> IF h < EntangleHeight THEN 0 ELSE e] :
    m \in {Income3(s) + fees, s + fees} }

CoinbaseChoices(s, fees, e, h) ==
  { c \in UNION {{base, [base EXCEPT !.miner = @ + d], [base EXCEPT !.pool1 = @ + d],
                  [base EXCEPT !.pool2 = @ + d], [base EXCEPT !.mint = @ + d]} :
                   base \in ExpectedCoinbase(s, fees, e, h), d \in Slack} :
      {c.miner, c.pool1, c.pool2, c.mint} \subseteq Nat }

\* checkConnectBlock, validate.go:1165-1392, for a block at h = tip + 1
\* that it accepts (returns nil); a rejected block leaves the state alone.
\* Every transaction's inputs are checked against the view before any is
\* spent (validate.go:1255-1270), so two transactions of one block may
\* name the same input.
ConnectBlock(cb, txs) ==
  LET h == tip + 1
      s == CalcBlockSubsidy(h)
  IN  /\ \A i \in 1..Len(txs) : TxInputsOK(txs[i], h)
      /\ MergeInputsOK(cb, h)
      \* an error of connectTransactions (validate.go:1290-1293) returns nil
      \* at once, skipping the coinbase value check (which sums out[0] only:
      \* the loop breaks) and checkBlockSubsidy
      /\ Connects(cb, txs) =>
           /\ cb.miner <= s + Fees(txs)
           /\ BlockSubsidyOK(cb, txs, h)
      /\ view' = ConnectTransactions(cb, txs, h)
      /\ tip' = h
      /\ consumed' = consumed \cup
           {[op |-> cb.ins[i], h |-> h, t |-> 0] : i \in 1..Len(cb.ins)}
           \cup UNION {{[op |-> txs[t].ins[i], h |-> h, t |-> t] :
                          i \in 1..Len(txs[t].ins)} : t \in 1..Len(txs)}
      /\ minted' = IF h > EntangleHeight THEN minted + cb.mint ELSE minted
      /\ accrued' = IF h > EntangleHeight
                     THEN <<accrued[1] + Income1(s), accrued[2] + Income2(s)>>
                     ELSE accrued
      /\ skipped' = IF Connects(cb, txs) THEN skipped ELSE skipped \cup {h}

Next ==
  \/ /\ tip < MaxHeight
     /\ \E txs \in TxChoices :
          LET h == tip + 1
              s == CalcBlockSubsidy(h)
              e == EntangleAmount(txs)
          IN  \E ins \in CbInputChoices(h), c \in CoinbaseChoices(s, Fees(txs), e, h) :
                ConnectBlock([ins |-> ins, miner |-> c.miner, pool1 |-> c.pool1,
                              pool2 |-> c.pool2, mint |-> c.mint], txs)
  \* the modelling bound is reached
  \/ tip = MaxHeight /\ UNCHANGED vars

Init ==
  /\ tip = 0
  /\ view = [o \in {} |-> [amount |-> 0]]
  /\ consumed = {}
  /\ minted = 0
  /\ accrued = <<0, 0>>
  /\ skipped = {}

Spec == Init /\ [][Next]_vars
-----------------------------------------------------------------------------
(* Properties.                                                             *)

TypeOK ==
  /\ tip \in 0..MaxHeight
  /\ DOMAIN view \subseteq OutPoint
  /\ \A o \in DOMAIN view : view[o] \in Entry
  /\ consumed \subseteq [op : OutPoint \cup {Missing}, h : 1..MaxHeight,
                         t : 0..MaxTxs]
  /\ minted \in Nat /\ accrued \in Nat \X Nat
  /\ skipped \subseteq 1..MaxHeight

\* A block at the next height spends outpoint o in an ordinary transaction.
SpendsNext(o) == Next /\ \E r \in consumed' : r.op = o /\ r.h = tip' /\ r.t # 0

\* The maturity boundary of CheckTransactionInputs (validate.go:1075) is
\* not too strict: a coinbase output that is not a pool output, unspent and
\* exactly CoinbaseMaturity blocks below the next block, can be spent by
\* that block.  The block must also pass the merge-input, subsidy and pool
\* checks with the chain as it stands, so this fails for a guard off by one
\* the strict way, or for any other check that blocks an honest spend of
\* a just-mature output.
MaturityBoundary ==
  tip < MaxHeight =>
    \A o \in DOMAIN view :
      /\ view[o].coinbase /\ ~view[o].pool /\ ~view[o].spent
      /\ tip + 1 - view[o].height = CoinbaseMaturity
      => ENABLED SpendsNext(o)

\* Subsidy conservation of spec 8, summed over the chain: after the
\* activation block, the pool-1 output of the tip's coinbase is the pool-1
\* output of the activation block plus the 19% shares credited since, less
\* the coins minted to entanglers since; the pool-2 output grows by the 1%
\* shares alone.  Each block's check reads the parent's pools through
\* getPoolAmountFromPreBlock, so the ledger holds only if every step reads
\* the right outputs of the right block.  It is claimed while every block
\* after the activation was checked: one accepted after connectTransactions
\* failed skipped checkBlockSubsidy (validate.go:1290-1293).
PoolLedger ==
  tip >= EntangleHeight /\ (\A k \in skipped : k <= EntangleHeight) =>
    /\ LookupAmount(<<tip, 0, Pool1>>) + minted
         = LookupAmount(<<EntangleHeight, 0, Pool1>>) + accrued[1]
    /\ LookupAmount(<<tip, 0, Pool2>>)
         = LookupAmount(<<EntangleHeight, 0, Pool2>>) + accrued[2]

\* The outpoints created at height h, as a sequence.
OutsAt(h) ==
  <<<<h, 0, Miner>>, <<h, 0, Pool1>>, <<h, 0, Pool2>>, <<h, 0, Mint>>>>
    \o [t \in 1..MaxTxs |-> <<h, t, 0>>]

\* The value of a set of outpoints, and the fees of the tip block as the
\* sum over its transactions of inputs less output.
ValueOf(S) ==
  SeqSum([h \in 1..MaxHeight |->
            SeqSum([i \in 1..Len(OutsAt(h)) |->
                      IF OutsAt(h)[i] \in S THEN LookupAmount(OutsAt(h)[i]) ELSE 0])])

TipFees ==
  SeqSum([t \in 1..MaxTxs |->
            ValueOf({r.op : r \in {q \in consumed : q.h = tip /\ q.t = t}})
              - LookupAmount(<<tip, t, 0>>)])

\* After EntangleHeight the miner output of the tip's coinbase is at most
\* the 80% share plus the block's fees, for a tip block whose checks ran:
\* checkConnectBlock only bounds it by the whole subsidy plus fees, and the
\* pool, mint and total-value checks of summayOfTxsAndCheck must together
\* take the other 20% away.
MinerShareAfterEntangle ==
  tip > EntangleHeight /\ tip \notin skipped =>
    LookupAmount(<<tip, 0, Miner>>) <= Income3(CalcBlockSubsidy(tip)) + TipFees

\* Spec 4.2: a double spend within a block is detected as "already spent";
\* no outpoint is an input of two transactions of the connected chain.
NoDoubleSpend ==
  \A r1, r2 \in consumed : r1.op = r2.op => r1 = r2

\* Spec 4.7: at the activation block the pool outputs carry the catch-up
\* shares a1 * (EntangleHeight - 1) and a2 * (EntangleHeight - 1).
ActivationCatchUp ==
  tip >= EntangleHeight =>
    LET s == CalcBlockSubsidy(EntangleHeight)
    IN  /\ LookupAmount(<<EntangleHeight, 0, Pool1>>)
             = Income1(s) * (EntangleHeight - 1)
        /\ LookupAmount(<<EntangleHeight, 0, Pool2>>)
             = Income2(s) * (EntangleHeight - 1)

UnspentValue == ValueOf({o \in DOMAIN view : ~view[o].spent})

\* No coins out of nothing: the unspent value of the view never exceeds the
\* subsidies of the connected blocks (the coinbase may claim fees, which the
\* spent inputs paid).
SupplyBounded ==
  UnspentValue <= SeqSum([h \in 1..tip |-> CalcBlockSubsidy(h)])
====
