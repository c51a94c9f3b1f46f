# TLA+ models of classzz block validation

This directory holds TLA+ models of the block-validation code of classzz:
`src/blockchain/validate.go`, which also contains the difficulty code, and
the cross-chain entangle verifier in `src/unnamed/part_001` (package
`cross`). They are checked with TLC on small instances, and some of their
properties are proved with TLAPS for every value of the constants.
`PROJECT.json` lists every run, mutant, mapped definition, finding and
hazard.

## The system and how its parts interact

A block reaching the chain goes through two stages:

1. The header checks:
   - `checkBlockHeaderSanity` with `checkProofOfWork`;
   - `checkBlockHeaderContext`, which compares the header's bits with
     `calcNextRequiredDifficulty` and its time with the median time past.
2. The connect-time checks in `checkConnectBlock`:
   - `CheckTransactionInputs` for every transaction, including the coinbase
     through `checkMergeTxInCoinbase`;
   - `connectTransactions`;
   - the coinbase value bound;
   - after `EntangleHeight`, `checkBlockSubsidy`. It splits the subsidy
     19% / 1% / 80% between pool 1, pool 2 and the miner, and reads the
     parent's pool outputs through `getPoolAmountFromPreBlock`.

Entangle transactions, which mint coins against deposits on Dogecoin or
Litecoin, are checked by `CheckBlockEntangle`. It calls `VerifyEntangleTx`
for each transaction. That function looks every item up in a dedup cache
when it has one, then asks a randomly chosen RPC client of the foreign chain about the
deposit (`verifyDogeTx` / `verifyLtcTx`).

Before either stage, `checkBlockSanity` and `checkBlockContext` check each
block on its own: the first transaction is the only coinbase
(`IsCoinBaseTx`), every transaction passes `CheckTransactionSanity`, lock
times are final, and the coinbase encodes the block's height
(`checkSerializedHeight`). `CheckTransactionInputs` then tests the coinbase
again with a second rule, `isCoinBaseInParam`. The two rules read
different `EntangleHeight`s: `IsCoinBaseTx` reads
`chaincfg.MainNetParams`, while `isCoinBaseInParam` reads the chain's
parameters.

The four parts share no state in the code except the chain itself, so they
are four models:

| Part | Module | MC module | Proofs |
|------|--------|-----------|--------|
| Block connection, subsidy and pool accounting | `ConnectBlock` | `MCConnectBlock` | `ConnectBlockProofs` |
| Difficulty retarget and header checks | `Difficulty` | `MCDifficulty` | `DifficultyProofs` |
| Entangle verification | `EntangleVerify` | `MCEntangleVerify` | `EntangleVerifyProofs` |
| Block and transaction sanity, coinbase shape | `BlockSanity` | `MCBlockSanity` | `BlockSanityProofs` |

`CoinbaseChain` is the abstract specification of the sanity pipeline: what
it promises of the chain's coinbases, with none of its checks. `BlockSanity`
is shown to implement it.

## ConnectBlock

**State**
- `tip`: the height of the last block.
- `view`: the UTXO view, a function from outpoints to entries
  `[amount, coinbase, pool, height, spent]`.
- History variables used by the properties:
  - `consumed`: every input spent, with its block and transaction;
  - `minted` and `accrued`: the entangle mints and the pool shares since
    activation;
  - `skipped`: blocks accepted after `connectTransactions` failed.

**Action.** There is one action, `ConnectBlock(cb, txs)`. It is the whole
of `checkConnectBlock` for a block the code accepts. Its guard has these
conjuncts:
- `TxInputsOK` for every transaction: `CheckTransactionInputs`, each input
  checked by `InputOK`;
- `MergeInputsOK`: `checkMergeTxInCoinbase`, with `matchPoolFromUtxo`,
  which always fails (`PoolScriptMatches == FALSE`);
- when `Connects` holds, the coinbase value bound on `out[0]` and
  `BlockSubsidyOK` (`checkBlockSubsidy` with `summayOfTxsAndCheck`).

Its effect is `ConnectTransactions`: all outputs are added, then the inputs
are spent in order up to the first failure. `connectTransactions` is not
under `src/`, so this part is modelled from spec 4.2.

`Next` enumerates candidate blocks. A miner may propose:
- transactions over the spendable outputs, with chosen fees and entangle
  amounts;
- a coinbase whose outputs are the values the checks expect, with at most
  one output raised by `Slack`.

Rejected blocks leave the state unchanged and are not steps.

`SpendsNext(o)` is a step of `Next` whose block spends outpoint `o` in an
ordinary transaction. `MaturityBoundary` says that this step is `ENABLED`
for every unspent non-pool coinbase output exactly `CoinbaseMaturity`
below the next height. So it tests the `>=` at validate.go:1075 from the
side that a test of rejected spends does not reach.

**Abstracted away**
- Scripts and signatures, sigop counting, sequence locks and
  `checkTxSequence`.
- The keeped-amount bookkeeping.
- Amounts are small naturals.

## Difficulty

**Constants.** Widths are constants: `WorkBits` stands for 256 and
`DigitBits` for the 8-bit "byte" of the compact format. The divisor 128,
the 30 s window and the -99 clamp are the code's.

**Operators**
- `CompactToBig`, `BigToCompact` and `CalcWork` translate the code.
- `calcNextRequiredDifficulty` is `TimeFactor`, `NewDifficulty`,
  `NewTarget` and `RequiredBits`. Go's `big.Int.Div` is Euclidean, which
  for a positive divisor is TLA+'s `\div`.

**State.** `chain`, the sequence of `[time, bits, workSum]`.

**Action.** `AddHeader(t)` adds a header whose miner picks a timestamp `t`
from `Deltas` around its parent's time. It requires:
- the bits equal the required bits;
- `ProofOfWorkOK` (`checkProofOfWork`'s range checks; the seal is
  abstracted);
- `t` after the median time past.

The parent-timestamp check of `checkBlockHeaderSanity` (validate.go:595)
cannot fire, so it is absent.

## EntangleVerify

**Constants.** The foreign chains are constants. `ForeignTx` maps a hash to
its chain, height and outputs. `HasCache` says whether the verifier has a
dedup cache (`ev.Cache != nil`, part_001:46). `checkEntangleTx` calls a
verifier without one; its comment reads "tmp the cache is nil"
(validate.go:367). So the passing run sets `HasCache = FALSE`. The cache
itself, and its filling when a block connects (`CacheAfter`), come from
spec 4.6, because they are outside src/.

**State**
- `count[c][k]`: the block count that client `k` of chain `c` reports.
  Clients may lag each other.
- `cache`: the dedup keys of connected items, per spec 4.6. It stays empty
  when `HasCache` is false.
- `credits`: the history of credited items.
- `nblocks`.
- `panicked`: the node crashed.

**Operators.** `VerifyForeign(e, k)` is `verifyDogeTx` / `verifyLtcTx` for
client `k`. The checks run in the code's order:
1. the lookup;
2. the off-by-one bound;
3. the amount;
4. the script class;
5. the pool address;
6. the maturity against the claimed height.

The random choices are modelled as sets of possible outcomes:
- `ItemOutcomes` covers `rand.Intn` over the clients;
- `TxOutcomes` covers Go's random map order (`VerifyEntangleTx`). It looks
  the items up in the cache only when `HasCache` holds;
- `BlockOutcomes` covers `CheckBlockEntangle`, whose `curHeight` stays 0.

**Actions**
- `ConnectBlock`: a block that can pass is connected, and its items are
  credited. When there is a cache, their keys are added to it.
- `PanicBlock`: a block that can reach an out-of-range index crashes the
  node.
- `ForeignBlock`: a client sees a new foreign block.
- `Halted`: the stutter once the node is down or every bound is reached.

## BlockSanity

**Operators.** The checks are translated in the code's order:
- `CheckTransactionSanity`;
- `CheckBlockSanity`, an IF chain in the order of `checkBlockSanity`'s
  early returns;
- `CheckBlockContext`, with `IsFinalizedTransaction` and
  `CheckSerializedHeight`;
- `TxInputsFound`, which is `CheckTransactionInputs` up to its first
  lookup, together with `checkMergeTxInCoinbase`.

`IsCoinBase` and `IsCoinBaseInParam` are one shape, `CoinbaseShaped`, read
at the two `EntangleHeight`s. `HeightDecodes` and `CoinbaseHeight` are
`ExtractCoinbaseHeight`, truncated to `HeightBits` as the code truncates
to int32.

`Outcome(b, h)` is `Ok`, `Err` or `Panic`. `Panic` means the code indexes
`TxIn[0]` of a transaction that has no inputs. It does so in
`ExtractCoinbaseHeight`, called by `IsCoinBase` before
`CheckTransactionSanity` rejects the transaction.

**State**
- `chain`: the connected blocks.
- `panicked`: the node is down.
- `crashes`: the number of crashes so far.

**Actions**
- `AcceptBlock(b)`: a block whose pipeline returns `Ok` is connected.
- `PanicBlock(b)`: the node crashes.
- `Restart`: the node comes back on its stored chain.
- `Halted`: the stutter at the height bound.

**Data.** Blocks are up to `MaxTxs` transactions of a constant pool. A
script is abstracted to its length, first byte and value.

**Refinement.** `CoinbaseChain` has two variables:
- `coinbases`: the sequence of the coinbases' views;
- `down`: whether the node is down.

It has three actions:
- `Extend` appends `Expected(h)` for the next height `h`: a decoding
  height claim equal to `h`, a null first input, and 3 inputs from
  `EntangleHeight` on, 1 before;
- `Crash` takes the node down;
- `Recover` brings it back.

`BlockSanity` defines the mapping as the instance `CC`:
- `coinbases` maps to `[h \in 1..Tip |-> CoinbaseView(h)]`, where
  `CoinbaseView` is what `ExtractCoinbaseHeight` and the layout rules read
  of the block's first transaction;
- `down` maps to `panicked`.

`CoinbaseChainRefined == CC!Spec` is proved (see below). No run checks
it: on the instance, its only content beyond `CoinbaseLayout` is that
blocks are appended, and a crash and restart keep the chain, which
`AcceptBlock`, `PanicBlock` and `Restart` do by their shape.

**Left to the other models**
- The header checks are Difficulty's and are taken to pass.
- The spending checks are ConnectBlock's. Here they are reduced to "the
  outpoint is in the view".

## Runs

Each `.cfg` is one question. "pass" runs must finish without error; each
violation run checks one property that spec.md states of the program.

| cfg | expect | shows |
|-----|--------|-------|
| ConnectBlock.cfg | pass | Over 4 blocks around activation, three properties hold: `MaturityBoundary` (an unspent coinbase output exactly `CoinbaseMaturity` below the next block can be spent by it, checked with `ENABLED`), `PoolLedger` (the pool ledger of spec 8 summed over the chain) and `MinerShareAfterEntangle` (the miner gets at most 80% plus fees). |
| DoubleSpend.cfg | violation | `NoDoubleSpend`: two transactions of one block spend one output and the block is accepted. The input checks all read the same view, and the error of `connectTransactions` is turned into `return nil` (validate.go:1290-1293). That early return also skips the coinbase value check and `checkBlockSubsidy`. |
| Supply.cfg | violation | `SupplyBounded`: before activation the value loop breaks after `out[0]`, so other coinbase outputs create coins. |
| CatchUp.cfg | violation | `ActivationCatchUp`: the catch-up branch for the activation block is dead. |
| Difficulty.cfg | pass | Three properties hold: `NoRetargetPanic` (no division by zero), `RetargetMeetable` (the required target is one `checkProofOfWork` accepts) and `CompactRoundTrip` (its compact encoding truncates within bound). |
| EntangleVerify.cfg | pass | With no cache (`HasCache = FALSE`, as `checkEntangleTx` calls the verifier), `CreditsMatchDeposits` holds under every client and map order: a credited item names a real pool deposit of its amount. |
| DedupHeightKey.cfg | violation | `NoDoubleEntangle`: the run gives the verifier the cache of spec 4.6 (`HasCache = TRUE`). Even so, the same deposit is credited in two blocks under two claimed heights, which are part of the cache key. Without the cache, as the code runs now, nothing stops the second credit at all. Reuse inside one block is not run: it needs `MaxTxs = 2`. |
| VerifierPanic.cfg | violation | `NoVerifierPanic`: `Vout == len(TxOut)` passes the bound check and panics. |
| EntangleOrder.cfg | violation | `EntangleOrdered`: the ordering rule never rejects. |
| BlockSanity.cfg | pass | With the MainNet rule and the chain's rule equal, heights 1 to 3 around `EntangleHeight = 2`, and a pool of valid and malformed transactions, two properties hold: `CoinbaseLayout` (every connected coinbase spends the null outpoint, encodes its height and has 3 inputs exactly from `EntangleHeight` on) and `ChainGrows` (the chain reaches every height despite a crash). |
| SanityPanic.cfg | violation | `NoSanityPanic`: a block whose second transaction has no inputs crashes the node. `IsCoinBase` reads `TxIn[0]` (validate.go:721) before `CheckTransactionSanity` could reject the transaction. A coinbase without inputs crashes it too. |
| ParamsHalt.cfg | violation | `ChainGrows`, with MainNet's `EntangleHeight` at 3 and the chain's at 2. At height 2, `IsCoinBaseTx` wants one input and `isCoinBaseInParam` three (validate.go:115 against 140). A one-input coinbase has its null input looked up and is rejected. The chain halts at height 1, so the cfg sets `CHECK_DEADLOCK FALSE`. |

Every property of a passing run has a mutant in `PROJECT.json`. Each mutant
is a plausible bug in a mapped definition, and TLC finds it:
- the maturity comparison off by one;
- the two pool outputs of the parent read swapped;
- the total-value comparison dropped;
- the -99 clamp dropped;
- the clip to PowLimit dropped;
- the sign-bit renormalisation dropped;
- the amount comparison dropped;
- `checkSerializedHeight` skipped;
- `isCoinBaseInParam`'s `>=` written as `>`;
- `connectTransactions` recomputing an old entry's spent flag from the
  block's own inputs instead of or-ing it.

## Bounds, and why they are enough

**ConnectBlock**
- `EntangleHeight = 2` and `MaxHeight = 4` give a pre-activation block,
  the activation block and two checked blocks. So a parent's pool outputs
  are read by a checked child.
- `CoinbaseMaturity = 2` lets a coinbase output mature inside the run.
- `SubsidyReductionInterval = 2` halves the subsidy inside the run.
- Fees `{0, 1}`, entangle amounts `{0, 30}` and `Slack {0, 1}` let every
  coinbase output be over by one.

**Difficulty**
- A 6-bit mantissa and `PowLimit = 4095`, whose work is 16.
- Offsets `{-20, 10, 40, 6000}` produce the factors 2, 1, 0 and the clamp.
- Six headers let the difficulty rise and fall several times.

**EntangleVerify**
- Items range over three hashes (one unknown), the output indices 0..2
  (in range, at the end, past it), two amounts and claimed heights
  `{0, 10}`.
- Clients start at 24, where a deposit at 10 is exactly 14 deep, so not
  yet mature. Each may see one more block.

**BlockSanity**
- `MaxHeight = 3` with `EntangleHeight = 2` connects a one-input coinbase
  and a three-input coinbase.
- The pool has a coinbase of each shape for each height, and a script with
  a truncated height claim (2^8 + 3).
- It also has an `OP_2` coinbase, and transactions with no inputs, a null
  input, a duplicated input, a missing input and an unfinal lock time.
- `MaxTxs = 2` puts a second transaction after the coinbase.
- `MaxCrashes = 1` lets the node crash and restart once.

## Fairness

ConnectBlock, Difficulty and EntangleVerify check only safety and assume no
fairness.

BlockSanity states one liveness property, `ChainGrows`. It assumes two
things:
- `WF` of `AcceptBlock`: honest miners keep offering a valid block while
  one can be built;
- `WF` of `Restart`: a crashed node is restarted.

A peer could otherwise crash the node for ever, so crashes are bounded by
`MaxCrashes`. That bound stands for an operator who eventually stops
reconnecting to the peer that sent the crashing block.

Deadlock is checked, except in ParamsHalt.cfg, where the chain really
stops. Each model has an explicit stutter once its bounds are reached
(`Halted` in EntangleVerify and BlockSanity).

## What is proved

TLAPS checks every step of these theorems, for all constants satisfying the
named assumptions.

### ConnectBlockProofs

**`TypeCorrect`** (`Spec => []TypeOK`). The lemmas show that the candidate
sets, `NewOutputs` and `ConnectTransactions` produce well-typed views.

**`PoolLedgerHolds`** (`Spec => []PoolLedger`). `PoolLedger` is not
inductive as it stands. The strengthening is
`IInv == TypeOK /\ PreActivation /\ PoolLedger`, where `PreActivation`
records that before activation nothing was minted or accrued.

The step proof splits the `ConnectBlock` action on the new height:
- up to `EntangleHeight`, the ledger's premise is false or the history is
  unchanged;
- after it, there are two cases:
  - a block that connected and whose checks ran: `BlockSubsidyOK` gives
    the new pool outputs as the parent's plus the shares, less the mint,
    so the ledger's two equalities are kept;
  - a block that was skipped: it enters `skipped` and turns the premise
    off for good.

### DifficultyProofs

**`RetargetNeverPanics`** (`Spec => []NoRetargetPanic`). The inductive
invariant `DInv` says three things:
- the chain is a sequence of headers;
- the tip's target is in `1..PowLimit`;
- the parent difficulty the retarget reads is the work of the tip's bits.

From `2^WorkBits \div (PowLimit + 1) >= 5`, which is
`DifficultyAssumption`:
- the parent difficulty is at least 5;
- `5 + (5 * -99) \div 128 = 1`, so the clamped new difficulty is positive;
- the next header again carries an accepted target.

For the real chain parameters, 2^256 / (PowLimit + 1) is far above 5.

### BlockSanityProofs

**`CoinbaseLayoutHolds`** (`Spec => []CoinbaseLayout`). It holds for every
pair of `EntangleHeight`s, equal or not. The inductive invariant is
`TypeOK /\ CoinbaseLayout`. Connected blocks never change, so only the new
block needs an argument.

Lemma `AcceptedCoinbase` follows the pipeline of an accepted block:
- `checkBlockSanity` makes its first transaction `IsCoinBaseTx`-shaped, so
  `TxIn[0]` is the null outpoint;
- `checkSerializedHeight` makes its height claim the block's height;
- `TxInputsFound` holds for it. Had `isCoinBaseInParam` rejected it, the
  null outpoint would have been looked up, and `BlockSanityAssumption`
  keeps it out of the view. So `isCoinBaseInParam`, which reads the
  chain's `EntangleHeight`, accepted it. That fixes the input count.

**`TypeCorrect`** (`Spec => []TypeOK`) is proved from the same invariant.

**`RefinesCoinbaseChain`** (`Spec => CoinbaseChainRefined`). The proof
has two parts.

`RefineInit`: the empty chain maps to no coinbases, and the node is up.

`RefineStep` rests on the same invariant and takes each action in turn:
- `AcceptBlock` is `Extend`. Lemma `MappedAppend` shows that the mapped
  sequence grows by the new block's view. By `AcceptedCoinbase`, that view
  is `Expected` of the new height, and the views of older blocks are
  unchanged.
- `PanicBlock` is `Crash`.
- `Restart` is `Recover`.
- `Halted` is a stutter.

The mapping is stated with `ViewOf(c, h)`, whose chain is an explicit
argument. The reason is priming: `CoinbaseView(Len(chain) + 1)'` would
prime the height argument together with the chain.

### EntangleVerifyProofs

**`CreditsBacked`** (`Spec => []CreditsMatchDeposits`). The property is
inductive as it stands. What it says of a credited item depends only on
the constant `ForeignTx`, not on the clients' block counts. The lemmas
follow `CheckBlockEntangle` down to the foreign check:
- `BlockOkTxsOk`: an accepted block has `Ok` among every transaction's
  outcomes;
- `TxOkItemsVerified`: `VerifyEntangleTx` then has some client verify
  each item;
- `VerifiedItemBacked`: an item that `verifyDogeTx` / `verifyLtcTx`
  accepts passes every check of the chain in code order, and so names a
  pool output of its amount.

The proof needs three facts, which `EntangleAssumption` states and the
code justifies:
- a foreign transaction's outputs form a sequence;
- the unknown hash is not in `ForeignTx`;
- an output index (a `uint32`) is a natural.

**`TypeCorrect`** (`Spec => []TypeOK`). `TypeOK` is inductive. Its
bounds are the actions' guards, and `BlockTxIndex` bounds a
transaction's index by `MaxTxs`. It rests on the assumption
`StartCount <= MaxCount` of `EntangleAssumption`.

### Only model-checked

Everything else is only model-checked:
- `MinerShareAfterEntangle` and `SupplyBounded`. They compare sums over
  sequences (`TipFees`, `ValueOf`, `SeqSum`), and relating such a sum
  before and after a step needs induction over the sequence. That is out
  of the provers' reach.
- `RetargetMeetable` and `CompactRoundTrip`, the arithmetic of
  `BigToCompact` and `CompactToBig`. TLC checks it on all retarget targets
  of the instance. A proof would need the laws of `2^x` for symbolic
  exponents, such as `2^(a+b) = 2^a * 2^b`. The provers do not derive
  these, and the project does not assume them.
- `MaturityBoundary`. It is stated with `ENABLED`, which the provers do
  not handle.
- `ChainGrows`. Liveness and `ENABLED` are beyond the provers used, and
  so is induction over data. TLC checks `ChainGrows` under the fairness
  above.

## Not modelled

- Script execution and sigop counting. Sigops are a field of the
  transaction.
- Timestamp lock times, and `checkBlockContext` under `BFFastAdd`.
- ConnectBlock assumes the guarantees of the sanity checks that
  BlockSanity models: distinct inputs and non-negative values.
- The unused difficulty helpers `findPrevTestNetDifficulty` and
  `getSuitableBlock`.
- The gRPC documentation in `src/unnamed/part_000`.
- Some hazards have no property; `PROJECT.json` says why for each:
  - `verifyTx` returning `(nil, nil)` for an unknown chain type;
  - the unchecked merge inputs (validate.go:988), which `matchPoolFromUtxo`
    makes unreachable;
  - the dead parent-timestamp guard (validate.go:595);
  - the maturity check against the claimed height, whose misuse
    DedupHeightKey.cfg already shows.
