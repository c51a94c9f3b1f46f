----------------------------- MODULE Difficulty -----------------------------
(***************************************************************************)
(* The difficulty retarget of blockchain/validate.go: the compact target   *)
(* encoding (CompactToBig, BigToCompact), CalcWork, the per-block retarget *)
(* calcNextRequiredDifficulty, and the header checks that use them         *)
(* (checkProofOfWork, the timestamp checks of checkBlockHeaderSanity and   *)
(* checkBlockHeaderContext).  One step extends the main chain by a header  *)
(* whose timestamp the miner picks within a small window of its parent's.  *)
(*                                                                         *)
(* Widths are scaled down and kept as constants: a "byte" of the compact   *)
(* format is DigitBits bits (8 in the code), the mantissa three digits     *)
(* with its top bit the sign bit (0x00800000), and 2^256 of CalcWork and   *)
(* of the retarget is 2^WorkBits.  The divisor 128, the window 30 and the  *)
(* clamp -99 are the code's.  Proof-of-work itself is abstracted: a header *)
(* that meets its target can always be found.                              *)
(***************************************************************************)
EXTENDS Integers, Sequences, FiniteSets

CONSTANTS
  WorkBits,      \* 256 in oneLsh256 and in the retarget's 2^256
  DigitBits,     \* 8: the base of the compact exponent is 2^DigitBits
  PowLimit,      \* chainParams.PowLimit, in the scaled widths
  GenesisBits,   \* the genesis header's bits
  MedianBlocks,  \* medianTimeBlocks (11)
  Deltas,        \* offsets from the parent's timestamp a miner may choose
  MaxHeight      \* last height added (modelling bound)

ASSUME DifficultyAssumption ==
  /\ WorkBits \in Nat \ {0} /\ DigitBits \in Nat \ {0}
  /\ PowLimit \in Nat \ {0}
  /\ GenesisBits \in Nat
  /\ MedianBlocks \in Nat \ {0}
  /\ Deltas \subseteq Int
  /\ MaxHeight \in Nat
  \* (a fact of arithmetic the provers do not derive from the definition of ^)
  /\ 2^WorkBits \in Nat
  \* the work of the easiest target is at least 5 (see NoRetargetPanic)
  /\ 2^WorkBits \div (PowLimit + 1) >= 5

\* DifficultyBoundDivisor, big30 and bigMinus99, validate.go:1660-1669.
DifficultyBoundDivisor == 128
Window == 30
Clamp == -99

MantBits == 3 * DigitBits
SignBit == 2^(MantBits - 1)                 \* 0x00800000

\* The number of digits of n >= 0: len(n.Bytes()).
NumDigits(n) ==
  CHOOSE k \in 0..(WorkBits \div DigitBits + 2) :
    n < 2^(DigitBits * k) /\ (k = 0 \/ n >= 2^(DigitBits * (k - 1)))

\* CompactToBig, validate.go:1736-1762.
CompactToBig(compact) ==
  LET mantissa == compact % SignBit
      isNegative == (compact \div SignBit) % 2 = 1
      exponent == compact \div 2^MantBits
      bn == IF exponent <= 3 THEN mantissa \div 2^(DigitBits * (3 - exponent))
            ELSE mantissa * 2^(DigitBits * (exponent - 3))
  IN  IF isNegative THEN -bn ELSE bn

\* The genesis target is one checkProofOfWork accepts.
ASSUME GenesisAssumption == CompactToBig(GenesisBits) \in 1..PowLimit

\* The mantissa and exponent of BigToCompact before its sign-bit correction.
RawMantissa(a) ==
  IF NumDigits(a) <= 3 THEN a * 2^(DigitBits * (3 - NumDigits(a)))
  ELSE a \div 2^(DigitBits * (NumDigits(a) - 3))

\* Mutant: BigToCompact without the shift that keeps the sign bit clear.
BigToCompactNoRenorm(n) ==
  LET a == IF n < 0 THEN -n ELSE n
      compact == NumDigits(a) * 2^MantBits + RawMantissa(a)
  IN  IF n = 0 THEN 0 ELSE IF n < 0 THEN compact + SignBit ELSE compact

\* BigToCompact, validate.go:1768-1804.
BigToCompact(n) ==
  LET a == IF n < 0 THEN -n ELSE n
      over == RawMantissa(a) >= SignBit
      mantissa == IF over THEN RawMantissa(a) \div 2^DigitBits ELSE RawMantissa(a)
      exponent == IF over THEN NumDigits(a) + 1 ELSE NumDigits(a)
      compact == exponent * 2^MantBits + mantissa
  IN  IF n = 0 THEN 0 ELSE IF n < 0 THEN compact + SignBit ELSE compact

\* CalcWork, validate.go:1816-1832.
CalcWork(bits) ==
  IF CompactToBig(bits) <= 0 THEN 0 ELSE 2^WorkBits \div (CompactToBig(bits) + 1)

\* checkProofOfWork, validate.go:416-458: the target is positive and at
\* most PowLimit (the seal check is abstracted: a nonce can be found).
ProofOfWorkOK(bits) == CompactToBig(bits) \in 1..PowLimit

VARIABLE chain   \* the main chain: a sequence of [time, bits, workSum]

vars == <<chain>>

Last == chain[Len(chain)]

\* lastNode.workSum - RelativeAncestor(1).workSum, or the genesis workSum.
ParentDifficulty ==
  IF Len(chain) > 1 THEN Last.workSum - chain[Len(chain) - 1].workSum
  ELSE Last.workSum

\* max(1 - (timestamp - parent.timestamp) // 30, -99) (Div is Euclidean:
\* the floor for the positive divisor).
TimeFactor(t) ==
  IF 1 - (t - Last.time) \div Window < Clamp THEN Clamp
  ELSE 1 - (t - Last.time) \div Window

\* Mutant: the -99 clamp left out.
NewDifficultyNoClamp(t) ==
  ParentDifficulty
    + (ParentDifficulty * (1 - (t - Last.time) \div Window)) \div DifficultyBoundDivisor

\* parent_diff + parent_diff * factor // 128, validate.go:1897-1921.
NewDifficulty(t) ==
  ParentDifficulty + (ParentDifficulty * TimeFactor(t)) \div DifficultyBoundDivisor

\* Mutant: the clip to PowLimit left out.
RequiredBitsNoClip(t) ==
  BigToCompact((2^WorkBits - NewDifficulty(t)) \div NewDifficulty(t))

\* The new target of calcNextRequiredDifficulty, validate.go:1923-1930:
\* (2^256 - newDifficulty) / newDifficulty clipped to PowLimit, for a
\* timestamp whose difficulty is not 0 (a 0 is a division by zero: the
\* node panics).
NewTarget(t) ==
  LET nt == (2^WorkBits - NewDifficulty(t)) \div NewDifficulty(t)
  IN  IF nt > PowLimit THEN PowLimit ELSE nt

\* calcNextRequiredDifficulty, validate.go:1882-1933: the bits of the new
\* target.
RequiredBits(t) == BigToCompact(NewTarget(t))

\* CalcPastMedianTime (blockindex.go, outside src/): the median of the
\* timestamps of the last MedianBlocks nodes.
MedianTimePast ==
  LET n == IF Len(chain) < MedianBlocks THEN Len(chain) ELSE MedianBlocks
      ts == [i \in 1..n |-> chain[Len(chain) - n + i].time]
      k == n \div 2
  IN  CHOOSE v \in {ts[i] : i \in 1..n} :
        /\ Cardinality({i \in 1..n : ts[i] < v}) <= k
        /\ Cardinality({i \in 1..n : ts[i] <= v}) > k

\* The timestamps a miner may put in the next header.
NextTimes == {Last.time + d : d \in Deltas}

\* A header at time t passes checkBlockHeaderSanity and
\* checkBlockHeaderContext (validate.go:569-609, 802-833) and is added
\* with the workSum of blockindex.go.  Its bits must equal the required
\* bits; checkProofOfWork (416-431) wants a target in 1..PowLimit; the
\* timestamp must be after the median time past.  The parent-timestamp
\* check of checkBlockHeaderSanity (validate.go:595) needs err != nil and
\* prevblock != nil together, which BlockByHash never returns: it is dead.
AddHeader(t) ==
  /\ Len(chain) <= MaxHeight
  /\ NewDifficulty(t) # 0
  /\ LET bits == RequiredBits(t)
     IN  /\ ProofOfWorkOK(bits)
         /\ t > MedianTimePast
         /\ chain' = Append(chain, [time |-> t, bits |-> bits,
                                    workSum |-> Last.workSum + CalcWork(bits)])

Next ==
  \/ \E t \in NextTimes : AddHeader(t)
  \* the modelling bound is reached
  \/ Len(chain) = MaxHeight + 1 /\ UNCHANGED vars

Init == chain = <<[time |-> 0, bits |-> GenesisBits, workSum |-> CalcWork(GenesisBits)]>>

Spec == Init /\ [][Next]_vars
-----------------------------------------------------------------------------
(* Properties.                                                             *)

TypeOK ==
  /\ chain \in Seq([time : Int, bits : Nat, workSum : Nat])
  /\ Len(chain) \in 1..(MaxHeight + 1)

\* calcNextRequiredDifficulty never divides by zero: for every timestamp a
\* miner may choose, the new difficulty of the retarget is positive.  It
\* rests on the targets the chain accepted being at most PowLimit, so that
\* the parent difficulty is large enough to survive the -99 clamp.
NoRetargetPanic ==
  \A t \in NextTimes : NewDifficulty(t) > 0

\* The chain can always grow: for every timestamp, the bits the retarget
\* requires describe a target checkProofOfWork accepts (in 1..PowLimit),
\* after the clip to PowLimit and BigToCompact's truncation.
RetargetMeetable ==
  \A t \in NextTimes : NewDifficulty(t) > 0 => CompactToBig(RequiredBits(t)) \in 1..PowLimit

\* The bits the retarget requires decode to the target it computed, up to
\* BigToCompact's truncation: for every timestamp, the decoded target r of
\* the new target n satisfies 0 < r <= n, and the lost part is below
\* r / 2^(MantBits - 1 - DigitBits) (the sign-bit renormalisation keeps the
\* mantissa below the sign bit and shifts one digit out).
CompactRoundTrip ==
  \A t \in NextTimes :
    NewDifficulty(t) > 0 =>
      LET n == NewTarget(t)
          r == CompactToBig(RequiredBits(t))
      IN  /\ 0 < r /\ r <= n
          /\ (n - r) * 2^(MantBits - 1 - DigitBits) < r
====
