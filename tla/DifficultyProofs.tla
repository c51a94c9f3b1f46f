-------------------------- MODULE DifficultyProofs --------------------------
(***************************************************************************)
(* Proof that calcNextRequiredDifficulty never divides by zero, for every  *)
(* value of the constants that satisfies DifficultyAssumption.  The chain  *)
(* only ever holds headers whose target checkProofOfWork accepted, so the  *)
(* parent difficulty is the work of a target of at most PowLimit, at least *)
(* 5, and 5 survives the -99 clamp: 5 + (5 * -99) \div 128 = 1.            *)
(***************************************************************************)
EXTENDS Difficulty, TLAPS

\* The bits a header can carry: the genesis bits or an encoded target.
Bits == {GenesisBits} \cup {BigToCompact(n) : n \in Int}

Header == [time : Int, bits : Bits, workSum : Int]

\* The inductive invariant: the chain is a non-empty sequence of headers,
\* the tip's target is one checkProofOfWork accepts, and the parent
\* difficulty the retarget reads is the work of the tip's bits.
DInv ==
  /\ chain \in Seq(Header)
  /\ Len(chain) >= 1
  /\ CompactToBig(Last.bits) \in 1..PowLimit
  /\ ParentDifficulty = CalcWork(Last.bits)

\* The work of a target of at most PowLimit is at least 5.
LEMMA WorkAtLeastFive ==
  ASSUME NEW T \in 1..PowLimit
  PROVE  2^WorkBits \div (T + 1) >= 5
<1>1. 2^WorkBits \in Nat /\ PowLimit \in Nat \ {0}
  BY DifficultyAssumption
<1>2. 2^WorkBits \div (T + 1) >= 2^WorkBits \div (PowLimit + 1)
  BY <1>1
<1> QED
  BY <1>2, DifficultyAssumption

\* A difficulty of at least 5 stays positive under any factor the clamp
\* lets through.
LEMMA ClampKeepsPositive ==
  ASSUME NEW d \in Int, d >= 5, NEW x \in Int, x >= Clamp
  PROVE  d + (d * x) \div DifficultyBoundDivisor > 0
  BY DEF Clamp, DifficultyBoundDivisor

\* TimeFactor is an integer no smaller than the clamp.
LEMMA TimeFactorBounds ==
  ASSUME NEW t \in Int, Last.time \in Int
  PROVE  TimeFactor(t) \in Int /\ TimeFactor(t) >= Clamp
  BY DEF TimeFactor, Window, Clamp

\* Under the invariant the new difficulty is a positive integer for every
\* timestamp: the parent difficulty is the work of a target of at most
\* PowLimit, so at least 5, and the clamped factor cannot take it to 0.
LEMMA NewDifficultyPositive ==
  ASSUME DInv, NEW t \in Int
  PROVE  NewDifficulty(t) \in Int /\ NewDifficulty(t) > 0
<1>1. Last \in Header
  BY DEF DInv, Last
<1>2. Last.time \in Int
  BY <1>1 DEF Header
<1>3. ParentDifficulty = 2^WorkBits \div (CompactToBig(Last.bits) + 1)
  BY DEF DInv, CalcWork
<1>4. ParentDifficulty >= 5 /\ ParentDifficulty \in Int
  <2>1. 2^WorkBits \div (CompactToBig(Last.bits) + 1) >= 5
    BY WorkAtLeastFive DEF DInv
  <2>2. 2^WorkBits \div (CompactToBig(Last.bits) + 1) \in Int
    BY DifficultyAssumption DEF DInv
  <2> QED
    BY <1>3, <2>1, <2>2
<1>5. TimeFactor(t) \in Int /\ TimeFactor(t) >= Clamp
  BY <1>2, TimeFactorBounds
<1> QED
  BY <1>4, <1>5, ClampKeepsPositive DEF NewDifficulty, DifficultyBoundDivisor

LEMMA InitDInv == Init => DInv
<1> SUFFICES ASSUME Init PROVE DInv
  OBVIOUS
<1>1. chain = <<[time |-> 0, bits |-> GenesisBits, workSum |-> CalcWork(GenesisBits)]>>
  BY DEF Init
<1>2. CompactToBig(GenesisBits) \in 1..PowLimit
  BY GenesisAssumption
<1>3. CalcWork(GenesisBits) = 2^WorkBits \div (CompactToBig(GenesisBits) + 1)
  BY <1>2 DEF CalcWork
<1>4. CalcWork(GenesisBits) \in Int
  BY <1>2, <1>3, DifficultyAssumption
<1>5. [time |-> 0, bits |-> GenesisBits, workSum |-> CalcWork(GenesisBits)] \in Header
  BY <1>4 DEF Header, Bits
<1> QED
  BY <1>1, <1>2, <1>5 DEF DInv, Last, ParentDifficulty

\* A header added by AddHeader keeps the invariant: its bits are an encoded
\* target that checkProofOfWork accepted, and its workSum is its parent's
\* plus its work.
LEMMA AddHeaderDInv ==
  ASSUME DInv, NEW t \in Int, AddHeader(t)
  PROVE  DInv'
<1> DEFINE bits == RequiredBits(t)
           hdr == [time |-> t, bits |-> bits, workSum |-> Last.workSum + CalcWork(bits)]
<1>1. chain' = Append(chain, hdr)
  BY DEF AddHeader, bits, hdr
<1>2. CompactToBig(bits) \in 1..PowLimit
  BY DEF AddHeader, bits, ProofOfWorkOK
<1>3. Last \in Header
  BY DEF DInv, Last
<1>4. CalcWork(bits) = 2^WorkBits \div (CompactToBig(bits) + 1)
  BY <1>2 DEF CalcWork
<1>5. CalcWork(bits) \in Int
  BY <1>2, <1>4, DifficultyAssumption
<1>6. bits \in Bits
  <2>3. NewDifficulty(t) \in Int /\ NewDifficulty(t) > 0
    BY NewDifficultyPositive
  <2>4. (2^WorkBits - NewDifficulty(t)) \div NewDifficulty(t) \in Int
    BY <2>3, DifficultyAssumption
  <2>5. \E n \in Int : bits = BigToCompact(n)
    <3> DEFINE nt == (2^WorkBits - NewDifficulty(t)) \div NewDifficulty(t)
    <3>1. bits = BigToCompact(IF nt > PowLimit THEN PowLimit ELSE nt)
      BY DEF bits, RequiredBits, NewTarget, nt
    <3>2. (IF nt > PowLimit THEN PowLimit ELSE nt) \in Int
      BY <2>4, DifficultyAssumption DEF nt
    <3> QED
      BY <3>1, <3>2
  <2> QED
    BY <2>5 DEF Bits
<1>7. hdr \in Header
  BY <1>3, <1>5, <1>6 DEF Header, hdr
<1>8. /\ chain' \in Seq(Header)
      /\ Len(chain') = Len(chain) + 1
      /\ chain'[Len(chain')] = hdr
      /\ chain'[Len(chain') - 1] = Last
  BY <1>1, <1>7 DEF DInv, Last
<1>9. ParentDifficulty' = hdr.workSum - Last.workSum
  BY <1>8 DEF DInv, ParentDifficulty, Last
<1>10. hdr.workSum - Last.workSum = CalcWork(bits)
  BY <1>3, <1>5 DEF Header, hdr
<1> QED
  BY <1>2, <1>8, <1>9, <1>10 DEF DInv, Last, hdr

LEMMA NextDInv == DInv /\ [Next]_vars => DInv'
<1> SUFFICES ASSUME DInv, [Next]_vars PROVE DInv'
  OBVIOUS
<1>1. ASSUME NEW t \in NextTimes, AddHeader(t) PROVE DInv'
  <2>1. Last \in Header
    BY DEF DInv, Last
  <2>2. t \in Int
    BY <2>1, DifficultyAssumption DEF NextTimes, Header
  <2> QED
    BY <1>1, <2>2, AddHeaderDInv
<1>2. CASE UNCHANGED vars
  BY <1>2 DEF DInv, vars, Last, ParentDifficulty
<1> QED
  BY <1>1, <1>2 DEF Next

\* The invariant implies the property.
LEMMA DInvNoPanic == DInv => NoRetargetPanic
<1> SUFFICES ASSUME DInv, NEW t \in NextTimes PROVE NewDifficulty(t) > 0
  BY DEF NoRetargetPanic
<1>1. Last \in Header
  BY DEF DInv, Last
<1>2. t \in Int
  BY <1>1, DifficultyAssumption DEF NextTimes, Header
<1> QED
  BY <1>2, NewDifficultyPositive

\* calcNextRequiredDifficulty never divides by zero on any chain the
\* header checks accept, for every value of the constants whose easiest
\* target has a work of at least 5: whatever timestamp the next miner
\* picks, the new difficulty is positive.
THEOREM RetargetNeverPanics == Spec => []NoRetargetPanic
<1>1. Init => DInv
  BY InitDInv
<1>2. DInv /\ [Next]_vars => DInv'
  BY NextDInv
<1>3. DInv => NoRetargetPanic
  BY DInvNoPanic
<1> QED
  BY <1>1, <1>2, <1>3, PTL DEF Spec
====
