---------------------------- MODULE MCBlockSanity ----------------------------
(* Instance of BlockSanity: three heights around EntangleHeight 2, and a   *)
(* pool holding, for every height, a coinbase of each layout, coinbases    *)
(* whose height is a small-integer opcode or truncated to HeightBits,      *)
(* ordinary transactions, and malformed ones (no inputs, a null input, a   *)
(* repeated input, a missing input, a lock time not yet reached).          *)
EXTENDS BlockSanity

MCOutpoints == {"null", "a", "b", "m", "p1", "p2"}
MCView == {"a", "b", "p1", "p2"}

MkTx(id, ins, scr, lock, fin) ==
  [id |-> id, ins |-> ins, script |-> scr, outs |-> <<1>>, lockTime |-> lock,
   seqFinal |-> fin, size |-> 200, sigOps |-> 1]

\* a script that pushes the 3-byte height v
Push(v) == [len |-> 4, head |-> 3, val |-> v]
\* a signature push, as in an ordinary input
SigScript == [len |-> 107, head |-> 72, val |-> 1234]

MCTxPool ==
  {MkTx(10 * h + 1, <<"null">>, Push(h), 0, TRUE) : h \in 1..3}
  \cup {MkTx(10 * h + 3, <<"null", "p1", "p2">>, Push(h), 0, TRUE) : h \in 1..3}
  \cup { MkTx(50, <<"null", "p1", "p2">>, [len |-> 2, head |-> 82, val |-> 0], 0, TRUE),
         MkTx(51, <<"null", "p1", "p2">>, Push(2^8 + 3), 0, TRUE),
         MkTx(100, <<"a">>, SigScript, 0, TRUE),
         MkTx(101, <<>>, SigScript, 0, TRUE),
         MkTx(102, <<"a", "null">>, SigScript, 0, TRUE),
         MkTx(103, <<"a", "a">>, SigScript, 0, TRUE),
         MkTx(104, <<"m">>, SigScript, 0, TRUE),
         MkTx(105, <<"b">>, SigScript, 2, FALSE) }
====
