---------------------------- MODULE CoinbaseChain ----------------------------
(***************************************************************************)
(* What the block pipeline of blockchain/validate.go promises of the       *)
(* chain's coinbases, stated without any of its checks (spec 4.7 and 4.8): *)
(* the chain grows one block at a time; the coinbase of the block at       *)
(* height h spends the null outpoint, carries a height that decodes to h,  *)
(* and has three inputs (the two merge inputs) from EntangleHeight on and  *)
(* one before; a node that goes down keeps its chain and may come back.    *)
(* A coinbase is seen through what ExtractCoinbaseHeight and the layout    *)
(* rules read of it: whether its height decodes, the height, whether its   *)
(* first input is null, and its input count.                               *)
(***************************************************************************)
EXTENDS Integers, Sequences

CONSTANT EntangleHeight

VARIABLES
  coinbases,  \* coinbases[h]: the coinbase of the block at height h
  down        \* the node is down

cvars == <<coinbases, down>>

\* The coinbase the block at height h must have.
Expected(h) ==
  [decodes |-> TRUE, claim |-> h, nullIn |-> TRUE,
   nins |-> IF h >= EntangleHeight THEN 3 ELSE 1]

\* A block is connected on top of the chain.
Extend ==
  /\ ~down
  /\ coinbases' = Append(coinbases, Expected(Len(coinbases) + 1))
  /\ UNCHANGED down

\* The node goes down with its chain as it was.
Crash ==
  /\ ~down
  /\ down' = TRUE
  /\ UNCHANGED coinbases

\* The node comes back on its chain.
Recover ==
  /\ down
  /\ down' = FALSE
  /\ UNCHANGED coinbases

Init == coinbases = << >> /\ down = FALSE

Next == Extend \/ Crash \/ Recover

Spec == Init /\ [][Next]_cvars
====
