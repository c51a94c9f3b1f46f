-------------------------- MODULE MCEntangleVerify --------------------------
(* Instance of EntangleVerify for TLC: one deposit transaction on each     *)
(* foreign chain, both 10 blocks into their chain.  The Doge one pays 5 to *)
(* the pool in output 0 and 3 to a plain address in output 1; the Ltc one *)
(* pays 4 to the pool in its only output.  Items may name outputs 0..2, so *)
(* both the short index and the index one past the end are reachable; two *)
(* clients per chain start at 24 blocks, where a deposit at 10 is 14 deep  *)
(* and not yet mature, and may each see one more block.                    *)
EXTENDS EntangleVerify

MCChains == {"doge", "ltc"}
MCForeignTx ==
  [h \in {"dtx", "ltx"} |->
     IF h = "dtx"
     THEN [chain |-> "doge", height |-> 10,
           outs |-> <<[value |-> 5, class |-> 2, pool |-> TRUE],
                      [value |-> 3, class |-> 1, pool |-> FALSE]>>]
     ELSE [chain |-> "ltc", height |-> 10,
           outs |-> <<[value |-> 4, class |-> 2, pool |-> TRUE]>>]]
====
