--------------------------- MODULE MCConnectBlock ---------------------------
(* Instance of ConnectBlock for TLC: EntangleHeight 2, so the chain has a  *)
(* block before the activation, the activation block and two after it; a   *)
(* coinbase output of height 1 matures at height 3.                        *)
EXTENDS ConnectBlock

MCFees == {0, 1}
MCFeesOverspend == {-1, 0, 1}
MCEnt == {0, 30}
MCSlack == {0, 1}
MCNoSlack == {0}
====
