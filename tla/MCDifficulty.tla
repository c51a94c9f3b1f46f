---------------------------- MODULE MCDifficulty ----------------------------
(* Instance of Difficulty for TLC: 16-bit work, 2-bit compact digits (a    *)
(* 6-bit mantissa), a PowLimit whose work is 16, and genesis bits 335,     *)
(* which BigToCompact gives for 255 and which decode to the target 240     *)
(* (work 271, above the divisor 128, so fast blocks raise it).  The        *)
(* offsets give the factors 2, 1, 0 and the clamp -99 (from 6000 s, where  *)
(* the unclamped factor would be -199).                                    *)
EXTENDS Difficulty

MCPowLimit == 4095
MCGenesisBits == 335
MCDeltas == {-20, 10, 40, 6000}
====
