----------------------------- MODULE MCThresholds -----------------------------
(***************************************************************************)
(* An instance of Thresholds for TLC: two sensors, defaults that fit and a *)
(* critical default that does not, temperatures at, between and beyond the *)
(* limits, on both sides of zero.                                          *)
(***************************************************************************)
EXTENDS Thresholds, TLC

CONSTANTS t1, t2

Defaults(low, high, critical) ==
  [l \in Limits |-> IF l[1] = "low" THEN low
                    ELSE IF l[1] = "high" THEN high ELSE critical]
MCConfigs == {Defaults(0, 85, 85), Defaults(10, 80, 256)}
MCTemperatures == {-128000, -5500, 0, 10000, 10600, 79499, 79600, 80000, 127999}

Symmetry == Permutations(Threads)
===============================================================================
