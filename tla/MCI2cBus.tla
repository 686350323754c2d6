------------------------------- MODULE MCI2cBus -------------------------------
(***************************************************************************)
(* An instance of I2cBus for TLC: two chips that share an address on two   *)
(* channels, one of them with PEC, and a chip on the parent bus whose      *)
(* bytes are received one after the other.                                 *)
(***************************************************************************)
EXTENDS I2cBus, TLC

CONSTANTS t1, t2, psu, fan, eeprom

MCPlace == psu :> {0} @@ fan :> {1} @@ eeprom :> Parent
MCAddress == psu :> 80 @@ fan :> 80 @@ eeprom :> 81

MCPowerOn == {[c \in Chips |-> [r \in 0..1 |-> IF c = eeprom THEN r ELSE 0]]}

Request(k, c, r, v) == [kind |-> k, chip |-> c, reg |-> r, val |-> v]
MCRequests ==
  {Request("write", psu, 0, 0), Request("write", psu, 0, 1),
   Request("write", fan, 0, 1), Request("read", psu, 0, 0),
   Request("receive", eeprom, 0, 0)}
===============================================================================
