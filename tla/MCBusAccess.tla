---------------------------- MODULE MCBusAccess ------------------------------
(***************************************************************************)
(* An instance of BusAccess for TLC, shaped after conf/device.xml: the     *)
(* CPLD on channel 0; two transceivers of one module-select group on       *)
(* channel 2; on channel 3 one of another module-select group that also    *)
(* has a mux-select group; temperature sensors with one address on         *)
(* channels 0 and 3; and a device on the parent bus.                       *)
(***************************************************************************)
EXTENDS BusAccess, TLC

CONSTANTS t1, t2, cpld, q1, q2, q3, sensor, twin, direct, mod1, mod2, mux1

MCPlace == cpld :> 0 @@ q1 :> 2 @@ q2 :> 2 @@ q3 :> 3 @@ sensor :> 0
           @@ twin :> 3 @@ direct :> Parent

MCAddress == cpld :> "0x32" @@ q1 :> "0x50" @@ q2 :> "0x50" @@ q3 :> "0x50"
             @@ sensor :> "0x4d" @@ twin :> "0x4d" @@ direct :> "0x2d"

MCMuxSel == [d \in Devices |-> IF d = q3 THEN mux1 ELSE NoGroup]
MCModSel == [d \in Devices |-> CASE d \in {q1, q2} -> mod1
                                 [] d = q3 -> mod2
                                 [] OTHER -> NoGroup]
MCCpld == [g \in Groups |-> cpld]
MCLength == [g \in Groups |-> IF g = mod1 THEN 2 ELSE 1]
MCValue == [g \in Groups |-> [d \in Devices |-> {d}]]
==============================================================================
