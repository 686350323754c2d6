----------------------------- MODULE MCCpldLines -----------------------------
(***************************************************************************)
(* Instances of CpldLines for TLC, shaped after conf/device.xml.           *)
(*                                                                         *)
(* Apart: a group over two registers whose second register also holds an   *)
(* input pin (a select or reset group), and an inverted output pin in a    *)
(* register of its own.  Together: the control pin and the digit bits of   *)
(* register 0x14, one output pin and one output group in one register.     *)
(***************************************************************************)
EXTENDS CpldLines, TLC

CONSTANTS t1, t2, group, pin, sense, r1, r2, r3, c1, c2, c3, c4

\* Two output lines in registers of their own, and an input.
ApartRegOf == c1 :> r1 @@ c2 :> r2 @@ c3 :> r3 @@ c4 :> r2
ApartOrder == group :> <<r1, r2>> @@ pin :> <<r3>> @@ sense :> <<r2>>
ApartField == group :> {c1, c2} @@ pin :> {c3} @@ sense :> {c4}
ApartDefault == group :> {c1} @@ pin :> {c3} @@ sense :> {}

\* A pin and a group of two bits in one register.
TogetherRegOf == c1 :> r1 @@ c2 :> r1 @@ c3 :> r1
TogetherOrder == group :> <<r1>> @@ pin :> <<r1>>
TogetherField == group :> {c1, c2} @@ pin :> {c3}
TogetherDefault == group :> {c1} @@ pin :> {c3}

Symmetry == Permutations(Threads)
==============================================================================
